--------------------------- MODULE SendTool_proofs ---------------------------
(***************************************************************************)
(* Theorems about SendTool, for any messages and bounds: it implements     *)
(* SentLedger.                                                             *)
(***************************************************************************)
EXTENDS SendTool, TLAPS

\* Who may still file message m: its call (until it is done), the entry held for
\* the webhook, or the webhook's handler; never two of them, and none once a
\* copy is there.  Whoever is about to file it knows that it has been sent.
FilingOK(m) ==
  /\ call[m].pc \in {"none", "dispatching"} => mail[m] = "none"
  /\ call[m].pc = "building" /\ ~Scheduled(call[m]) => mail[m] = "sent"
  /\ call[m].pc = "saving" => mail[m] = "sent"
  /\ call[m].pc \in {"none", "dispatching", "building", "saving"} =>
       copies[m] = 0 /\ m \notin held /\ m \notin filing
  /\ m \in held => copies[m] = 0 /\ m \notin filing
  /\ m \in filing => copies[m] = 0 /\ mail[m] = "sent"
  /\ SentEvent(m) \in events => mail[m] = "sent"
  /\ call[m].saved => copies[m] = 1 /\ mail[m] = "sent"

\* TypeOK alone is not inductive: that a copy fits its bound needs FilingOK.
SendInv == TypeOK /\ \A m \in Msgs : FilingOK(m)

\* What FilingOK(n) looks at is as it was.
SameAt(n) ==
  /\ call'[n] = call[n]
  /\ mail'[n] = mail[n]
  /\ copies'[n] = copies[n]
  /\ n \in held' <=> n \in held
  /\ n \in filing' <=> n \in filing
  /\ SentEvent(n) \in events' => SentEvent(n) \in events

\* FilingOK depends on nothing else.
LEMMA SameKept ==
  ASSUME NEW n \in Msgs, FilingOK(n), SameAt(n)
  PROVE  FilingOK(n)'
BY DEF FilingOK, SameAt, Scheduled, SentEvent

\* A step about message m keeps the invariant if it does so for m, and leaves
\* the other messages alone.
LEMMA StepAt ==
  ASSUME SendInv, NEW m \in Msgs, TypeOK', FilingOK(m)',
         \A n \in Msgs \ {m} : SameAt(n)
  PROVE  SendInv'
<1>1. \A n \in Msgs \ {m} : FilingOK(n)'
  BY SameKept DEF SendInv
<1>2. QED
  BY <1>1 DEF SendInv

\* A fault counted within its bound.
LEMMA OutcomeType ==
  ASSUME SendBounds, faults \in 0 .. MaxFaults, NEW o, Outcome(o)
  PROVE  faults' \in 0 .. MaxFaults
BY DEF Outcome, Fault, SendBounds

\* The initial state.
LEMMA InitInv == SendBounds /\ Init => SendInv
<1> SUFFICES ASSUME SendBounds, Init PROVE SendInv
  OBVIOUS
<1>1. NoCall \in Call
  BY DEF NoCall, Call, Pc, Kinds
<1>2. TypeOK
  BY <1>1 DEF Init, TypeOK, SendBounds
<1>3. \A m \in Msgs : FilingOK(m)
  BY DEF Init, FilingOK, NoCall
<1>4. QED
  BY <1>2, <1>3 DEF SendInv

\* The steps of a call that sends a message.
LEMMA SendStepInv ==
  ASSUME SendInv, SendBounds, NEW m \in Msgs, SendStep(m)
  PROVE  SendInv'
<1>1. TypeOK /\ FilingOK(m) /\ call[m] \in Call
  BY DEF SendInv, TypeOK
<1>2. ASSUME NEW o \in Outcomes, ResendDispatch(m, o) PROVE SendInv'
  <2>1. TypeOK'
    <3>1. call' \in [Msgs -> Call]
      BY <1>1, <1>2 DEF ResendDispatch, TypeOK, Call, Pc
    <3>2. faults' \in 0 .. MaxFaults
      BY <1>1, <1>2, OutcomeType DEF ResendDispatch, TypeOK
    <3>3. events' \subseteq Event
      BY <1>1, <1>2 DEF ResendDispatch, TypeOK, SentEvent, Event
    <3>4. mail' \in [Msgs -> {"none", "scheduled", "sent", "cancelled"}]
      BY <1>1, <1>2 DEF ResendDispatch, TypeOK
    <3>5. QED
      BY <1>1, <1>2, <3>1, <3>2, <3>3, <3>4 DEF ResendDispatch, TypeOK
  <2>2. FilingOK(m)'
    BY <1>1, <1>2 DEF ResendDispatch, FilingOK, TypeOK, Call, Scheduled, SentEvent
  <2>3. \A n \in Msgs \ {m} : SameAt(n)
    BY <1>1, <1>2 DEF ResendDispatch, SameAt, TypeOK, SentEvent
  <2>4. QED
    BY <2>1, <2>2, <2>3, StepAt
<1>3. ASSUME NEW o \in Outcomes, SmtpDispatch(m, o) PROVE SendInv'
  <2>1. copies[m] = 0
    BY <1>1, <1>3 DEF SmtpDispatch, FilingOK
  <2>2. TypeOK'
    <3>1. call' \in [Msgs -> Call]
      BY <1>1, <1>3 DEF SmtpDispatch, TypeOK, Call, Pc
    <3>2. faults' \in 0 .. MaxFaults
      BY <1>1, <1>3, OutcomeType DEF SmtpDispatch, TypeOK
    <3>3. copies' \in [Msgs -> 0 .. MaxCopies]
      BY <1>1, <1>3, <2>1 DEF SmtpDispatch, TypeOK, SendBounds
    <3>4. mail' \in [Msgs -> {"none", "scheduled", "sent", "cancelled"}]
      BY <1>1, <1>3 DEF SmtpDispatch, TypeOK
    <3>5. QED
      BY <1>1, <1>3, <3>1, <3>2, <3>3, <3>4 DEF SmtpDispatch, TypeOK
  <2>3. FilingOK(m)'
    BY <1>1, <1>3, <2>1
    DEF SmtpDispatch, FilingOK, TypeOK, Call, AutoSaves, Scheduled, SentEvent
  <2>4. \A n \in Msgs \ {m} : SameAt(n)
    BY <1>1, <1>3 DEF SmtpDispatch, SameAt, TypeOK
  <2>5. QED
    BY <2>2, <2>3, <2>4, StepAt
<1>4. CASE Built(m)
  <2>1. TypeOK'
    <3>1. call' \in [Msgs -> Call]
      BY <1>1, <1>4 DEF Built, TypeOK, Call, Pc
    <3>2. QED
      BY <1>1, <1>4, <3>1 DEF Built, TypeOK
  <2>2. FilingOK(m)'
    BY <1>1, <1>4 DEF Built, FilingOK, TypeOK, Call, AutoSaves, Scheduled, SentEvent
  <2>3. \A n \in Msgs \ {m} : SameAt(n)
    BY <1>1, <1>4 DEF Built, SameAt, TypeOK
  <2>4. QED
    BY <2>1, <2>2, <2>3, StepAt
<1>5. CASE BuildFails(m)
  <2>1. TypeOK'
    <3>1. call' \in [Msgs -> Call]
      BY <1>1, <1>5 DEF BuildFails, TypeOK, Call, Pc
    <3>2. QED
      BY <1>1, <1>5, <3>1 DEF BuildFails, Fault, TypeOK, SendBounds
  <2>2. FilingOK(m)'
    BY <1>1, <1>5 DEF BuildFails, FilingOK, TypeOK, Call, SentEvent
  <2>3. \A n \in Msgs \ {m} : SameAt(n)
    BY <1>1, <1>5 DEF BuildFails, SameAt, TypeOK
  <2>4. QED
    BY <2>1, <2>2, <2>3, StepAt
<1>6. ASSUME NEW o \in Outcomes, SaveToSent(m, o) PROVE SendInv'
  <2>1. copies[m] = 0
    BY <1>1, <1>6 DEF SaveToSent, FilingOK
  <2>2. TypeOK'
    <3>1. call' \in [Msgs -> Call]
      BY <1>1, <1>6 DEF SaveToSent, TypeOK, Call, Pc
    <3>2. faults' \in 0 .. MaxFaults
      BY <1>1, <1>6, OutcomeType DEF SaveToSent, AppendCopy, TypeOK
    <3>3. copies' \in [Msgs -> 0 .. MaxCopies]
      BY <1>1, <1>6, <2>1 DEF SaveToSent, AppendCopy, TypeOK, SendBounds
    <3>4. QED
      BY <1>1, <1>6, <3>1, <3>2, <3>3 DEF SaveToSent, TypeOK
  <2>3. FilingOK(m)'
    BY <1>1, <1>6, <2>1
    DEF SaveToSent, AppendCopy, FilingOK, TypeOK, Call, SentEvent
  <2>4. \A n \in Msgs \ {m} : SameAt(n)
    BY <1>1, <1>6 DEF SaveToSent, AppendCopy, SameAt, TypeOK
  <2>5. QED
    BY <2>2, <2>3, <2>4, StepAt
<1>7. QED
  BY <1>2, <1>3, <1>4, <1>5, <1>6 DEF SendStep

\* A call comes in.
LEMMA StartSendInv ==
  ASSUME SendInv, SendBounds, NEW m \in Msgs, NEW kind \in Kinds,
         NEW at \in BOOLEAN, StartSend(m, kind, at)
  PROVE  SendInv'
<1>1. TypeOK /\ FilingOK(m) /\ call[m].pc = "none"
  BY DEF SendInv, StartSend
<1>2. \E pc \in {"dispatching", "failed"} :
        call' = [call EXCEPT ![m] = [pc |-> pc, kind |-> kind, at |-> at, saved |-> FALSE]]
  BY DEF StartSend, NoCall
<1>3. TypeOK'
  <2>1. call' \in [Msgs -> Call]
    BY <1>1, <1>2 DEF TypeOK, Call, Pc
  <2>2. faults' \in 0 .. MaxFaults
    BY <1>1 DEF StartSend, Fault, TypeOK, SendBounds
  <2>3. QED
    BY <1>1, <2>1, <2>2 DEF StartSend, TypeOK
<1>4. FilingOK(m)'
  BY <1>1, <1>2 DEF StartSend, FilingOK, TypeOK, SentEvent
<1>5. \A n \in Msgs \ {m} : SameAt(n)
  BY <1>1, <1>2 DEF StartSend, SameAt, TypeOK
<1>6. QED
  BY <1>3, <1>4, <1>5, StepAt

\* Cancelling, the webhook and the provider.
LEMMA OtherStepInv ==
  ASSUME SendInv, SendBounds, NEW m \in Msgs,
         \/ CancelStep(m) \/ FilingStep(m)
         \/ StartCancel(m) \/ Release(m) \/ Bounce(m)
         \/ \E again \in BOOLEAN : WebhookSent(m, again) \/ WebhookBounced(m, again)
  PROVE  SendInv'
<1>1. TypeOK /\ FilingOK(m) /\ call[m] \in Call
  BY DEF SendInv, TypeOK
<1>2. ASSUME NEW o \in Outcomes, CancelAnswered(m, o) PROVE SendInv'
  <2>1. TypeOK'
    <3>1. faults' \in 0 .. MaxFaults
      BY <1>1, <1>2, OutcomeType DEF CancelAnswered, TypeOK
    <3>2. QED
      BY <1>1, <1>2, <3>1 DEF CancelAnswered, TypeOK
  <2>2. FilingOK(m)'
    BY <1>1, <1>2 DEF CancelAnswered, FilingOK, TypeOK, SentEvent, Call
  <2>3. \A n \in Msgs \ {m} : SameAt(n)
    BY <1>1, <1>2 DEF CancelAnswered, SameAt, TypeOK
  <2>4. QED
    BY <2>1, <2>2, <2>3, StepAt
<1>3. CASE CancelDone(m)
  BY <1>1, <1>3, StepAt DEF CancelDone, TypeOK, FilingOK, SameAt, SentEvent
<1>4. ASSUME NEW o \in Outcomes, FileCopy(m, o) PROVE SendInv'
  <2>1. copies[m] = 0 /\ m \notin held
    BY <1>1, <1>4 DEF FileCopy, FilingOK
  <2>2. TypeOK'
    <3>1. faults' \in 0 .. MaxFaults
      BY <1>1, <1>4, OutcomeType DEF FileCopy, AppendCopy, TypeOK
    <3>2. copies' \in [Msgs -> 0 .. MaxCopies]
      BY <1>1, <1>4, <2>1 DEF FileCopy, AppendCopy, TypeOK, SendBounds
    <3>3. QED
      BY <1>1, <1>4, <3>1, <3>2 DEF FileCopy, TypeOK
  <2>3. FilingOK(m)'
    BY <1>1, <1>4, <2>1 DEF FileCopy, AppendCopy, FilingOK, TypeOK, SentEvent, Call
  <2>4. \A n \in Msgs \ {m} : SameAt(n)
    BY <1>1, <1>4 DEF FileCopy, AppendCopy, SameAt, TypeOK
  <2>5. QED
    BY <2>2, <2>3, <2>4, StepAt
<1>5. CASE StartCancel(m)
  BY <1>1, <1>5, StepAt DEF StartCancel, TypeOK, FilingOK, SameAt, SentEvent
<1>6. CASE Release(m)
  <2>1. TypeOK'
    BY <1>1, <1>6 DEF Release, TypeOK, SentEvent, Event
  <2>2. FilingOK(m)'
    BY <1>1, <1>6 DEF Release, FilingOK, TypeOK, SentEvent, Call
  <2>3. \A n \in Msgs \ {m} : SameAt(n)
    BY <1>1, <1>6 DEF Release, SameAt, TypeOK, SentEvent
  <2>4. QED
    BY <2>1, <2>2, <2>3, StepAt
<1>7. CASE Bounce(m)
  <2>1. TypeOK'
    BY <1>1, <1>7 DEF Bounce, TypeOK, Event
  <2>2. FilingOK(m)' /\ \A n \in Msgs \ {m} : SameAt(n)
    BY <1>1, <1>7 DEF Bounce, FilingOK, SameAt, SentEvent
  <2>3. QED
    BY <2>1, <2>2, StepAt
<1>8. ASSUME NEW again \in BOOLEAN, WebhookSent(m, again) PROVE SendInv'
  <2>1. TypeOK'
    BY <1>1, <1>8 DEF WebhookSent, Delivered, TypeOK
  <2>2. mail[m] = "sent"
    BY <1>1, <1>8 DEF WebhookSent, Delivered, FilingOK
  <2>3. FilingOK(m)'
    BY <1>1, <1>8, <2>2 DEF WebhookSent, Delivered, FilingOK, SentEvent
  <2>4. \A n \in Msgs \ {m} : SameAt(n)
    BY <1>8 DEF WebhookSent, Delivered, SameAt
  <2>5. QED
    BY <2>1, <2>3, <2>4, StepAt
<1>9. ASSUME NEW again \in BOOLEAN, WebhookBounced(m, again) PROVE SendInv'
  <2>1. TypeOK'
    BY <1>1, <1>9 DEF WebhookBounced, Delivered, TypeOK
  <2>2. FilingOK(m)' /\ \A n \in Msgs \ {m} : SameAt(n)
    BY <1>1, <1>9 DEF WebhookBounced, Delivered, FilingOK, SameAt, SentEvent
  <2>3. QED
    BY <2>1, <2>2, StepAt
<1>10. QED
  BY <1>2, <1>3, <1>4, <1>5, <1>6, <1>7, <1>8, <1>9 DEF CancelStep, FilingStep

\* Every step keeps the invariant.
LEMMA NextInv ==
  ASSUME SendInv, SendBounds, [Next]_vars
  PROVE  SendInv'
<1>1. CASE Restart
  <2>1. TypeOK /\ \A m \in Msgs : FilingOK(m) /\ call[m] \in Call
    BY DEF SendInv, TypeOK
  <2>2. \A m \in Msgs : \/ call'[m] = call[m] /\ call[m].pc \in {"none", "done"}
                        \/ call'[m] = [call[m] EXCEPT !.pc = "failed"]
    BY <1>1 DEF Restart
  <2>3. \A m \in Msgs : call'[m] \in Call /\ call'[m].saved = call[m].saved
                        /\ (call'[m].pc = "none" => call[m].pc = "none")
                        /\ call'[m].pc \in {"none", "done", "failed"}
    BY <2>1, <2>2 DEF Call, Pc
  <2>4. TypeOK'
    <3>1. call' \in [Msgs -> Call]
      BY <1>1, <2>3 DEF Restart
    <3>2. QED
      BY <1>1, <2>1, <3>1 DEF Restart, TypeOK, SendBounds
  <2>5. \A m \in Msgs : FilingOK(m)'
    BY <1>1, <2>1, <2>3 DEF Restart, FilingOK, SentEvent
  <2>6. QED
    BY <2>4, <2>5 DEF SendInv
<1>2. CASE UNCHANGED vars
  BY <1>2 DEF vars, SendInv, TypeOK, FilingOK, SentEvent
<1>3. QED
  BY <1>1, <1>2, StartSendInv, SendStepInv, OtherStepInv DEF Next

\* Every variable has its type, and at most one actor may still file a message.
THEOREM SendCorrect == Spec => []SendInv
<1>1. Init => SendInv
  BY InitInv, SendBounds
<1>2. SendInv /\ [Next]_vars => SendInv'
  BY NextInv, SendBounds
<1>3. QED
  BY <1>1, <1>2, PTL DEF Spec

\* An answer that says saved_to_sent tells the truth: saveToSent answers true only
\* after its append, and nothing files the message again.
THEOREM SavedTruth == Spec => []SavedIsFiled
<1>1. SendInv => SavedIsFiled
  BY DEF SendInv, FilingOK, SavedIsFiled
<1>2. QED
  BY <1>1, SendCorrect, PTL

\* Every variable of the send tool keeps its type.
THEOREM SendTypes == Spec => []TypeOK
<1>1. SendInv => TypeOK
  BY DEF SendInv
<1>2. QED
  BY <1>1, SendCorrect, PTL

-----------------------------------------------------------------------------
(* Refinement: every step is a step of SentLedger or leaves it unchanged.    *)

\* What an append does to the copies, when the message has been sent and has none.
LEMMA AppendFiles ==
  ASSUME NEW m \in Msgs, NEW o, AppendCopy(m, o), copies \in [Msgs -> 0 .. MaxCopies],
         SendBounds, mail[m] = "sent", copies[m] = 0, UNCHANGED mail
  PROVE  Ledger!File(m) \/ UNCHANGED <<mail, copies>>
BY DEF AppendCopy, Ledger!File

\* One step, in terms of SentLedger.
LEMMA StepRefines ==
  ASSUME SendInv, SendBounds, [Next]_vars
  PROVE  [Ledger!Next]_<<mail, copies>>
<1> USE DEF SendInv, TypeOK
<1>1. ASSUME UNCHANGED <<mail, copies>> PROVE [Ledger!Next]_<<mail, copies>>
  BY <1>1
<1>2. ASSUME NEW m \in Msgs, NEW o \in Outcomes, ResendDispatch(m, o)
      PROVE  [Ledger!Next]_<<mail, copies>>
  <2>1. mail[m] = "none"
    BY <1>2 DEF ResendDispatch, FilingOK
  <2>2. Ledger!Schedule(m) \/ Ledger!Deliver(m) \/ UNCHANGED <<mail, copies>>
    BY <1>2, <2>1 DEF ResendDispatch, Ledger!Schedule, Ledger!Deliver
  <2>3. QED
    BY <2>2 DEF Ledger!Next
<1>3. ASSUME NEW m \in Msgs, NEW o \in Outcomes, SmtpDispatch(m, o)
      PROVE  [Ledger!Next]_<<mail, copies>>
  <2>1. mail[m] = "none" /\ copies[m] = 0
    BY <1>3 DEF SmtpDispatch, FilingOK
  <2>2. Ledger!DeliverFiled(m) \/ Ledger!Deliver(m) \/ UNCHANGED <<mail, copies>>
    BY <1>3, <2>1 DEF SmtpDispatch, Ledger!DeliverFiled, Ledger!Deliver
  <2>3. QED
    BY <2>2 DEF Ledger!Next
<1>4. ASSUME NEW m \in Msgs, NEW o \in Outcomes, SaveToSent(m, o)
      PROVE  [Ledger!Next]_<<mail, copies>>
  <2>1. mail[m] = "sent" /\ copies[m] = 0
    BY <1>4 DEF SaveToSent, FilingOK
  <2>2. QED
    BY <1>4, <2>1, AppendFiles DEF SaveToSent, Ledger!Next
<1>5. ASSUME NEW m \in Msgs, FilingStep(m)
      PROVE  [Ledger!Next]_<<mail, copies>>
  <2>1. PICK o \in Outcomes : FileCopy(m, o)
    BY <1>5 DEF FilingStep
  <2>2. mail[m] = "sent" /\ copies[m] = 0
    BY <2>1 DEF FileCopy, FilingOK
  <2>3. QED
    BY <2>1, <2>2, AppendFiles DEF FileCopy, Ledger!Next
<1>6. ASSUME NEW m \in Msgs, NEW o \in Outcomes, CancelAnswered(m, o)
      PROVE  [Ledger!Next]_<<mail, copies>>
  <2>1. Ledger!Cancel(m) \/ UNCHANGED <<mail, copies>>
    BY <1>6 DEF CancelAnswered, Ledger!Cancel
  <2>2. QED
    BY <2>1 DEF Ledger!Next
<1>7. ASSUME NEW m \in Msgs, Release(m)
      PROVE  [Ledger!Next]_<<mail, copies>>
  <2>1. Ledger!Deliver(m)
    BY <1>7 DEF Release, Ledger!Deliver
  <2>2. QED
    BY <2>1 DEF Ledger!Next
<1>8. ASSUME NEW m \in Msgs,
             \/ Built(m) \/ BuildFails(m) \/ CancelDone(m) \/ StartCancel(m)
             \/ Bounce(m)
             \/ \E kind \in Kinds, at \in BOOLEAN : StartSend(m, kind, at)
             \/ \E again \in BOOLEAN : WebhookSent(m, again) \/ WebhookBounced(m, again)
      PROVE  UNCHANGED <<mail, copies>>
  BY <1>8 DEF Built, BuildFails, CancelDone, StartCancel, Bounce, StartSend,
              WebhookSent, WebhookBounced
<1>9. Restart \/ UNCHANGED vars => UNCHANGED <<mail, copies>>
  BY DEF Restart, vars
<1>10. QED
  BY <1>1, <1>2, <1>3, <1>4, <1>5, <1>6, <1>7, <1>8, <1>9 DEF Next, SendStep, CancelStep

\* The send tool implements SentLedger: the Sent folder holds at most one copy of a
\* message, and none before it was sent, for any number of messages, faults and
\* restarts.
THEOREM Filed == Spec => FiledOnceAfterSending
<1>1. Init => Ledger!Init
  BY DEF Init, Ledger!Init
<1>2. SendInv /\ [Next]_vars => [Ledger!Next]_(Ledger!vars)
  BY StepRefines, SendBounds DEF Ledger!vars
<1>3. QED
  BY <1>1, <1>2, SendCorrect, PTL DEF Spec, FiledOnceAfterSending, Ledger!Spec

=============================================================================
