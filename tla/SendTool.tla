------------------------------ MODULE SendTool ------------------------------
(***************************************************************************)
(* The send tool (src/src/tools/composite/send.ts) over its two transports,*)
(* SMTP (helpers/smtp-client.ts) and the Resend API (resend-client.ts),    *)
(* the copy it files in the Sent folder, and the Resend webhook that files *)
(* the copy of a scheduled message (resend-webhook.ts).                    *)
(*                                                                         *)
(* A message is identified with the one call that sends it: a repeated call*)
(* is another message.  An immediate message counts as sent when the       *)
(* provider has accepted it.  Steps run from one await on I/O to the next. *)
(***************************************************************************)
EXTENDS Naturals, FiniteSets

CONSTANTS Msgs,
          SelfFiling,   \* those of accounts whose SMTP host files what it sends
          MaxFaults,    \* bound on requests that fail or whose answer is lost
          MaxRestarts,  \* bound on restarts of the server
          MaxCopies     \* bound on copies counted

ASSUME SendBounds ==
  /\ SelfFiling \subseteq Msgs
  /\ MaxFaults \in Nat
  /\ MaxRestarts \in Nat
  /\ MaxCopies \in Nat /\ MaxCopies >= 1

VARIABLES
  transport,  \* the deployment-wide switch RESEND_API_KEY
  call,       \* the call that sends each message
  held,       \* keys of pendingSentAppends, lost at a restart
  filing,     \* messages whose webhook handler is appending to the Sent folder
  cancel,     \* cancel_scheduled calls
  mail,       \* what the provider has done with a message
  events,     \* webhook events Svix has yet to see acknowledged
  bounced,    \* messages that have bounced
  copies,     \* copies of a message in the Sent folder
  faults, restarts

vars == <<transport, call, held, filing, cancel, mail, events, bounced,
          copies, faults, restarts>>

\* An answer is a reply or a forward.
Kinds == {"new", "answer"}
Pc == {"none", "dispatching", "building", "saving", "done", "failed"}

\* at: the call carried scheduled_at; saved: saved_to_sent in its result.
Call == [pc : Pc, kind : Kinds, at : BOOLEAN, saved : BOOLEAN]
NoCall == [pc |-> "none", kind |-> "new", at |-> FALSE, saved |-> FALSE]
Event == [msg : Msgs, type : {"sent", "bounced"}]

\* Every variable has its type.
TypeOK ==
  /\ transport \in {"smtp", "resend"}
  /\ call \in [Msgs -> Call]
  /\ held \subseteq Msgs
  /\ filing \subseteq Msgs
  /\ cancel \in [Msgs -> {"idle", "asking", "granted"}]
  /\ mail \in [Msgs -> {"none", "scheduled", "sent", "cancelled"}]
  /\ events \subseteq Event
  /\ bounced \subseteq Msgs
  /\ copies \in [Msgs -> 0 .. MaxCopies]
  /\ faults \in 0 .. MaxFaults
  /\ restarts \in 0 .. MaxRestarts

Init ==
  /\ transport \in {"smtp", "resend"}
  /\ call = [m \in Msgs |-> NoCall]
  /\ held = {}
  /\ filing = {}
  /\ cancel = [m \in Msgs |-> "idle"]
  /\ mail = [m \in Msgs |-> "none"]
  /\ events = {}
  /\ bounced = {}
  /\ copies = [m \in Msgs |-> 0]
  /\ faults = 0
  /\ restarts = 0

Fault ==
  /\ faults < MaxFaults
  /\ faults' = faults + 1

\* The outcome of a request to a mail provider: it was carried out and answered,
\* or carried out and the answer lost, or it failed.
Outcomes == {"ok", "unanswered", "failed"}
Outcome(o) == IF o = "ok" THEN UNCHANGED faults ELSE Fault

SentEvent(m) == [msg |-> m, type |-> "sent"]

-----------------------------------------------------------------------------
(* Sending. *)

\* Only handleNew hands scheduled_at to the transport.
Scheduled(c) == c.at /\ c.kind = "new"

\* autoSavesToSent: the provider of the account files what passes through its
\* own SMTP server.
AutoSaves(m) == transport = "smtp" /\ m \in SelfFiling

\* A call comes in.  assertSchedulingSupported refuses a schedule over SMTP; a
\* reply or a forward first reads the original message, which may fail.
StartSend(m, kind, at) ==
  LET c == [NoCall EXCEPT !.kind = kind, !.at = at] IN
  /\ call[m].pc = "none"
  /\ \/ /\ ~(Scheduled(c) /\ transport = "smtp")
        /\ call' = [call EXCEPT ![m] = [c EXCEPT !.pc = "dispatching"]]
        /\ UNCHANGED faults
     \/ /\ Scheduled(c) /\ transport = "smtp"
        /\ call' = [call EXCEPT ![m] = [c EXCEPT !.pc = "failed"]]
        /\ UNCHANGED faults
     \/ /\ kind = "answer"
        /\ call' = [call EXCEPT ![m] = [c EXCEPT !.pc = "failed"]]
        /\ Fault
  /\ UNCHANGED <<transport, held, filing, cancel, mail, events, bounced, copies,
                 restarts>>

\* sendViaResend: the API takes the message; its webhook tells when it was sent.
ResendDispatch(m, o) ==
  /\ transport = "resend"
  /\ call[m].pc = "dispatching"
  /\ Outcome(o)
  /\ call' = [call EXCEPT ![m].pc = IF o = "ok" THEN "building" ELSE "failed"]
  /\ \/ /\ o = "failed"
        /\ UNCHANGED <<mail, events>>
     \/ /\ o # "failed"
        /\ Scheduled(call[m])
        /\ mail' = [mail EXCEPT ![m] = "scheduled"]
        /\ UNCHANGED events
     \/ /\ o # "failed"
        /\ ~Scheduled(call[m])
        /\ mail' = [mail EXCEPT ![m] = "sent"]
        /\ events' = events \cup {SentEvent(m)}
  /\ UNCHANGED <<transport, held, filing, cancel, bounced, copies, restarts>>

\* sendRawMessage: over SMTP the message goes out at once, and some providers
\* file it.  saveToSent leaves those alone.
SmtpDispatch(m, o) ==
  /\ transport = "smtp"
  /\ call[m].pc = "dispatching"
  /\ Outcome(o)
  /\ call' = [call EXCEPT ![m].pc = IF o # "ok" THEN "failed"
                                    ELSE IF AutoSaves(m) THEN "done"
                                    ELSE "saving"]
  /\ IF o = "failed"
       THEN UNCHANGED <<mail, copies>>
       ELSE /\ mail' = [mail EXCEPT ![m] = "sent"]
            /\ copies' = IF m \in SelfFiling THEN [copies EXCEPT ![m] = @ + 1] ELSE copies
  /\ UNCHANGED <<transport, held, filing, cancel, events, bounced, restarts>>

\* buildRawForSentFolder has built the bytes to file: those of a scheduled message
\* are held for the webhook, others are saved now.
Built(m) ==
  /\ call[m].pc = "building"
  /\ IF Scheduled(call[m])
       THEN /\ held' = IF AutoSaves(m) THEN held ELSE held \cup {m}
            /\ call' = [call EXCEPT ![m].pc = "done"]
       ELSE /\ call' = [call EXCEPT ![m].pc =
                          IF AutoSaves(m) THEN "done" ELSE "saving"]
            /\ UNCHANGED held
  /\ UNCHANGED <<transport, filing, cancel, mail, events, bounced, copies,
                 faults, restarts>>

\* The bytes cannot be built: the call fails though Resend has the message.
BuildFails(m) ==
  /\ call[m].pc = "building"
  /\ Fault
  /\ call' = [call EXCEPT ![m].pc = "failed"]
  /\ UNCHANGED <<transport, held, filing, cancel, mail, events, bounced, copies,
                 restarts>>

\* An append to the Sent folder (resolveSentFolder, appendToFolder).
AppendCopy(m, o) ==
  /\ Outcome(o)
  /\ o # "failed" => copies[m] < MaxCopies
  /\ copies' = IF o = "failed" THEN copies ELSE [copies EXCEPT ![m] = @ + 1]

\* Mutant: the catch of saveToSent answers true.
SaveToSentClaims(m, o) ==
  /\ call[m].pc = "saving"
  /\ AppendCopy(m, o)
  /\ call' = [call EXCEPT ![m].pc = "done", ![m].saved = TRUE]
  /\ UNCHANGED <<transport, held, filing, cancel, mail, events, bounced, restarts>>

\* saveToSent: its failure is silent.
SaveToSent(m, o) ==
  /\ call[m].pc = "saving"
  /\ AppendCopy(m, o)
  /\ call' = [call EXCEPT ![m].pc = "done", ![m].saved = (o = "ok")]
  /\ UNCHANGED <<transport, held, filing, cancel, mail, events, bounced, restarts>>

-----------------------------------------------------------------------------
(* Cancelling. *)

\* Mutant: the held entry is dropped before Resend is asked.
StartCancelTakes(m) ==
  /\ call[m].pc = "done"
  /\ transport = "resend"
  /\ cancel[m] = "idle"
  /\ cancel' = [cancel EXCEPT ![m] = "asking"]
  /\ held' = held \ {m}
  /\ UNCHANGED <<transport, call, filing, mail, events, bounced, copies,
                 faults, restarts>>

\* cancel_scheduled names a message_id that an earlier call returned.
StartCancel(m) ==
  /\ call[m].pc = "done"
  /\ transport = "resend"
  /\ cancel[m] = "idle"
  /\ cancel' = [cancel EXCEPT ![m] = "asking"]
  /\ UNCHANGED <<transport, call, held, filing, mail, events, bounced, copies,
                 faults, restarts>>

\* Mutant: the call takes over the status Resend reports of the message.
CancelAnsweredEchoes(m, o) ==
  /\ cancel[m] = "asking"
  /\ Outcome(o)
  /\ mail' = IF mail[m] = "scheduled" /\ o # "failed"
               THEN [mail EXCEPT ![m] = "cancelled"] ELSE mail
  /\ cancel' = [cancel EXCEPT ![m] = IF o = "ok" THEN mail'[m] ELSE "idle"]
  /\ UNCHANGED <<transport, call, held, filing, events, bounced, copies, restarts>>

\* Resend cancels what it has not sent; its answer may be lost.
CancelAnswered(m, o) ==
  /\ cancel[m] = "asking"
  /\ Outcome(o)
  /\ LET granted == mail[m] = "scheduled" /\ o # "failed" IN
     /\ mail' = IF granted THEN [mail EXCEPT ![m] = "cancelled"] ELSE mail
     /\ cancel' = [cancel EXCEPT ![m] = IF granted /\ o = "ok" THEN "granted"
                                                               ELSE "idle"]
  /\ UNCHANGED <<transport, call, held, filing, events, bounced, copies, restarts>>

\* Mutant: handleCancelScheduled leaves the entry to the webhook.
CancelDoneKeeps(m) ==
  /\ cancel[m] = "granted"
  /\ cancel' = [cancel EXCEPT ![m] = "idle"]
  /\ UNCHANGED <<transport, call, held, filing, mail, events, bounced, copies,
                 faults, restarts>>

\* takePendingSentAppend after the API call.
CancelDone(m) ==
  /\ cancel[m] = "granted"
  /\ held' = held \ {m}
  /\ cancel' = [cancel EXCEPT ![m] = "idle"]
  /\ UNCHANGED <<transport, call, filing, mail, events, bounced, copies,
                 faults, restarts>>

-----------------------------------------------------------------------------
(* The webhook. *)

\* Svix delivers an event until it sees an acknowledgement, and perhaps again.
Delivered(e, again) ==
  /\ e \in events
  /\ events' = IF again THEN events ELSE events \ {e}

\* Mutant: the entry is read without being deleted.
WebhookSentPeeks(m, again) ==
  /\ Delivered(SentEvent(m), again)
  /\ filing' = IF m \in held THEN filing \cup {m} ELSE filing
  /\ UNCHANGED <<transport, call, held, cancel, mail, bounced, copies, faults,
                 restarts>>

\* email.sent: takePendingSentAppend, then the append.
WebhookSent(m, again) ==
  /\ Delivered(SentEvent(m), again)
  /\ filing' = IF m \in held THEN filing \cup {m} ELSE filing
  /\ held' = held \ {m}
  /\ UNCHANGED <<transport, call, cancel, mail, bounced, copies, faults, restarts>>

\* email.bounced, email.complained: the entry is dropped.
WebhookBounced(m, again) ==
  /\ Delivered([msg |-> m, type |-> "bounced"], again)
  /\ held' = held \ {m}
  /\ UNCHANGED <<transport, call, filing, cancel, mail, bounced, copies, faults,
                 restarts>>

FileCopy(m, o) ==
  /\ m \in filing
  /\ AppendCopy(m, o)
  /\ filing' = filing \ {m}
  /\ UNCHANGED <<transport, call, held, cancel, mail, events, bounced, restarts>>

-----------------------------------------------------------------------------
(* Resend, and the server's process. *)

\* The scheduled time has come.
Release(m) ==
  /\ mail[m] = "scheduled"
  /\ mail' = [mail EXCEPT ![m] = "sent"]
  /\ events' = events \cup {SentEvent(m)}
  /\ UNCHANGED <<transport, call, held, filing, cancel, bounced, copies, faults,
                 restarts>>

Bounce(m) ==
  /\ transport = "resend"
  /\ mail[m] = "sent"
  /\ m \notin bounced
  /\ bounced' = bounced \cup {m}
  /\ events' = events \cup {[msg |-> m, type |-> "bounced"]}
  /\ UNCHANGED <<transport, call, held, filing, cancel, mail, copies, faults,
                 restarts>>

\* Calls in flight are lost with the process, and so is pendingSentAppends.
Restart ==
  /\ restarts < MaxRestarts
  /\ restarts' = restarts + 1
  /\ call' = [m \in Msgs |-> IF call[m].pc \in {"none", "done"} THEN call[m]
                             ELSE [call[m] EXCEPT !.pc = "failed"]]
  /\ held' = {}
  /\ filing' = {}
  /\ cancel' = [m \in Msgs |-> "idle"]
  /\ UNCHANGED <<transport, mail, events, bounced, copies, faults>>

-----------------------------------------------------------------------------

SendStep(m) ==
  \/ \E o \in Outcomes : ResendDispatch(m, o)
  \/ \E o \in Outcomes : SmtpDispatch(m, o)
  \/ Built(m)
  \/ BuildFails(m)
  \/ \E o \in Outcomes : SaveToSent(m, o)

CancelStep(m) ==
  \/ \E o \in Outcomes : CancelAnswered(m, o)
  \/ CancelDone(m)

FilingStep(m) == \E o \in Outcomes : FileCopy(m, o)

Next ==
  \/ \E m \in Msgs, kind \in Kinds, at \in BOOLEAN : StartSend(m, kind, at)
  \/ \E m \in Msgs : SendStep(m) \/ CancelStep(m) \/ FilingStep(m)
  \/ \E m \in Msgs : StartCancel(m) \/ Release(m) \/ Bounce(m)
  \/ \E m \in Msgs, again \in BOOLEAN : WebhookSent(m, again)
  \/ \E m \in Msgs, again \in BOOLEAN : WebhookBounced(m, again)
  \/ Restart

Spec == Init /\ [][Next]_vars

\* Requests are answered or fail, and Svix retries until an event is acknowledged.
Fairness ==
  \A m \in Msgs :
    /\ WF_vars(SendStep(m))
    /\ WF_vars(CancelStep(m))
    /\ WF_vars(FilingStep(m))
    /\ WF_vars(WebhookSent(m, FALSE))
    /\ WF_vars(WebhookBounced(m, FALSE))

FairSpec == Spec /\ Fairness

-----------------------------------------------------------------------------
(* Properties that hold. *)

Ledger == INSTANCE SentLedger

\* The Sent folder holds at most one copy of a message, and none of a message that
\* was not sent or was cancelled: over both transports, with providers that file
\* by themselves, repeated and reordered webhooks, a cancel that races the send,
\* lost answers and restarts (takePendingSentAppend deletes on read).
FiledOnceAfterSending == Ledger!Spec

\* The bytes held for a scheduled message are filed once Resend has sent it, if
\* its webhook is yet to come: a cancel that comes too late leaves them.  (Not if
\* the message bounced, a request failed or the server was restarted meanwhile.)
HeldCopyLands ==
  \A m \in Msgs :
    (m \in held /\ SentEvent(m) \in events)
      ~> (copies[m] = 1 \/ m \in bounced \/ faults > 0 \/ restarts > 0)

\* "otherwise it sits in memory forever" (handleCancelScheduled): the bytes held
\* for a cancelled message are released, if no answer of Resend was lost.
CancelReleases ==
  \A m \in Msgs :
    (m \in held /\ mail[m] = "cancelled") ~> (m \notin held \/ faults > 0)

\* An answer that says saved_to_sent is true, and the Sent folder holds the copy
\* that the server itself made.
SavedIsFiled == \A m \in Msgs : call[m].saved => copies[m] = 1 /\ mail[m] = "sent"

-----------------------------------------------------------------------------
(* A property the comments state and the code breaks. *)

\* "Reject early with a clear error rather than silently sending immediately,
\* since that's the one behavior a caller relying on scheduling must never get
\* without noticing" (assertSchedulingSupported): a call with scheduled_at never
\* sends its message at once.
NeverSentAtOnce ==
  [][\A m \in Msgs : call[m].at /\ mail[m] = "none" => mail'[m] # "sent"]_vars

=============================================================================
