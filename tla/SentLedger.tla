----------------------------- MODULE SentLedger -----------------------------
(***************************************************************************)
(* What the send tool promises of the Sent folder, whatever the transport: *)
(* a message is filed there at most once, and only after it has been sent; *)
(* a scheduled message may be cancelled before it is sent, and is then     *)
(* never filed.  (That every sent message is filed is not promised: filing *)
(* is best effort.)                                                        *)
(***************************************************************************)
EXTENDS Naturals

CONSTANT Msgs

VARIABLES
  mail,    \* what has become of a message
  copies   \* its copies in the Sent folder of the sender

vars == <<mail, copies>>

Init ==
  /\ mail = [m \in Msgs |-> "none"]
  /\ copies = [m \in Msgs |-> 0]

Schedule(m) ==
  /\ mail[m] = "none"
  /\ mail' = [mail EXCEPT ![m] = "scheduled"]
  /\ UNCHANGED copies

\* At once, or when its time has come.
Deliver(m) ==
  /\ mail[m] \in {"none", "scheduled"}
  /\ mail' = [mail EXCEPT ![m] = "sent"]
  /\ UNCHANGED copies

\* The provider files the message itself as it sends it.
DeliverFiled(m) ==
  /\ mail[m] = "none"
  /\ mail' = [mail EXCEPT ![m] = "sent"]
  /\ copies[m] = 0
  /\ copies' = [copies EXCEPT ![m] = 1]

Cancel(m) ==
  /\ mail[m] = "scheduled"
  /\ mail' = [mail EXCEPT ![m] = "cancelled"]
  /\ UNCHANGED copies

File(m) ==
  /\ mail[m] = "sent"
  /\ copies[m] = 0
  /\ copies' = [copies EXCEPT ![m] = 1]
  /\ UNCHANGED mail

Next ==
  \E m \in Msgs :
    Schedule(m) \/ Deliver(m) \/ DeliverFiled(m) \/ Cancel(m) \/ File(m)

Spec == Init /\ [][Next]_vars
=============================================================================
