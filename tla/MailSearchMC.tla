---------------------------- MODULE MailSearchMC ----------------------------
(* An instance of MailSearch for TLC. *)
EXTENDS MailSearch, TLC

CONSTANTS big, small

\* One mailbox takes two windows, the other is there to fail or to be harmed.
AccountsMC == {big, small}
MaxUidMC == (big :> 4) @@ (small :> 1)
=============================================================================
