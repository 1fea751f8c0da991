----------------------- MODULE CredentialLifecycleMC -----------------------
(* Instances of CredentialLifecycle for TLC. *)
EXTENDS CredentialLifecycle, TLC

CONSTANTS s1, s2, imap, outlook

\* The Outlook mailbox is of an extra domain: typed with its servers it is read, and
\* its email:oauth2 entry is not.
MCParse == "imap" :> imap @@ "outlook:host" :> outlook @@ "outlook:oauth2" :> None
MCOAuth2 == outlook :> "outlook:oauth2"
MCDeployments == {{}, {"imap"}}
MCForms == {{"imap"}, {"outlook:host"}, {"outlook:oauth2"}}

\* One subject has the password of the first mailbox; the other types it without, and
\* the Outlook mailbox as well.
MCOwn == s1 :> {imap} @@ s2 :> {}
MCTyped == s1 :> {imap} @@ s2 :> {imap, outlook}

\* Sessions and calls are interchangeable.
Symmetry == Permutations(Sessions) \cup Permutations(Calls)

\* Arrays are told apart by what refers to them, whatever their identities.
Holders == {None} \cup Subs \cup Sessions

Held(h) == IF h = None THEN current ELSE IF h \in Subs THEN cached[h] ELSE session[h].array

View == <<setting, state, env, disk, call,
          [x \in Sessions |-> <<session[x].sub, session[x].forgot>>],
          [h \in Holders |-> IF Held(h) = 0 THEN <<{}, {}>>
             ELSE <<content[Held(h)], CHOOSE g \in Holders : Held(g) = Held(h)>>]>>
=============================================================================
