-------------------------- MODULE TokenFile_proofs --------------------------
(***************************************************************************)
(* Theorems about TokenFile, for any mailboxes, tokens, calls and bounds.  *)
(***************************************************************************)
EXTENDS TokenFile, TLAPS

-----------------------------------------------------------------------------
(* The inductive invariant. *)

\* A mailbox's tokens that have left the answer they came in.
Known(e) ==
  {t \in Tokens : /\ holder[t] = e
                  /\ \A k \in Calls : call[k].pc = "answered" => call[k].tok # t}
    \cup {None}

Live(e) == {t \in Tokens : Alive(e, t)} \cup {None}

\* A token stands under the mailbox it was issued for, wherever it is kept.
KnownCopies(e) ==
  /\ acct[e] \in Known(e)
  /\ Entry(mem, e) \in Known(e)
  /\ Entry(file, e) \in Known(e)
  /\ \A k \in Calls : Entry(call[k].read, e) \in Known(e)

\* An account that is being refreshed has a token, and the token of an answer is
\* accepted, for nothing else knows it yet.
CallTokens(k, e) ==
  call[k].email = e =>
    /\ call[k].pc \in {"refreshing", "answered"} => acct[e] # None
    /\ call[k].pc = "refreshing" => call[k].tok \in Known(e)
    /\ call[k].pc = "answered" /\ call[k].tok # None =>
         /\ call[k].tok \in accepted
         /\ holder[call[k].tok] = e
         /\ \A j \in Calls :
              j # k /\ call[j].pc = "answered" => call[j].tok # call[k].tok

\* Every copy of a token is alive, but for what a load has read: it may be dead by the
\* time the load resumes, and then differs from the copy that is still kept.
LiveCopies(e) ==
  /\ acct[e] \in Live(e)
  /\ Entry(mem, e) \in Live(e)
  /\ Entry(file, e) \in Live(e)

\* A mailbox in the file is in the cache too, if there is one, with the exceptions of
\* OnlyLogoutForgets.
SeenCopies(e) ==
  Entry(file, e) # None =>
    mem = None \/ Entry(mem, e) # None \/ e \in unseen \cup overtaken

FileInv ==
  /\ TypeOK
  /\ \A e \in Emails : KnownCopies(e) /\ LiveCopies(e) /\ SeenCopies(e)
  /\ \A e \in Emails, k \in Calls : CallTokens(k, e)

-----------------------------------------------------------------------------

\* What the constants' assumption says of an entry.
LEMMA EntryType ==
  ASSUME NEW s \in Store \cup {None}, NEW e \in Emails
  PROVE  /\ Entry(s, e) \in Token
         /\ s = None => Entry(s, e) = None
         /\ s # None => Entry(s, e) = s[e] /\ s \in Store
BY FileBounds DEF Entry, Store, Token

LEMMA NoTokensType ==
  NoTokens \in Store /\ NoTokens # None /\ \A e \in Emails : NoTokens[e] = None
BY FileBounds DEF NoTokens, Store, Token

LEMMA IdleType ==
  Idle \in Call /\ Idle.pc = "idle" /\ Idle.tok = None /\ Idle.read = None
BY FileBounds DEF Idle, Call, Pc, Token

\* The initial state.
LEMMA InitInv == Init => FileInv
<1> SUFFICES ASSUME Init PROVE FileInv
  OBVIOUS
<1>1. TypeOK
  <2>1. faults \in 0 .. MaxFaults
    BY FileBounds DEF Init
  <2>2. call \in [Calls -> Call] /\ \A k \in Calls : call[k].pc = "idle"
    BY IdleType DEF Init
  <2>3. holder \in [Tokens -> Emails \cup {None}]
    BY DEF Init
  <2>4. QED
    BY <2>1, <2>2, <2>3, NoTokensType DEF Init, TypeOK
<1>2. ASSUME NEW e \in Emails PROVE KnownCopies(e) /\ LiveCopies(e) /\ SeenCopies(e)
  BY NoTokensType, IdleType DEF Init, KnownCopies, LiveCopies, SeenCopies, Entry, Known, Live
<1>3. \A e \in Emails, k \in Calls : CallTokens(k, e)
  BY IdleType DEF Init, CallTokens
<1>4. QED
  BY <1>1, <1>2, <1>3 DEF FileInv

\* A token stays known: an answer's token is newly issued.
LEMMA KnownKept ==
  ASSUME NEW e \in Emails,
         \A t \in Tokens : holder[t] = e => holder'[t] = e,
         \A k \in Calls : call'[k].pc = "answered" =>
           \/ call[k].pc = "answered" /\ call'[k].tok = call[k].tok
           \/ call'[k].tok = None
           \/ holder[call'[k].tok] = None
  PROVE  Known(e) \subseteq Known(e)'
BY FileBounds DEF Known

\* A token stays alive while Microsoft keeps it and no answer for its mailbox is
\* dropped, unless that is recorded.
LEMMA LiveKept ==
  ASSUME NEW e \in Emails, accepted \subseteq accepted', lost \subseteq lost',
         overtaken \subseteq overtaken',
         \A k \in Calls : call[k].pc = "answered" /\ call[k].email = e =>
           \/ call'[k] = call[k]
           \/ call[k].tok \notin accepted
           \/ e \in lost'
  PROVE  Live(e) \subseteq Live(e)'
BY DEF Live, Alive

\* A step of a call that touches no store: it neither reads the file nor drops an
\* answer that is not recorded.
LEMMA QuietCall ==
  ASSUME FileInv, NEW k \in Calls, NEW x \in Call, call' = [call EXCEPT ![k] = x],
         UNCHANGED <<file, up, mem, acct, holder, accepted, unseen, overtaken>>,
         shown' \subseteq Emails, ~up => shown' = {}, faults' \in 0 .. MaxFaults,
         lost' \subseteq Emails, lost \subseteq lost',
         call[k].pc = "answered" => call[k].email \in lost',
         x.pc # "parsing", x.read = None \/ x.read = call[k].read,
         x.pc # "idle" => up /\ x.email # None,
         x.pc = "refreshing" => x.tok # None /\ x.tok \in Known(x.email),
         x.pc = "answered" => x.tok = None,
         x.pc \in {"refreshing", "answered"} => acct[x.email] # None
  PROVE  FileInv'
<1>0. TypeOK
  BY DEF FileInv
<1>1. TypeOK'
  BY <1>0 DEF TypeOK
<1>2. \A j \in Calls : call'[j] = IF j = k THEN x ELSE call[j]
  BY <1>0 DEF TypeOK
<1>3. \A e \in Emails : Known(e) \subseteq Known(e)' /\ Live(e) \subseteq Live(e)'
  BY <1>2, KnownKept, LiveKept
<1>4. ASSUME NEW e \in Emails PROVE (KnownCopies(e) /\ LiveCopies(e) /\ SeenCopies(e))'
  <2>1. KnownCopies(e) /\ LiveCopies(e) /\ SeenCopies(e)
    BY DEF FileInv
  <2>2. KnownCopies(e)'
    <3>1. None \in Known(e)'
      BY DEF Known
    <3>2. QED
      BY <1>2, <1>3, <2>1, <3>1 DEF KnownCopies, Entry
  <2>3. LiveCopies(e)'
    BY <1>2, <1>3, <2>1 DEF LiveCopies, Entry
  <2>4. SeenCopies(e)'
    BY <1>2, <2>1 DEF SeenCopies, Entry
  <2>5. QED
    BY <2>2, <2>3, <2>4
<1>5. ASSUME NEW e \in Emails, NEW j \in Calls PROVE CallTokens(j, e)'
  <2>1. CallTokens(j, e)
    BY DEF FileInv
  <2>2. QED
    BY <1>2, <1>3, <2>1 DEF CallTokens
<1>6. QED
  BY <1>1, <1>4, <1>5 DEF FileInv

\* A load reads the file as it is.
LEMMA ReadInv ==
  ASSUME FileInv, NEW k \in Calls, ReadFile(k)
  PROVE  FileInv'
<1>0. TypeOK
  BY DEF FileInv
<1> DEFINE x == [call[k] EXCEPT !.pc = "parsing", !.read = file]
<1>1. /\ x \in Call /\ x.pc = "parsing" /\ x.read = file
      /\ x.tok = call[k].tok /\ x.email = call[k].email
  BY <1>0 DEF TypeOK, Call, Pc
<1>2. call' = [call EXCEPT ![k] = x] /\ call[k].pc = "reading"
  BY <1>0 DEF ReadFile, TypeOK, Call
<1> HIDE DEF x
<1>3. \A j \in Calls : call'[j] = IF j = k THEN x ELSE call[j]
  BY <1>0, <1>2 DEF TypeOK
<1>4. UNCHANGED <<file, up, mem, acct, shown, holder, accepted, faults, lost, unseen, overtaken>>
  BY DEF ReadFile, server, history
<1>5. TypeOK'
  BY <1>0, <1>1, <1>2, <1>3, <1>4 DEF TypeOK
<1>6. \A e \in Emails : Known(e) \subseteq Known(e)' /\ Live(e) \subseteq Live(e)'
  BY <1>1, <1>2, <1>3, <1>4, KnownKept, LiveKept
<1>7. ASSUME NEW e \in Emails PROVE (KnownCopies(e) /\ LiveCopies(e) /\ SeenCopies(e))'
  <2>1. KnownCopies(e) /\ LiveCopies(e) /\ SeenCopies(e)
    BY DEF FileInv
  <2>2. KnownCopies(e)'
    BY <1>1, <1>3, <1>4, <1>6, <2>1 DEF KnownCopies, Entry
  <2>3. LiveCopies(e)'
    BY <1>1, <1>3, <1>4, <1>6, <2>1 DEF LiveCopies, Entry
  <2>4. SeenCopies(e)'
    BY <1>1, <1>3, <1>4, <2>1 DEF SeenCopies, Entry
  <2>5. QED
    BY <2>2, <2>3, <2>4
<1>8. ASSUME NEW e \in Emails, NEW j \in Calls PROVE CallTokens(j, e)'
  <2>1. CallTokens(j, e)
    BY DEF FileInv
  <2>2. QED
    BY <1>1, <1>3, <1>4, <1>6, <2>1 DEF CallTokens
<1>9. QED
  BY <1>5, <1>7, <1>8 DEF FileInv

\* A load that resumes: what it takes back is recorded, so what it leaves in the
\* cache is alive and complete, or recorded.
LEMMA FinishLoadInv ==
  ASSUME FileInv, NEW k \in Calls, NEW ask \in BOOLEAN, FinishLoad(k, ask)
  PROVE  FileInv'
<1>0. TypeOK
  BY DEF FileInv
<1> DEFINE f == call[k].email
           r == call[k].read
           x == IF ask THEN [Idle EXCEPT !.pc = "asking", !.email = f] ELSE Idle
<1>1. f \in Emails /\ r \in Store \cup {None} /\ up /\ f # None
  BY <1>0, FileBounds DEF TypeOK, Call, FinishLoad
<1>2. x \in Call /\ x.pc \in {"idle", "asking"} /\ x.tok = None /\ x.read = None
      /\ (x.pc # "idle" => x.email = f)
  BY <1>1, IdleType DEF Call, Idle, Pc
<1>3. call' = [call EXCEPT ![k] = x] /\ call[k].pc = "parsing"
  BY DEF FinishLoad
<1>4. \A j \in Calls : call'[j] = IF j = k THEN x ELSE call[j]
  BY <1>0, <1>3 DEF TypeOK
<1>5. /\ mem' = (IF r # None THEN r ELSE mem)
      /\ acct' = IF Entry(r, f) # None THEN [acct EXCEPT ![f] = r[f]] ELSE acct
      /\ UNCHANGED <<file, up, shown, holder, accepted, faults, lost, unseen>>
      /\ overtaken' = overtaken \cup TakenBack(k)
  BY DEF FinishLoad
<1>6. mem' \in Store \cup {None} /\ acct' \in Store
  BY <1>0, <1>1, <1>5, EntryType DEF TypeOK, Store
<1>7. \A e \in Emails :
        /\ acct'[e] = IF e = f /\ Entry(r, e) # None THEN Entry(r, e) ELSE acct[e]
        /\ r # None /\ mem # None /\ Entry(mem, e) # Entry(r, e) => e \in overtaken'
        /\ r # None /\ mem = None /\ Entry(file, e) # Entry(r, e) => e \in overtaken'
        /\ Entry(mem', e) = IF r # None THEN Entry(r, e) ELSE Entry(mem, e)
  BY <1>0, <1>1, <1>5 DEF TypeOK, Store, TakenBack, Entry
<1>8. TakenBack(k) \subseteq Emails
  BY <1>1 DEF TakenBack
<1>9. \A e \in Emails : r = None => Entry(r, e) = None
  BY DEF Entry
<1>10. k \in Calls /\ call[k].read = r /\ call[k].email = f
  OBVIOUS
<1> HIDE DEF x, f, r
<1>11. TypeOK'
  BY <1>0, <1>1, <1>2, <1>3, <1>4, <1>5, <1>6, <1>8 DEF TypeOK
<1>12. \A e \in Emails : Known(e) \subseteq Known(e)' /\ Live(e) \subseteq Live(e)'
  BY <1>2, <1>3, <1>4, <1>5, KnownKept, LiveKept
<1>13. \A e \in Emails : None \in Known(e)' /\ None \in Live(e)'
  BY DEF Known, Live
<1>14. ASSUME NEW e \in Emails PROVE (KnownCopies(e) /\ LiveCopies(e) /\ SeenCopies(e))'
  <2>1. KnownCopies(e) /\ LiveCopies(e) /\ SeenCopies(e)
    BY DEF FileInv
  <2>2. KnownCopies(e)'
    <3>1. Entry(r, e) \in Known(e)'
      BY <1>10, <1>12, <2>1 DEF KnownCopies
    <3>2. acct'[e] \in Known(e)' /\ Entry(mem', e) \in Known(e)' /\ Entry(file', e) \in Known(e)'
      BY <1>5, <1>7, <1>12, <2>1, <3>1 DEF KnownCopies
    <3>3. \A j \in Calls : Entry(call'[j].read, e) \in Known(e)'
      BY <1>2, <1>4, <1>12, <1>13, <2>1 DEF KnownCopies, Entry
    <3>4. QED
      BY <3>2, <3>3 DEF KnownCopies, Entry
  <2>3. e \in overtaken' => \A t \in Token : t \in Live(e)'
    BY DEF Live, Alive, Token
  <2>4. Entry(r, e) \in Token
    BY <1>1, EntryType
  <2>5. Entry(r, e) \in Live(e)'
    BY <1>7, <1>9, <1>12, <1>13, <2>1, <2>3, <2>4 DEF LiveCopies
  <2>6. acct'[e] \in Live(e)' /\ Entry(mem', e) \in Live(e)' /\ Entry(file', e) \in Live(e)'
    BY <1>5, <1>7, <1>12, <2>1, <2>5 DEF LiveCopies
  <2>7. LiveCopies(e)'
    BY <2>6 DEF LiveCopies, Entry
  <2>8. SeenCopies(e)'
    <3>1. Entry(file, e) # None =>
            mem' = None \/ Entry(mem', e) # None \/ e \in unseen \cup overtaken'
      BY <1>5, <1>7, <1>9, <2>1 DEF SeenCopies
    <3>2. QED
      BY <1>5, <3>1 DEF SeenCopies, Entry
  <2>9. QED
    BY <2>2, <2>7, <2>8
<1>15. ASSUME NEW e \in Emails, NEW j \in Calls PROVE CallTokens(j, e)'
  <2>1. CallTokens(j, e)
    BY DEF FileInv
  <2>2. QED
    BY <1>2, <1>4, <1>5, <1>7, <1>12, <2>1 DEF CallTokens
<1>16. QED
  BY <1>11, <1>14, <1>15 DEF FileInv

\* The end of a poll or of a refresh: the token f was granted is saved, and with it
\* everything the cache, or the file if there is no cache, holds.
LEMMA SavedInv ==
  ASSUME FileInv, NEW k \in Calls, NEW f \in Emails, NEW t \in Tokens, NEW ok \in BOOLEAN,
         SaveToFile(f, t, ok), call' = [call EXCEPT ![k] = Idle],
         call[k].pc # "idle", call[k].email = f,
         UNCHANGED <<up, unseen, overtaken>>, shown' \subseteq Emails,
         holder' \in [Tokens -> Emails \cup {None}], accepted' \subseteq Tokens,
         \A u \in Tokens : holder[u] # None => holder'[u] = holder[u],
         holder'[t] = f, accepted \subseteq accepted',
         t \in Known(f)', t \in Live(f)',
         \/ acct' = acct /\ call[k].pc # "answered"
         \/ acct' = [acct EXCEPT ![f] = t]
  PROVE  FileInv'
<1>0. TypeOK
  BY DEF FileInv
<1>1. Merged(f, t) \in Store
  BY <1>0, NoTokensType DEF TypeOK, Merged, Store, Token
<1>2. /\ mem' = Merged(f, t)
      /\ faults' \in 0 .. MaxFaults
      /\ lost' = lost \/ lost' = lost \cup {f}
      /\ file' = Merged(f, t) \/ (file' = file /\ f \in lost')
  BY <1>0, FileBounds DEF SaveToFile, Fault, TypeOK
<1>3. \A e \in Emails : Entry(mem', e) =
        IF e = f THEN t ELSE IF mem # None THEN Entry(mem, e) ELSE Entry(file, e)
  <2>1. Merged(f, t) # None
    BY <1>1, FileBounds DEF Store, Token
  <2>2. ASSUME NEW e \in Emails
        PROVE  Merged(f, t)[e] =
                 IF e = f THEN t ELSE IF mem # None THEN Entry(mem, e) ELSE Entry(file, e)
    <3>1. CASE mem # None
      BY <1>0, <3>1 DEF TypeOK, Entry, Merged, Store
    <3>2. CASE mem = None /\ file # None
      BY <1>0, <3>2 DEF TypeOK, Entry, Merged, Store
    <3>3. CASE mem = None /\ file = None
      BY <3>3, NoTokensType DEF Entry, Merged, Store
    <3>4. QED
      BY <3>1, <3>2, <3>3
  <2>3. QED
    BY <1>2, <2>1, <2>2 DEF Entry
<1>4. mem' # None /\ mem' \in Store /\ file' \in Store \cup {None}
  BY <1>0, <1>1, <1>2, FileBounds DEF TypeOK, Store, Token
<1>5. \A e \in Emails : Entry(file', e) = Entry(mem', e) \/ Entry(file', e) = Entry(file, e)
  BY <1>2 DEF Entry
<1>6. \A j \in Calls : call'[j] = IF j = k THEN Idle ELSE call[j]
  BY <1>0 DEF TypeOK
<1>7. acct' \in Store /\ \A e \in Emails : acct'[e] = acct[e] \/ (e = f /\ acct'[e] = t)
  BY <1>0 DEF TypeOK, Store, Token
<1>8. up /\ t # None
  BY <1>0, FileBounds DEF TypeOK
<1>9. TypeOK'
  <2>1. call' \in [Calls -> Call]
    BY <1>0, IdleType DEF TypeOK
  <2>2. lost' \subseteq Emails
    BY <1>0, <1>2 DEF TypeOK
  <2>3. QED
    BY <1>0, <1>2, <1>4, <1>6, <1>7, <1>8, <2>1, <2>2, IdleType DEF TypeOK
<1>10. \A e \in Emails : Known(e) \subseteq Known(e)'
  BY <1>6, IdleType, FileBounds, KnownKept
<1>11. \A e \in Emails : e # f => Live(e) \subseteq Live(e)'
  BY <1>2, <1>6, LiveKept
<1>12. f \in lost' => \A u \in Token : u \in Live(f)'
  BY DEF Live, Alive, Token
<1>13. \A e \in Emails : None \in Known(e)' /\ None \in Live(e)'
  BY DEF Known, Live
<1>14. ASSUME NEW e \in Emails PROVE (KnownCopies(e) /\ LiveCopies(e) /\ SeenCopies(e))'
  <2>1. KnownCopies(e) /\ LiveCopies(e) /\ SeenCopies(e)
    BY DEF FileInv
  <2>2. KnownCopies(e)'
    <3>1. acct'[e] \in Known(e)' /\ Entry(mem', e) \in Known(e)' /\ Entry(file', e) \in Known(e)'
      BY <1>3, <1>5, <1>7, <1>10, <2>1 DEF KnownCopies
    <3>2. \A j \in Calls : Entry(call'[j].read, e) \in Known(e)'
      BY <1>6, <1>10, <1>13, <2>1, IdleType DEF KnownCopies, Entry
    <3>3. QED
      BY <3>1, <3>2 DEF KnownCopies, Entry
  <2>3. Entry(file, e) \in Token
    BY <1>0, EntryType DEF TypeOK
  <2>4. acct'[e] \in Live(e)'
    <3>1. CASE e # f
      BY <1>7, <1>11, <2>1, <3>1 DEF LiveCopies
    <3>2. CASE e = f /\ acct' = acct /\ call[k].pc # "answered"
      <4>1. Live(e) \subseteq Live(e)'
        BY <1>2, <1>6, <3>2, LiveKept
      <4>2. QED
        BY <2>1, <3>2, <4>1 DEF LiveCopies
    <3>3. CASE e = f /\ acct' = [acct EXCEPT ![f] = t]
      BY <1>0, <3>3 DEF TypeOK, Store
    <3>4. QED
      BY <3>1, <3>2, <3>3
  <2>5. Entry(mem', e) \in Live(e)'
    BY <1>3, <1>11, <2>1 DEF LiveCopies
  <2>6. Entry(file', e) \in Live(e)'
    <3>1. CASE e # f
      BY <1>5, <1>11, <2>1, <2>5, <3>1 DEF LiveCopies
    <3>2. CASE e = f
      BY <1>2, <1>12, <2>3, <2>5, <3>2 DEF Entry
    <3>3. QED
      BY <3>1, <3>2
  <2>7. LiveCopies(e)'
    BY <2>4, <2>5, <2>6 DEF LiveCopies, Entry
  <2>8. SeenCopies(e)'
    <3>1. Entry(file', e) # None => Entry(mem', e) # None \/ e \in unseen \cup overtaken
      BY <1>3, <1>5, <1>8, <2>1, FileBounds DEF SeenCopies, Entry
    <3>2. QED
      BY <3>1 DEF SeenCopies, Entry
  <2>9. QED
    BY <2>2, <2>7, <2>8
<1>15. ASSUME NEW e \in Emails, NEW j \in Calls PROVE CallTokens(j, e)'
  <2>1. CallTokens(j, e)
    BY DEF FileInv
  <2>2. CASE j = k
    BY <1>6, <2>2, IdleType DEF CallTokens
  <2>3. CASE j # k
    BY <1>0, <1>6, <1>7, <1>8, <1>10, <2>1, <2>3, FileBounds, IdleType DEF CallTokens, TypeOK
  <2>4. QED
    BY <2>2, <2>3
<1>16. QED
  BY <1>9, <1>14, <1>15 DEF FileInv

\* An approved poll.
LEMMA PollGrantedInv ==
  ASSUME FileInv, NEW k \in Calls, NEW t \in Tokens, NEW ok \in BOOLEAN, PollGranted(k, t, ok)
  PROVE  FileInv'
<1>0. TypeOK
  BY DEF FileInv
<1>a. call[k].email \in Emails /\ call[k].pc = "polling"
  BY <1>0 DEF TypeOK, Call, PollGranted
<1>1. PICK f \in Emails : f = call[k].email
  BY <1>a
<1>2. /\ SaveToFile(f, t, ok) /\ call' = [call EXCEPT ![k] = Idle]
      /\ UNCHANGED <<up, acct, unseen, overtaken>>
      /\ shown' = shown \ {f} /\ accepted' = accepted \cup {t}
      /\ holder' = [holder EXCEPT ![t] = f] /\ holder[t] = None
  BY <1>1 DEF PollGranted, Issued, End
<1>3. \A j \in Calls : call'[j] = IF j = k THEN Idle ELSE call[j]
  BY <1>0, <1>2 DEF TypeOK
<1>4. t \in Known(f)'
  <2>1. \A j \in Calls : call'[j].pc = "answered" => call'[j].tok # t
    <3> SUFFICES ASSUME NEW j \in Calls, call[j].pc = "answered", call[j].tok = t PROVE FALSE
      BY <1>3, IdleType
    <3>1. call[j].email \in Emails /\ CallTokens(j, call[j].email)
      BY <1>0 DEF FileInv, TypeOK, Call
    <3>2. QED
      BY <1>2, <3>1, FileBounds DEF CallTokens
  <2>2. holder'[t] = f
    BY <1>0, <1>2 DEF TypeOK
  <2>3. QED
    BY <2>1, <2>2 DEF Known
<1>5. t \in Live(f)'
  BY <1>2 DEF Live, Alive
<1>6. shown' \subseteq Emails /\ accepted' \subseteq Tokens
  BY <1>0, <1>2 DEF TypeOK
<1>7. /\ holder' \in [Tokens -> Emails \cup {None}] /\ holder'[t] = f
      /\ \A u \in Tokens : holder[u] # None => holder'[u] = holder[u]
  BY <1>0, <1>1, <1>2 DEF TypeOK
<1>8. QED
  BY <1>a, <1>1, <1>2, <1>4, <1>5, <1>6, <1>7, SavedInv

\* An answered refresh.
LEMMA FinishRefreshInv ==
  ASSUME FileInv, NEW k \in Calls, NEW ok \in BOOLEAN, FinishRefresh(k, ok)
  PROVE  FileInv'
<1>0. TypeOK
  BY DEF FileInv
<1>a. /\ call[k].email \in Emails /\ call[k].pc = "answered"
      /\ call[k].tok \in Token /\ acct \in Store
  BY <1>0 DEF TypeOK, Call, FinishRefresh
<1>1. PICK f \in Emails : f = call[k].email
  BY <1>a
<1>2. CallTokens(k, f) /\ KnownCopies(f) /\ LiveCopies(f)
  BY DEF FileInv
<1>b. (IF call[k].tok # None THEN call[k].tok ELSE acct[f]) \in Tokens
  BY <1>a, <1>1, <1>2 DEF CallTokens, Token, Store
<1>3. PICK t \in Tokens : t = IF call[k].tok # None THEN call[k].tok ELSE acct[f]
  BY <1>b
<1>4. /\ SaveToFile(f, t, ok) /\ call' = [call EXCEPT ![k] = Idle]
      /\ UNCHANGED <<up, shown, holder, accepted, unseen, overtaken>>
      /\ acct' = [acct EXCEPT ![f] = t]
  BY <1>1, <1>3 DEF FinishRefresh, End
<1>5. \A j \in Calls : call'[j] = IF j = k THEN Idle ELSE call[j]
  BY <1>0, <1>4 DEF TypeOK
<1>6. \/ call[k].tok = None /\ t = acct[f] /\ t \in Known(f) /\ t \in Live(f)
      \/ call[k].tok = t /\ t \in accepted /\ holder[t] = f
  BY <1>a, <1>1, <1>2, <1>3 DEF CallTokens, KnownCopies, LiveCopies
<1>8. t \in Known(f)'
  <2>1. CASE t \in Known(f)
    <3>1. Known(f) \subseteq Known(f)'
      BY <1>4, <1>5, IdleType, KnownKept
    <3>2. QED
      BY <2>1, <3>1
  <2>2. CASE call[k].tok = t /\ holder[t] = f
    <3>1. \A j \in Calls : call'[j].pc = "answered" => call'[j].tok # t
      BY <1>a, <1>1, <1>2, <1>3, <1>5, <2>2, IdleType, FileBounds DEF CallTokens
    <3>2. holder'[t] = f
      BY <1>4, <2>2
    <3>3. QED
      BY <1>3, <3>1, <3>2 DEF Known
  <2>3. QED
    BY <1>6, <2>1, <2>2
<1>9. t \in Live(f)'
  <2>1. CASE t \in accepted
    BY <1>3, <1>4, <2>1 DEF Live, Alive
  <2>2. CASE call[k].tok = None /\ t \in Live(f)
    <3>1. call[k].tok \notin accepted
      BY <1>0, <2>2, FileBounds DEF TypeOK
    <3>2. lost \subseteq lost'
      BY <1>4 DEF SaveToFile
    <3>3. Live(f) \subseteq Live(f)'
      BY <1>4, <1>5, <3>1, <3>2, LiveKept
    <3>4. QED
      BY <2>2, <3>3
  <2>3. QED
    BY <1>6, <2>1, <2>2
<1>10. holder[t] = f
  BY <1>3, <1>6, FileBounds DEF Known
<1>11. QED
  BY <1>0, <1>a, <1>1, <1>4, <1>8, <1>9, <1>10, SavedInv DEF TypeOK

\* Microsoft revokes a refresh token while the call that brings back its successor
\* stands for it.
LEMMA RotatedInv ==
  ASSUME FileInv, NEW k \in Calls, NEW t \in Tokens, NEW revoke \in BOOLEAN,
         Rotated(k, t, revoke)
  PROVE  FileInv'
<1>0. TypeOK
  BY DEF FileInv
<1>1. /\ call[k].email \in Emails /\ call[k].pc = "refreshing"
      /\ call[k].tok \in accepted /\ up /\ call[k].email # None
  BY <1>0 DEF TypeOK, Call, Rotated
<1>2. PICK f \in Emails : f = call[k].email
  BY <1>1
<1>3. PICK o \in Tokens : o = call[k].tok
  BY <1>0, <1>1 DEF TypeOK
<1>4. /\ UNCHANGED <<file, up, mem, acct, shown, faults, lost, unseen, overtaken>>
      /\ holder[t] = None /\ holder' = [holder EXCEPT ![t] = f]
      /\ accepted' = (IF revoke THEN accepted \ {o} ELSE accepted) \cup {t}
  BY <1>2, <1>3 DEF Rotated, Issued, server, history
<1> DEFINE x == [call[k] EXCEPT !.pc = "answered", !.tok = t]
<1>5. x \in Call /\ x.pc = "answered" /\ x.tok = t /\ x.email = f /\ x.read = call[k].read
  BY <1>0, <1>2 DEF TypeOK, Call, Pc, Token
<1>6. call' = [call EXCEPT ![k] = x]
  BY <1>0 DEF Rotated, TypeOK, Call
<1> HIDE DEF x
<1>7. \A j \in Calls : call'[j] = IF j = k THEN x ELSE call[j]
  BY <1>0, <1>6 DEF TypeOK
<1>8. \A u \in Tokens : holder'[u] = IF u = t THEN f ELSE holder[u]
  BY <1>0, <1>4 DEF TypeOK
<1>9. holder[o] = f /\ acct[f] # None /\ o # t
  <2>1. CallTokens(k, f)
    BY DEF FileInv
  <2>2. QED
    BY <1>1, <1>2, <1>3, <1>4, <2>1, FileBounds DEF CallTokens, Known
<1>10. TypeOK'
  <2>1. holder' \in [Tokens -> Emails \cup {None}]
    BY <1>0, <1>4 DEF TypeOK
  <2>2. call' \in [Calls -> Call]
    BY <1>0, <1>5, <1>6 DEF TypeOK
  <2>3. QED
    BY <1>0, <1>1, <1>2, <1>4, <1>5, <1>7, <2>1, <2>2 DEF TypeOK
<1>11. \A e \in Emails : Known(e) \subseteq Known(e)'
  BY <1>4, <1>5, <1>7, <1>8, FileBounds, KnownKept
<1>12. \A u \in Token : u \in Live(f)'
  <2>1. t \in accepted' /\ call'[k].pc = "answered" /\ call'[k].email = f /\ call'[k].tok = t
    BY <1>4, <1>5, <1>7
  <2>2. QED
    BY <2>1 DEF Live, Alive, Token
<1>13. \A e \in Emails : e # f => \A u \in Known(e) : u \in Live(e) => u \in Live(e)'
  <2> SUFFICES ASSUME NEW e \in Emails, e # f, NEW u \in Known(e), u \in Live(e), u # None
               PROVE  u \in Live(e)'
    BY DEF Live
  <2>1. u \in Tokens /\ holder[u] = e /\ u # o
    BY <1>9 DEF Known
  <2>2. CASE u \in accepted
    BY <1>4, <2>1, <2>2 DEF Live, Alive
  <2>3. CASE e \in lost \cup overtaken
    BY <1>4, <2>1, <2>3 DEF Live, Alive
  <2>4. ASSUME NEW j \in Calls, call[j].pc = "answered", call[j].email = e, call[j].tok \in accepted
        PROVE  u \in Live(e)'
    <3>1. CallTokens(j, e)
      BY DEF FileInv
    <3>2. call[j].tok \in Tokens /\ holder[call[j].tok] = e
      BY <1>0, <2>4, <3>1, FileBounds DEF CallTokens, TypeOK
    <3>3. call'[j] = call[j] /\ call[j].tok \in accepted'
      BY <1>1, <1>4, <1>7, <1>9, <2>4, <3>2
    <3>4. QED
      BY <2>1, <2>4, <3>3 DEF Live, Alive
  <2>5. QED
    BY <2>1, <2>2, <2>3, <2>4 DEF Live, Alive
<1>14. ASSUME NEW e \in Emails PROVE (KnownCopies(e) /\ LiveCopies(e) /\ SeenCopies(e))'
  <2>1. KnownCopies(e) /\ LiveCopies(e) /\ SeenCopies(e)
    BY DEF FileInv
  <2>2. KnownCopies(e)'
    BY <1>4, <1>5, <1>7, <1>11, <2>1 DEF KnownCopies, Entry
  <2>3. \A u \in Known(e) : u \in Live(e) => u \in Live(e)'
    BY <1>12, <1>13 DEF Known, Token
  <2>4. LiveCopies(e)'
    BY <1>4, <2>1, <2>3 DEF LiveCopies, KnownCopies, Entry
  <2>5. SeenCopies(e)'
    BY <1>4, <2>1 DEF SeenCopies, Entry
  <2>6. QED
    BY <2>2, <2>4, <2>5
<1>15. ASSUME NEW e \in Emails, NEW j \in Calls PROVE CallTokens(j, e)'
  <2>1. \A i \in Calls : CallTokens(i, e)
    BY DEF FileInv
  <2>2. \A i \in Calls : call[i].pc = "answered" => call[i].tok # t
    <3> SUFFICES ASSUME NEW i \in Calls, call[i].pc = "answered", call[i].tok = t PROVE FALSE
      OBVIOUS
    <3>1. call[i].email \in Emails /\ CallTokens(i, call[i].email)
      BY <1>0 DEF FileInv, TypeOK, Call
    <3>2. QED
      BY <1>4, <3>1, FileBounds DEF CallTokens
  <2>3. CASE j = k
    BY <1>4, <1>5, <1>7, <1>8, <1>9, <2>2, <2>3 DEF CallTokens
  <2>4. CASE j # k /\ call[j].pc = "answered" /\ call[j].tok # None /\ call[j].email = e
    <3>1. /\ acct[e] # None /\ call[j].tok \in accepted /\ holder[call[j].tok] = e
          /\ \A i \in Calls : i # j /\ call[i].pc = "answered" => call[i].tok # call[j].tok
      BY <2>1, <2>4 DEF CallTokens
    <3>2. call[j].tok # o
      <4>1. o \in Known(f)
        BY <1>1, <1>2, <1>3, FileBounds DEF FileInv, CallTokens
      <4>2. QED
        BY <1>3, <2>4, <4>1, FileBounds DEF Known
    <3>3. QED
      BY <1>0, <1>4, <1>5, <1>7, <1>8, <2>2, <2>4, <3>1, <3>2 DEF CallTokens, TypeOK
  <2>5. CASE j # k /\ ~(call[j].pc = "answered" /\ call[j].tok # None /\ call[j].email = e)
    BY <1>4, <1>7, <1>11, <2>1, <2>5 DEF CallTokens
  <2>6. QED
    BY <2>3, <2>4, <2>5
<1>16. QED
  BY <1>10, <1>14, <1>15 DEF FileInv

\* A server that starts has only what the file holds.
LEMMA StartInv == FileInv /\ Start => FileInv'
<1> SUFFICES ASSUME FileInv, Start PROVE FileInv'
  OBVIOUS
<1>0. TypeOK
  BY DEF FileInv
<1>1. /\ UNCHANGED <<file, shown, call, holder, accepted, faults, lost, unseen, overtaken>>
      /\ mem' = file /\ up' = TRUE
      /\ acct' = IF file = None THEN NoTokens ELSE file
  BY DEF Start, history
<1>2. \A k \in Calls : call[k].pc = "idle"
  BY <1>0 DEF TypeOK, Start
<1>3. acct' \in Store /\ \A e \in Emails : acct'[e] = Entry(file, e)
  BY <1>0, <1>1, NoTokensType DEF TypeOK, Entry
<1>4. TypeOK'
  BY <1>0, <1>1, <1>2, <1>3 DEF TypeOK
<1>5. \A e \in Emails : Known(e)' = Known(e) /\ Live(e)' = Live(e)
  BY <1>1 DEF Known, Live, Alive
<1>6. ASSUME NEW e \in Emails PROVE (KnownCopies(e) /\ LiveCopies(e) /\ SeenCopies(e))'
  <2>1. KnownCopies(e) /\ LiveCopies(e) /\ SeenCopies(e)
    BY DEF FileInv
  <2>2. KnownCopies(e)'
    BY <1>1, <1>3, <1>5, <2>1 DEF KnownCopies, Entry
  <2>3. LiveCopies(e)'
    BY <1>1, <1>2, <1>3, <1>5, <2>1 DEF LiveCopies, Entry
  <2>4. SeenCopies(e)'
    BY <1>1 DEF SeenCopies, Entry
  <2>5. QED
    BY <2>2, <2>3, <2>4
<1>7. \A e \in Emails, k \in Calls : CallTokens(k, e)'
  BY <1>1, <1>2 DEF CallTokens
<1>8. QED
  BY <1>4, <1>6, <1>7 DEF FileInv

\* A server that stops drops its answers, which is recorded.
LEMMA StopInv == FileInv /\ Stop => FileInv'
<1> SUFFICES ASSUME FileInv, Stop PROVE FileInv'
  OBVIOUS
<1>0. TypeOK
  BY DEF FileInv
<1>1. /\ UNCHANGED <<file, holder, accepted, faults, overtaken>>
      /\ unseen' = {} /\ mem' = None /\ up' = FALSE /\ acct' = NoTokens /\ shown' = {}
      /\ call' = [k \in Calls |-> Idle]
  BY DEF Stop
<1>2. /\ lost \subseteq lost'
      /\ \A k \in Calls : call[k].pc = "answered" => call[k].email \in lost'
      /\ lost' \subseteq Emails
  BY <1>0 DEF TypeOK, Call, Stop
<1>3. \A k \in Calls : call'[k] = Idle
  BY <1>1
<1>4. call' \in [Calls -> Call]
  BY <1>1, IdleType
<1>5. TypeOK'
  BY <1>0, <1>1, <1>2, <1>3, <1>4, NoTokensType, IdleType DEF TypeOK
<1>6. \A e \in Emails : Known(e) \subseteq Known(e)' /\ Live(e) \subseteq Live(e)'
  BY <1>1, <1>2, <1>3, IdleType, KnownKept, LiveKept
<1>7. \A e \in Emails : None \in Known(e)' /\ None \in Live(e)'
  BY DEF Known, Live
<1>8. ASSUME NEW e \in Emails PROVE (KnownCopies(e) /\ LiveCopies(e) /\ SeenCopies(e))'
  <2>1. KnownCopies(e) /\ LiveCopies(e) /\ SeenCopies(e)
    BY DEF FileInv
  <2>2. KnownCopies(e)'
    BY <1>1, <1>3, <1>6, <1>7, <2>1, NoTokensType, IdleType DEF KnownCopies, Entry
  <2>3. LiveCopies(e)'
    BY <1>1, <1>3, <1>6, <1>7, <2>1, NoTokensType, IdleType DEF LiveCopies, Entry
  <2>4. SeenCopies(e)'
    BY <1>1, <1>3, IdleType DEF SeenCopies, Entry
  <2>5. QED
    BY <2>2, <2>3, <2>4
<1>9. \A e \in Emails, k \in Calls : CallTokens(k, e)'
  BY <1>3, IdleType DEF CallTokens
<1>10. QED
  BY <1>5, <1>8, <1>9 DEF FileInv

\* A cache that is cleared.
LEMMA CacheClearInv == FileInv /\ CacheClear => FileInv'
<1> SUFFICES ASSUME FileInv, CacheClear PROVE FileInv'
  OBVIOUS
<1>0. TypeOK
  BY DEF FileInv
<1>1. /\ UNCHANGED <<file, up, acct, shown, call, holder, accepted, faults, lost, overtaken>>
      /\ unseen' = {} /\ mem' = None
  BY DEF CacheClear
<1>2. TypeOK'
  BY <1>0, <1>1 DEF TypeOK
<1>3. \A e \in Emails :
        Known(e)' = Known(e) /\ Live(e)' = Live(e) /\ None \in Known(e) /\ None \in Live(e)
  BY <1>1 DEF Known, Live, Alive
<1>4. \A e \in Emails : (KnownCopies(e) /\ LiveCopies(e) /\ SeenCopies(e))'
  BY <1>1, <1>3 DEF FileInv, KnownCopies, LiveCopies, SeenCopies, Entry
<1>5. \A e \in Emails, k \in Calls : CallTokens(k, e)'
  BY <1>1, <1>3 DEF CallTokens, FileInv
<1>6. QED
  BY <1>2, <1>4, <1>5 DEF FileInv

\* The account takes over what the cache has.
LEMMA LoadCachedInv ==
  ASSUME FileInv, NEW f \in Emails, LoadCached(f)
  PROVE  FileInv'
<1>0. TypeOK
  BY DEF FileInv
<1>1. /\ UNCHANGED <<file, up, mem, shown, call, holder, accepted, faults, lost, unseen, overtaken>>
      /\ acct' = [acct EXCEPT ![f] = mem[f]] /\ mem # None /\ mem \in Store
      /\ mem[f] # None /\ up
  BY <1>0 DEF TypeOK, LoadCached, Entry, history
<1>2. acct' \in Store /\ \A e \in Emails : acct'[e] = IF e = f THEN Entry(mem, e) ELSE acct[e]
  BY <1>0, <1>1 DEF TypeOK, Store, Entry
<1>3. TypeOK'
  BY <1>0, <1>1, <1>2 DEF TypeOK
<1>4. \A e \in Emails : Known(e)' = Known(e) /\ Live(e)' = Live(e)
  BY <1>1 DEF Known, Live, Alive
<1>5. ASSUME NEW e \in Emails PROVE (KnownCopies(e) /\ LiveCopies(e) /\ SeenCopies(e))'
  <2>1. KnownCopies(e) /\ LiveCopies(e) /\ SeenCopies(e)
    BY DEF FileInv
  <2>2. KnownCopies(e)'
    BY <1>1, <1>2, <1>4, <2>1 DEF KnownCopies, Entry
  <2>3. LiveCopies(e)'
    BY <1>1, <1>2, <1>4, <2>1 DEF LiveCopies, Entry
  <2>4. SeenCopies(e)'
    BY <1>1, <2>1 DEF SeenCopies, Entry
  <2>5. QED
    BY <2>2, <2>3, <2>4
<1>6. ASSUME NEW e \in Emails, NEW k \in Calls PROVE CallTokens(k, e)'
  <2>1. CallTokens(k, e)
    BY DEF FileInv
  <2>2. acct[e] # None => acct'[e] # None
    BY <1>1, <1>2 DEF Entry
  <2>3. QED
    BY <1>1, <1>4, <2>1, <2>2 DEF CallTokens
<1>7. QED
  BY <1>3, <1>5, <1>6 DEF FileInv

\* A login from the command line: what it puts beside the server's cache is recorded.
LEMMA LoginInv ==
  ASSUME FileInv, NEW f \in Emails, NEW t \in Tokens, Login(f, t)
  PROVE  FileInv'
<1>0. TypeOK
  BY DEF FileInv
<1> DEFINE base == IF file # None THEN file ELSE NoTokens
<1>1. /\ UNCHANGED <<up, mem, acct, shown, call, faults, lost, overtaken>>
      /\ holder[t] = None /\ holder' = [holder EXCEPT ![t] = f]
      /\ accepted' = accepted \cup {t}
      /\ file' = [base EXCEPT ![f] = t]
      /\ unseen \subseteq unseen' /\ unseen' \subseteq Emails
      /\ mem # None => f \in unseen'
  BY <1>0 DEF Login, Issued, server, TypeOK
<1>2. base \in Store /\ \A e \in Emails : base[e] = Entry(file, e)
  BY <1>0, NoTokensType DEF TypeOK, Entry
<1> HIDE DEF base
<1>3. file' \in Store
  BY <1>1, <1>2 DEF Store, Token
<1>4. \A e \in Emails : Entry(file', e) = IF e = f THEN t ELSE Entry(file, e)
  BY <1>1, <1>2, <1>3, FileBounds DEF Store, Token, Entry
<1>5. \A u \in Tokens : holder'[u] = IF u = t THEN f ELSE holder[u]
  BY <1>0, <1>1 DEF TypeOK
<1>6. TypeOK'
  BY <1>0, <1>1, <1>3 DEF TypeOK
<1>7. \A e \in Emails : Known(e) \subseteq Known(e)' /\ Live(e) \subseteq Live(e)'
  BY <1>1, <1>5, FileBounds, KnownKept, LiveKept
<1>8. t \in Known(f)' /\ t \in Live(f)'
  <2>1. \A j \in Calls : call[j].pc = "answered" => call[j].tok # t
    <3> SUFFICES ASSUME NEW j \in Calls, call[j].pc = "answered", call[j].tok = t PROVE FALSE
      OBVIOUS
    <3>1. call[j].email \in Emails /\ CallTokens(j, call[j].email)
      BY <1>0 DEF FileInv, TypeOK, Call
    <3>2. QED
      BY <1>1, <3>1, FileBounds DEF CallTokens
  <2>2. QED
    BY <1>1, <1>5, <2>1 DEF Known, Live, Alive
<1>9. ASSUME NEW e \in Emails PROVE (KnownCopies(e) /\ LiveCopies(e) /\ SeenCopies(e))'
  <2>1. KnownCopies(e) /\ LiveCopies(e) /\ SeenCopies(e)
    BY DEF FileInv
  <2>2. Entry(file', e) \in Known(e)' /\ Entry(file', e) \in Live(e)'
    BY <1>4, <1>7, <1>8, <2>1 DEF KnownCopies, LiveCopies
  <2>3. KnownCopies(e)'
    BY <1>1, <1>7, <2>1, <2>2 DEF KnownCopies, Entry
  <2>4. LiveCopies(e)'
    BY <1>1, <1>7, <2>1, <2>2 DEF LiveCopies, Entry
  <2>5. SeenCopies(e)'
    <3>1. Entry(file', e) # None =>
            mem = None \/ Entry(mem, e) # None \/ e \in unseen' \cup overtaken
      BY <1>1, <1>4, <2>1 DEF SeenCopies
    <3>2. QED
      BY <1>1, <3>1 DEF SeenCopies, Entry
  <2>6. QED
    BY <2>3, <2>4, <2>5
<1>10. ASSUME NEW e \in Emails, NEW k \in Calls PROVE CallTokens(k, e)'
  <2>1. CallTokens(k, e)
    BY DEF FileInv
  <2>2. QED
    BY <1>0, <1>1, <1>5, <1>7, <2>1, FileBounds DEF CallTokens, TypeOK
<1>11. QED
  BY <1>6, <1>9, <1>10 DEF FileInv

\* A logout takes tokens out of the file.
LEMMA LogoutInv ==
  ASSUME FileInv, NEW E, Logout(E)
  PROVE  FileInv'
<1>0. TypeOK
  BY DEF FileInv
<1>1. /\ UNCHANGED <<up, mem, acct, shown, call, holder, accepted, faults, lost, unseen, overtaken>>
      /\ file # None /\ file \in Store
      /\ file' = [e \in Emails |-> IF e \in E THEN None ELSE file[e]]
  BY <1>0 DEF TypeOK, Logout, server, history
<1>2. file' \in Store /\ \A e \in Emails : Entry(file', e) \in {None, Entry(file, e)}
  BY <1>1, FileBounds DEF Store, Token, Entry
<1>3. TypeOK'
  BY <1>0, <1>1, <1>2 DEF TypeOK
<1>4. \A e \in Emails :
        Known(e)' = Known(e) /\ Live(e)' = Live(e) /\ None \in Known(e) /\ None \in Live(e)
  BY <1>1 DEF Known, Live, Alive
<1>5. ASSUME NEW e \in Emails PROVE (KnownCopies(e) /\ LiveCopies(e) /\ SeenCopies(e))'
  <2>1. KnownCopies(e) /\ LiveCopies(e) /\ SeenCopies(e)
    BY DEF FileInv
  <2>2. Entry(file', e) \in Known(e) /\ Entry(file', e) \in Live(e)
    BY <1>2, <1>4, <2>1 DEF KnownCopies, LiveCopies
  <2>3. KnownCopies(e)'
    BY <1>1, <1>4, <2>1, <2>2 DEF KnownCopies, Entry
  <2>4. LiveCopies(e)'
    BY <1>1, <1>4, <2>1, <2>2 DEF LiveCopies, Entry
  <2>5. Entry(file', e) # None => Entry(file, e) # None
    BY <1>2
  <2>6. SeenCopies(e)'
    BY <1>1, <2>1, <2>5 DEF SeenCopies, Entry
  <2>7. QED
    BY <2>3, <2>4, <2>6
<1>6. \A e \in Emails, k \in Calls : CallTokens(k, e)'
  BY <1>1, <1>4 DEF CallTokens, FileInv
<1>7. QED
  BY <1>3, <1>5, <1>6 DEF FileInv

\* The steps of a call that touch no store.
LEMMA QuietInv ==
  ASSUME FileInv, NEW k \in Calls,
         \/ \E e \in Emails : AskCached(k, e) \/ StartLoad(k, e) \/ StartRefresh(k, e)
         \/ CodeIssued(k) \/ GiveUp(k) \/ Renewed(k) \/ Refused(k) \/ RefreshThrows(k)
  PROVE  FileInv'
<1>0. TypeOK
  BY DEF FileInv
<1>1. call[k] \in Call /\ (call[k].pc # "idle" => call[k].email \in Emails /\ up)
  BY <1>0 DEF TypeOK, Call
<1>2. ASSUME NEW e \in Emails, AskCached(k, e) \/ StartLoad(k, e) \/ StartRefresh(k, e)
      PROVE  FileInv'
  <2>1. UNCHANGED <<file, up, mem, acct, shown, holder, accepted, faults, lost, unseen, overtaken>>
    BY <1>2 DEF AskCached, StartLoad, StartRefresh, server, history
  <2>2. PICK x \in Call :
          /\ call' = [call EXCEPT ![k] = x] /\ call[k].pc = "idle" /\ up
          /\ x.email = e /\ x.read = None
          /\ \/ x.pc \in {"asking", "reading"} /\ x.tok = None
             \/ x.pc = "refreshing" /\ x.tok = acct[e] /\ acct[e] # None
    <3>1. CASE AskCached(k, e)
      <4>1. [Idle EXCEPT !.pc = "asking", !.email = e] \in Call
        BY IdleType DEF Call, Pc
      <4>2. QED
        BY <3>1, <4>1, IdleType DEF AskCached, Idle
    <3>2. CASE StartLoad(k, e)
      <4>1. [Idle EXCEPT !.pc = "reading", !.email = e] \in Call
        BY IdleType DEF Call, Pc
      <4>2. QED
        BY <3>2, <4>1, IdleType DEF StartLoad, Idle
    <3>3. CASE StartRefresh(k, e)
      <4>1. up
        BY <1>0, <3>3 DEF TypeOK, StartRefresh, NoTokens
      <4>2. [Idle EXCEPT !.pc = "refreshing", !.email = e, !.tok = acct[e]] \in Call
        BY <1>0, IdleType DEF Call, Pc, TypeOK, Store
      <4>3. QED
        BY <3>3, <4>1, <4>2, IdleType DEF StartRefresh, Idle
    <3>4. QED
      BY <1>2, <3>1, <3>2, <3>3
  <2>3. acct[e] \in Known(e)
    BY DEF FileInv, KnownCopies
  <2>4. QED
    BY <1>0, <2>1, <2>2, <2>3, FileBounds, QuietCall DEF TypeOK
<1>3. CASE CodeIssued(k)
  <2> DEFINE x == [call[k] EXCEPT !.pc = "polling"]
  <2>1. x \in Call /\ x.pc = "polling" /\ x.read = call[k].read /\ x.email = call[k].email
    BY <1>1 DEF Call, Pc
  <2>2. call' = [call EXCEPT ![k] = x] /\ call[k].pc = "asking"
        /\ shown' = shown \cup {call[k].email}
        /\ UNCHANGED <<file, up, mem, acct, holder, accepted, faults, lost, unseen, overtaken>>
    BY <1>0, <1>3 DEF CodeIssued, TypeOK, Call, history
  <2> HIDE DEF x
  <2>3. QED
    BY <1>0, <1>1, <2>1, <2>2, FileBounds, QuietCall DEF TypeOK
<1>4. CASE GiveUp(k) \/ Refused(k) \/ RefreshThrows(k)
  <2>1. /\ call' = [call EXCEPT ![k] = Idle] /\ call[k].pc # "idle"
        /\ UNCHANGED <<file, up, mem, acct, holder, accepted, unseen, overtaken>>
        /\ shown' \subseteq Emails /\ faults' \in 0 .. MaxFaults
        /\ lost' \subseteq Emails /\ lost \subseteq lost'
        /\ call[k].pc = "answered" => call[k].email \in lost'
    BY <1>0, <1>1, <1>4, FileBounds
       DEF GiveUp, Refused, RefreshThrows, End, Fault, TypeOK, server, history
  <2>2. QED
    BY <1>1, <2>1, IdleType, QuietCall
<1>5. CASE Renewed(k)
  <2> DEFINE x == [call[k] EXCEPT !.pc = "answered", !.tok = None]
  <2>1. /\ x \in Call /\ x.pc = "answered" /\ x.tok = None /\ x.read = call[k].read
        /\ x.email = call[k].email
    BY <1>1 DEF Call, Pc, Token
  <2>2. call' = [call EXCEPT ![k] = x] /\ call[k].pc = "refreshing"
        /\ UNCHANGED <<file, up, mem, acct, shown, holder, accepted, faults, lost, unseen, overtaken>>
    BY <1>0, <1>5 DEF Renewed, TypeOK, Call, server, history
  <2>3. acct[x.email] # None
    BY <1>1, <2>1, <2>2 DEF FileInv, CallTokens
  <2> HIDE DEF x
  <2>4. QED
    BY <1>0, <1>1, <2>1, <2>2, <2>3, FileBounds, QuietCall DEF TypeOK
<1>6. QED
  BY <1>2, <1>3, <1>4, <1>5

LEMMA StepInv == FileInv /\ [Next]_vars => FileInv'
<1> SUFFICES ASSUME FileInv, [Next]_vars PROVE FileInv'
  OBVIOUS
<1>1. ASSUME NEW k \in Calls, CallStep(k) PROVE FileInv'
  BY <1>1, ReadInv, FinishLoadInv, PollGrantedInv, RotatedInv, FinishRefreshInv, QuietInv
     DEF CallStep
<1>2. CASE CommandLine
  BY <1>2, LoginInv, LogoutInv DEF CommandLine
<1>3. CASE UNCHANGED vars \/ \E e \in Emails : Lapse(e)
  <2>1. /\ UNCHANGED <<file, up, mem, acct, call, holder, accepted, faults, lost, unseen, overtaken>>
        /\ shown' \subseteq shown
    BY <1>3 DEF vars, Lapse, history
  <2>2. TypeOK'
    BY <2>1 DEF FileInv, TypeOK
  <2>3. \A e \in Emails : Known(e)' = Known(e) /\ Live(e)' = Live(e)
    BY <2>1 DEF Known, Live, Alive
  <2>4. \A e \in Emails : (KnownCopies(e) /\ LiveCopies(e) /\ SeenCopies(e))'
    BY <2>1, <2>3 DEF FileInv, KnownCopies, LiveCopies, SeenCopies, Entry
  <2>5. \A e \in Emails, k \in Calls : CallTokens(k, e)'
    BY <2>1, <2>3 DEF FileInv, CallTokens
  <2>6. QED
    BY <2>2, <2>4, <2>5 DEF FileInv
<1>4. QED
  BY <1>1, <1>2, <1>3, StartInv, StopInv, CacheClearInv, LoadCachedInv DEF Next

-----------------------------------------------------------------------------

\* The invariant holds in every reachable state.
THEOREM FileCorrect == Spec => []FileInv
BY InitInv, StepInv, PTL DEF Spec

\* Every variable keeps its type, and a server that is down holds nothing.
THEOREM FileTypes == Spec => []TypeOK
<1>1. FileInv => TypeOK
  BY DEF FileInv
<1>2. QED
  BY <1>1, FileCorrect, PTL

\* The token an account would refresh with, and the one a restart would read, is one
\* Microsoft accepts (ensureValidToken, saveTokensToFile), or a drop was recorded.
THEOREM RefreshCorrect == Spec => []RefreshTokenLives
<1>1. FileInv => RefreshTokenLives
  <2> SUFFICES ASSUME FileInv, NEW e \in Emails
               PROVE  /\ acct[e] # None => Alive(e, acct[e])
                      /\ Entry(file, e) # None => Alive(e, file[e])
    BY DEF RefreshTokenLives
  <2>1. acct[e] \in Live(e) /\ Entry(file, e) \in Live(e)
    BY DEF FileInv, LiveCopies
  <2>2. QED
    BY <2>1 DEF Live, Entry
<1>2. QED
  BY <1>1, FileCorrect, PTL

\* tokens.json loses a mailbox by a logout only (saveTokensToFile, deleteStoredTokens),
\* or where the server's cache was known to be behind.
THEOREM ForgetCorrect == Spec => OnlyLogoutForgets
<1> DEFINE Forgets == \A e \in Emails : Entry(file, e) # None /\ Entry(file', e) = None =>
                        \/ e \in unseen \cup overtaken
                        \/ \E E \in SUBSET Emails : Logout(E)
<1>1. FileInv /\ [Next]_vars => [Forgets]_vars
  <2> SUFFICES ASSUME FileInv, Next, NEW e \in Emails, Entry(file, e) # None,
                      Entry(file', e) = None,
                      ~ \E E \in SUBSET Emails : Logout(E)
               PROVE  e \in unseen \cup overtaken
    OBVIOUS
  <2>0. TypeOK /\ SeenCopies(e) /\ file' # file
    BY DEF FileInv
  <2>1. ASSUME NEW f \in Emails, NEW t \in Token, NEW ok \in BOOLEAN,
               SaveToFile(f, t, ok), t # None
        PROVE  e \in unseen \cup overtaken
    <3>1. file' = Merged(f, t)
      BY <2>0, <2>1 DEF SaveToFile
    <3>2. CASE mem # None
      <4>1. e # f /\ Entry(file', e) = mem[e]
        BY <2>0, <2>1, <3>1, <3>2, FileBounds DEF Merged, Entry, TypeOK, Store, Token
      <4>2. QED
        BY <2>0, <3>2, <4>1 DEF SeenCopies, Entry
    <3>3. CASE mem = None
      BY <2>0, <2>1, <3>1, <3>3, FileBounds DEF Merged, Entry, TypeOK, Store, Token
    <3>4. QED
      BY <3>2, <3>3
  <2>2. ASSUME NEW k \in Calls, CallStep(k) PROVE e \in unseen \cup overtaken
    <3>1. call[k] \in Call /\ (call[k].pc # "idle" => call[k].email \in Emails)
      BY <2>0 DEF TypeOK, Call
    <3>2. ASSUME NEW t \in Tokens, NEW ok \in BOOLEAN, PollGranted(k, t, ok)
          PROVE  e \in unseen \cup overtaken
      BY <2>1, <3>1, <3>2, FileBounds DEF PollGranted, Token
    <3>3. ASSUME NEW ok \in BOOLEAN, FinishRefresh(k, ok)
          PROVE  e \in unseen \cup overtaken
      <4>1. call[k].pc = "answered" /\ call[k].email \in Emails /\ acct \in Store
        BY <2>0, <3>1, <3>3 DEF FinishRefresh, TypeOK
      <4>2. acct[call[k].email] # None
        BY <4>1 DEF FileInv, CallTokens
      <4>3. QED
        BY <2>1, <3>1, <3>3, <4>1, <4>2 DEF FinishRefresh, Call, Store
    <3>4. QED
      BY <2>0, <2>2, <3>2, <3>3
         DEF CallStep, AskCached, StartLoad, StartRefresh, ReadFile, FinishLoad, CodeIssued,
             GiveUp, Rotated, Renewed, Refused, RefreshThrows
  <2>3. CASE CommandLine
    <3>1. PICK f \in Emails, t \in Tokens : Login(f, t)
      BY <2>3 DEF CommandLine
    <3>2. QED
      BY <2>0, <3>1, FileBounds, NoTokensType DEF Login, Entry, TypeOK, Store, Token
  <2>4. QED
    BY <2>0, <2>2, <2>3 DEF Next, Start, Stop, CacheClear, LoadCached, Lapse
<1>2. QED
  BY <1>1, FileCorrect, PTL DEF Spec, OnlyLogoutForgets

\* A code is asked for only while tokens.json has no token of the mailbox
\* (ensureValidToken), or where the server's cache was known to be behind.
THEOREM AskCorrect == Spec => AsksUnsignedOnly
<1> DEFINE Asks == \A k \in Calls : call[k].pc # "asking" /\ call'[k].pc = "asking" =>
                     LET e == call'[k].email IN
                     Entry(file, e) = None \/ e \in unseen \cup overtaken'
<1>1. FileInv /\ [Next]_vars => [Asks]_vars
  <2> SUFFICES ASSUME FileInv, Next, NEW k \in Calls,
                      call[k].pc # "asking", call'[k].pc = "asking",
                      NEW e, e = call'[k].email
               PROVE  Entry(file, e) = None \/ e \in unseen \cup overtaken'
    OBVIOUS
  <2>0. TypeOK /\ \A f \in Emails : SeenCopies(f)
    BY DEF FileInv
  <2>1. ASSUME NEW j \in Calls, CallStep(j)
        PROVE  \/ \E f \in Emails : AskCached(k, f) /\ e = f
               \/ \E ask \in BOOLEAN :
                    FinishLoad(k, ask) /\ ask /\ e = call[k].email /\ e \in Emails
    <3>1. call' = [call EXCEPT ![j] = call'[j]]
      BY <2>0, <2>1
         DEF CallStep, TypeOK, AskCached, StartLoad, StartRefresh, ReadFile, FinishLoad,
             CodeIssued, PollGranted, GiveUp, Rotated, Renewed, Refused, FinishRefresh,
             RefreshThrows, End
    <3>2. j = k
      BY <2>0, <3>1 DEF TypeOK
    <3>3. call[k] \in Call /\ call \in [Calls -> Call]
      BY <2>0 DEF TypeOK
    <3>4. ASSUME NEW f \in Emails, AskCached(k, f) PROVE e = f
      BY <3>3, <3>4 DEF AskCached, Idle
    <3>5. ASSUME NEW ask \in BOOLEAN, FinishLoad(k, ask)
          PROVE  ask /\ e = call[k].email /\ e \in Emails
      <4>1. call[k].email \in Emails
        BY <2>0, <3>3, <3>5 DEF FinishLoad, TypeOK, Call
      <4>2. call'[k] = IF ask THEN [Idle EXCEPT !.pc = "asking", !.email = call[k].email]
                              ELSE Idle
        BY <3>3, <3>5 DEF FinishLoad
      <4>3. ask
        BY <4>2, IdleType
      <4>4. QED
        BY <4>1, <4>2, <4>3 DEF Idle
    <3>6. ~ \E f \in Emails : StartLoad(k, f) \/ StartRefresh(k, f)
      BY <3>3 DEF StartLoad, StartRefresh, Idle
    <3>7. ~ (ReadFile(k) \/ CodeIssued(k) \/ Renewed(k)
              \/ \E t \in Tokens, revoke \in BOOLEAN : Rotated(k, t, revoke))
      BY <3>3 DEF ReadFile, CodeIssued, Renewed, Rotated, Call
    <3>8. ~ (GiveUp(k) \/ Refused(k) \/ RefreshThrows(k)
              \/ (\E t \in Tokens, ok \in BOOLEAN : PollGranted(k, t, ok))
              \/ \E ok \in BOOLEAN : FinishRefresh(k, ok))
      BY <3>3, IdleType DEF GiveUp, Refused, RefreshThrows, PollGranted, FinishRefresh, End
    <3>9. QED
      BY <2>1, <3>2, <3>4, <3>5, <3>6, <3>7, <3>8 DEF CallStep
  <2>2. ASSUME NEW f \in Emails, AskCached(k, f), e = f
        PROVE  Entry(file, e) = None \/ e \in unseen \cup overtaken'
    <3>1. overtaken' = overtaken
      BY <2>2 DEF AskCached, history
    <3>2. QED
      BY <2>0, <2>2, <3>1 DEF AskCached, SeenCopies, Entry
  <2>3. ASSUME FinishLoad(k, TRUE), e = call[k].email, e \in Emails
        PROVE  Entry(file, e) = None \/ e \in unseen \cup overtaken'
    <3> DEFINE r == call[k].read
    <3>1. call[k].pc = "parsing" /\ overtaken' = overtaken \cup TakenBack(k)
      BY <2>3 DEF FinishLoad
    <3>2. Entry(r, e) = None
      BY <2>0, <2>3 DEF FinishLoad, Entry, TypeOK, Store
    <3>3. /\ Entry(mem, e) # None => e \in TakenBack(k)
          /\ mem = None /\ Entry(file, e) # None => e \in TakenBack(k)
      BY <2>3, <3>2 DEF TakenBack, Entry
    <3>4. QED
      BY <2>0, <2>3, <3>1, <3>2, <3>3 DEF SeenCopies
  <2>4. CASE Start \/ Stop \/ CacheClear \/ (\E f \in Emails : LoadCached(f) \/ Lapse(f)) \/ CommandLine
    BY <2>0, <2>4, IdleType
       DEF Start, Stop, CacheClear, LoadCached, Lapse, CommandLine, Login, Logout
  <2>5. QED
    BY <2>1, <2>2, <2>3, <2>4 DEF Next
<1>2. QED
  BY <1>1, FileCorrect, PTL DEF Spec, AsksUnsignedOnly

=============================================================================
