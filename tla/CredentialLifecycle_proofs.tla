--------------------- MODULE CredentialLifecycle_proofs ---------------------
(***************************************************************************)
(* Theorems about CredentialLifecycle, for any subjects, sessions,         *)
(* mailboxes, arrays and calls.                                            *)
(***************************************************************************)
EXTENDS CredentialLifecycle, TLAPS

-----------------------------------------------------------------------------
(* The inductive invariant. *)

\* With subjects, what the process keeps for everybody is the deployment's, and what
\* it keeps for a subject is rightfully the subject's.
SharedConfined ==
  multi =>
    /\ env \subseteq deployed
    /\ config = NoString
    /\ tokens = {}
    /\ content[current] \subseteq Parsed(deployed)

SubsConfined ==
  multi => \A s \in Subs :
    /\ kv[s] \subseteq Rightful(s)
    /\ cached[s] # 0 => content[cached[s]] \subseteq Rightful(s)

SessionsConfined ==
  multi => \A x \in Sessions : session[x].array # 0 =>
    /\ content[session[x].array] \subseteq Rightful(session[x].sub) \cup Parsed(deployed)
    /\ session[x].forgot => content[session[x].array] \subseteq Parsed(deployed)

CallsConfined ==
  multi => \A k \in Calls :
    /\ call[k].pc \in {"writing", "written"} =>
         Parsed(call[k].string) \subseteq Rightful(call[k].sub)
    /\ call[k].pc \in {"reloading", "resolved"} => call[k].string \subseteq deployed

Confined == SharedConfined /\ SubsConfined /\ SessionsConfined /\ CallsConfined

\* With subjects, an array is held for one of them only, or is the startup array.
Unshared ==
  multi =>
    /\ \A s \in Subs : cached[s] # current
    /\ \A x \in Sessions : session[x].array # current
    /\ \A s, t \in Subs : cached[s] = cached[t] => cached[s] = 0 \/ s = t
    /\ \A s \in Subs, x \in Sessions :
         cached[s] = session[x].array => cached[s] = 0 \/ session[x].sub = s
    /\ \A x, y \in Sessions :
         session[x].array = session[y].array =>
           session[x].array = 0 \/ session[x].sub = session[y].sub

\* Without subjects, the environment is set before anything says configured, and what
\* it is set to can be reloaded.
Backed ==
  ~multi =>
    /\ state = "configured" => env # NoString
    /\ env # NoString => Reloads(env, deployed)
    /\ config # NoString => Reloads(config, deployed)
    /\ \A k \in Calls :
         /\ call[k].pc \in {"asking", "polling"} => env # NoString
         /\ call[k].pc \in {"writing", "written", "reloading"} => Reloads(call[k].string, deployed)
         /\ call[k].pc = "resolved" => call[k].string = NoString \/ Reloads(call[k].string, deployed)

LifecycleInv ==
  /\ TypeOK
  /\ Confined
  /\ Unshared
  /\ Backed

-----------------------------------------------------------------------------

\* No request and no session are values of their types.
LEMMA IdleType ==
  /\ Idle \in Call /\ Idle.pc = "idle"
  /\ Closed \in Session /\ Closed.array = 0 /\ ~Closed.forgot
BY DEF Idle, Call, Pc, String, NoString, Closed, Session

\* What a string is read as.
LEMMA ParsedType ==
  ASSUME NEW string \in String
  PROVE  Parsed(string) \in List
BY LifecycleBounds DEF String, List, Parsed

LEMMA ParsedPart ==
  ASSUME NEW whole, NEW part \in SUBSET whole
  PROVE  Parsed(part) \subseteq Parsed(whole)
BY DEF Parsed

\* What resolveCredentialState finds can be reloaded.
LEMMA SavedReloads ==
  ASSUME TypeOK, NEW readable \in BOOLEAN
  PROVE  /\ Saved(readable) \in String
         /\ ~multi /\ Backed => Saved(readable) = NoString \/ Reloads(Saved(readable), deployed)
         /\ multi /\ Confined => Saved(readable) = NoString
<1> DEFINE listed == {OAuth2[e] : e \in tokens}
<1>1. listed \subseteq {OAuth2[e] : e \in Outlook} /\ listed \in String
  BY LifecycleBounds DEF TypeOK, String
<1>2. Saved(readable) = config \/ Saved(readable) = listed
  BY DEF Saved
<1>3. multi /\ Confined => listed = NoString /\ config = NoString
  BY DEF Confined, SharedConfined, SubsConfined, SessionsConfined, CallsConfined,
     NoString
<1>4. Saved(readable) = config => config \in String
  BY DEF TypeOK
<1>5. ~multi /\ Backed => Saved(readable) = NoString \/ Reloads(Saved(readable), deployed)
  BY <1>1, <1>2 DEF Backed, Reloads
<1>6. QED
  BY <1>1, <1>2, <1>3, <1>4, <1>5

\* The server starts in the invariant.
LEMMA InitInv == Init => LifecycleInv
<1> SUFFICES ASSUME Init PROVE LifecycleInv
  OBVIOUS
<1>1. deployed \in String /\ Parsed(deployed) \in List /\ state \in States
  BY LifecycleBounds, ParsedType DEF Init, String, States, Found
<1>2. TypeOK
  BY <1>1, IdleType, LifecycleBounds DEF Init, TypeOK, List, String, NoString
<1>3. Confined
  BY IdleType DEF Init, Confined, SharedConfined, SubsConfined, SessionsConfined,
     CallsConfined
<1>4. Unshared
  BY IdleType, LifecycleBounds DEF Init, Unshared
<1>5. Backed
  BY IdleType DEF Init, Backed, Found, Reloads
<1>6. QED
  BY <1>2, <1>3, <1>4, <1>5 DEF LifecycleInv

\* What the steps of a call do to call.
LEMMA AwaitStep ==
  ASSUME TypeOK, NEW k \in Calls, NEW pc \in Pc, NEW x \in Sessions \cup {None},
         NEW s \in Subs \cup {None}, NEW l \in String, Await(k, pc, x, s, l)
  PROVE  /\ call[k].pc = "idle"
         /\ call' \in [Calls -> Call]
         /\ call'[k] = [pc |-> pc, of |-> x, sub |-> s, string |-> l]
         /\ \A j \in Calls : j # k => call'[j] = call[j]
BY DEF TypeOK, Await, Call

LEMMA ContinueStep ==
  ASSUME TypeOK, NEW k \in Calls, NEW from, NEW to \in Pc, Continue(k, from, to)
  PROVE  /\ call[k].pc = from /\ call[k].string \in String
         /\ call' \in [Calls -> Call]
         /\ call'[k] = [pc |-> to, of |-> call[k].of,
                        sub |-> call[k].sub, string |-> call[k].string]
         /\ \A j \in Calls : j # k => call'[j] = call[j]
BY DEF TypeOK, Continue, Call

LEMMA EndStep ==
  ASSUME TypeOK, NEW k \in Calls, NEW from, End(k, from)
  PROVE  /\ call[k].pc = from /\ call[k].string \in String
         /\ call' \in [Calls -> Call]
         /\ call'[k] = Idle
         /\ \A j \in Calls : j # k => call'[j] = call[j]
BY IdleType DEF TypeOK, End, Call, String

\* Opening and closing a session keeps the invariant.
LEMMA OpenInv == LifecycleInv /\ Open => LifecycleInv'
<1> SUFFICES ASSUME LifecycleInv, Open PROVE LifecycleInv'
  OBVIOUS
<1>0. TypeOK /\ Confined /\ Unshared /\ Backed
  BY DEF LifecycleInv
<1>1. ASSUME NEW x \in Sessions,
              OpenAnonymous(x)
       PROVE  LifecycleInv'
  <2>1. TypeOK'
    BY <1>0, <1>1 DEF TypeOK, OpenAnonymous, setting, disk, Opens, Session, Closed,
       Call
  <2>2. Confined'
    BY <1>0, <1>1 DEF Confined, SharedConfined, SubsConfined, SessionsConfined,
       CallsConfined, OpenAnonymous, setting
  <2>3. Unshared'
    BY <1>0, <1>1 DEF Unshared, OpenAnonymous, setting
  <2>4. Backed'
    BY <1>0, <1>1 DEF Backed, OpenAnonymous, setting, disk, TypeOK
  <2>5. QED
    BY <2>1, <2>2, <2>3, <2>4 DEF LifecycleInv
<1>2. ASSUME NEW x \in Sessions, NEW s \in Subs,
              OpenCached(x, s)
       PROVE  LifecycleInv'
  <2>1. TypeOK'
    BY <1>0, <1>2, LifecycleBounds DEF TypeOK, OpenCached, setting, disk, Opens,
       Quiet, Session
  <2>2. Confined'
    BY <1>0, <1>2 DEF Confined, SharedConfined, SubsConfined, SessionsConfined,
       CallsConfined, OpenCached, setting, disk, Opens
  <2>3. Unshared'
    BY <1>0, <1>2 DEF Unshared, OpenCached, Opens
  <2>4. Backed'
    BY <1>0, <1>2 DEF Backed, OpenCached, setting, disk, TypeOK
  <2>5. QED
    BY <2>1, <2>2, <2>3, <2>4 DEF LifecycleInv
<1>3. ASSUME NEW k \in Calls, NEW x \in Sessions, NEW s \in Subs,
              StartOpen(k, x, s)
       PROVE  LifecycleInv'
  <2>1. /\ Await(k, "opening", x, s, NoString)
        /\ "opening" \in Pc /\ x \in Sessions \cup {None}
        /\ s \in Subs \cup {None} /\ NoString \in String
    BY <1>0, <1>3 DEF StartOpen, Pc, String, NoString
  <2>2. /\ call[k].pc = "idle" /\ call' \in [Calls -> Call]
        /\ call'[k] = [pc |-> "opening", of |-> x, sub |-> s, string |-> NoString]
        /\ \A j \in Calls : j # k => call'[j] = call[j]
    BY <1>0, <2>1, AwaitStep
  <2>3. TypeOK'
    BY <1>0, <1>3, <2>2, LifecycleBounds DEF TypeOK, StartOpen, setting, disk
  <2>4. Confined'
    BY <1>0, <1>3, <2>2 DEF Confined, SharedConfined, SubsConfined,
       SessionsConfined, CallsConfined, StartOpen, setting, disk
  <2>5. Unshared'
    BY <1>0, <1>3, <2>2 DEF Unshared, StartOpen
  <2>6. Backed'
    BY <1>0, <1>3, <2>2 DEF Backed, StartOpen, setting, disk, TypeOK
  <2>7. QED
    BY <2>3, <2>4, <2>5, <2>6 DEF LifecycleInv
<1>4. ASSUME NEW k \in Calls, NEW a \in Arrays, NEW ok \in BOOLEAN,
              Opened(k, a, ok)
       PROVE  LifecycleInv'
  <2>1. /\ call[k].pc = "opening" /\ call[k].string \in String /\ call' \in [Calls -> Call]
        /\ call'[k] = Idle
        /\ \A j \in Calls : j # k => call'[j] = call[j]
    BY <1>0, <1>4, EndStep DEF Opened
  <2>2. /\ call[k].of \in Sessions /\ call[k].sub \in Subs
        /\ session[call[k].of] = Closed
        /\ session' \in [Sessions -> Session]
        /\ session'[call[k].of] = [array |-> a, sub |-> call[k].sub, forgot |-> FALSE]
        /\ \A y \in Sessions : y # call[k].of => session'[y] = session[y]
        /\ content' \in [Arrays -> List] /\ cached' \in [Subs -> Arrays \cup {0}]
        /\ call[k].sub # None /\ multi
    BY <1>0, <1>4, <2>1 DEF Opened, Opens, TypeOK, Call, Session, List
  <2>3. TypeOK'
    BY <1>0, <1>4, <2>1, <2>2, IdleType DEF TypeOK, Opened, setting, disk, Opens, New,
       Referenced
  <2>4. Confined'
    <3>1. SharedConfined'
      BY <1>0, <1>4, <2>1, <2>2, IdleType DEF Confined, SharedConfined, Opened,
         setting, disk, New, Referenced
    <3>2. SubsConfined'
      BY <1>0, <1>4, <2>1, <2>2, IdleType DEF Confined, SubsConfined, Opened,
         setting, disk, New, Referenced
    <3>3. SessionsConfined'
      <4>1. content'[a] \subseteq Rightful(call[k].sub)
        BY <1>0, <1>4, <2>2 DEF Confined, SubsConfined, Opened, TypeOK, New
      <4>2. \A b \in Arrays : b # a => content'[b] = content[b]
        BY <1>0, <1>4 DEF Opened, TypeOK
      <4>3. \A y \in Sessions : session[y].array # a
        BY <1>4 DEF Opened, New, Referenced
      <4>4. \A y \in Sessions : session[y].array \in Arrays \cup {0}
        BY <1>0 DEF TypeOK, Session
      <4>5. deployed' = deployed /\ multi' = multi
        BY <1>4 DEF Opened, setting
      <4>6. QED
        BY <1>0, <2>2, <4>1, <4>2, <4>3, <4>4, <4>5 DEF Confined, SessionsConfined
    <3>4. CallsConfined'
      BY <1>0, <1>4, <2>1, <2>2, IdleType DEF Confined, CallsConfined, Opened,
         setting, disk, New, Referenced
    <3>5. QED
      BY <3>1, <3>2, <3>3, <3>4 DEF Confined
  <2>5. Unshared'
    BY <1>0, <1>4, <2>1, <2>2 DEF Unshared, Opened, New, Referenced
  <2>6. Backed'
    BY <1>0, <1>4, <2>1, <2>2 DEF Backed, Opened, setting, disk, TypeOK
  <2>7. QED
    BY <2>3, <2>4, <2>5, <2>6 DEF LifecycleInv
<1>5. ASSUME NEW x \in Sessions,
              Close(x)
       PROVE  LifecycleInv'
  <2>1. TypeOK'
    BY <1>0, <1>5 DEF TypeOK, Close, setting, disk, Quiet, Session, Closed, Call
  <2>2. Confined'
    BY <1>0, <1>5 DEF Confined, SharedConfined, SubsConfined, SessionsConfined,
       CallsConfined, Close, setting, disk, Closed
  <2>3. Unshared'
    BY <1>0, <1>5, LifecycleBounds DEF Unshared, Close, setting, TypeOK, Closed
  <2>4. Backed'
    BY <1>0, <1>5 DEF Backed, Close, setting, disk, TypeOK
  <2>5. QED
    BY <2>1, <2>2, <2>3, <2>4 DEF LifecycleInv
<1>6. QED
  BY <1>1, <1>2, <1>3, <1>4, <1>5 DEF Open

\* The steps of a submitted credential form keep the invariant.
LEMMA FormInv == LifecycleInv /\ Form => LifecycleInv'
<1> SUFFICES ASSUME LifecycleInv, Form PROVE LifecycleInv'
  OBVIOUS
<1>0. TypeOK /\ Confined /\ Unshared /\ Backed
  BY DEF LifecycleInv
<1>1. ASSUME NEW k \in Calls, NEW s \in Subs, NEW l \in Forms, NEW a \in Arrays,
              SubmitAs(k, s, l, a)
       PROVE  LifecycleInv'
  <2>1. /\ Await(k, "writing", None, s, l)
        /\ "writing" \in Pc /\ None \in Sessions \cup {None}
        /\ s \in Subs \cup {None} /\ l \in String
    BY <1>0, <1>1, LifecycleBounds DEF SubmitAs, Pc, String, NoString
  <2>2. /\ call[k].pc = "idle" /\ call' \in [Calls -> Call]
        /\ call'[k] = [pc |-> "writing", of |-> None, sub |-> s, string |-> l]
        /\ \A j \in Calls : j # k => call'[j] = call[j]
    BY <1>0, <2>1, AwaitStep
  <2>a. Parsed(l) \in List
    BY <2>1, ParsedType
  <2>b. Parsed(l) \subseteq Rightful(s)
    BY <1>1 DEF SubmitAs, Passes, Rightful
  <2>3. TypeOK'
    BY <1>0, <1>1, <2>2, <2>a, LifecycleBounds DEF TypeOK, SubmitAs, setting, disk
  <2>4. Confined'
    <3>1. SharedConfined'
      BY <1>0, <1>1, <2>2, <2>b DEF Confined, SharedConfined, SubmitAs, setting,
         disk, New, Referenced, TypeOK
    <3>2. SubsConfined'
      BY <1>0, <1>1, <2>2, <2>b DEF Confined, SubsConfined, SubmitAs, setting, disk,
         New, Referenced, TypeOK
    <3>3. SessionsConfined'
      BY <1>0, <1>1, <2>2, <2>b DEF Confined, SessionsConfined, SubmitAs, setting,
         disk, New, Referenced, TypeOK
    <3>4. CallsConfined'
      <4>1. deployed' = deployed /\ multi' = multi
        BY <1>1 DEF SubmitAs, setting
      <4>2. /\ call'[k].pc = "writing" /\ call'[k].sub = s /\ call'[k].string = l
        BY <2>2
      <4>3. Parsed(call'[k].string) \subseteq Rightful(call'[k].sub)
        BY <2>b, <4>2
      <4>4. QED
        BY <1>0, <2>2, <4>1, <4>2, <4>3 DEF Confined, CallsConfined
    <3>5. QED
      BY <3>1, <3>2, <3>3, <3>4 DEF Confined
  <2>5. Unshared'
    BY <1>0, <1>1, <2>2 DEF Unshared, SubmitAs, New, Referenced
  <2>6. Backed'
    BY <1>0, <1>1, <2>2 DEF Backed, SubmitAs, setting, disk, TypeOK
  <2>7. QED
    BY <2>3, <2>4, <2>5, <2>6 DEF LifecycleInv
<1>2. ASSUME NEW k \in Calls, NEW l \in Forms,
              SubmitAnonymous(k, l)
       PROVE  LifecycleInv'
  <2>1. /\ Await(k, "writing", None, None, l)
        /\ "writing" \in Pc /\ None \in Sessions \cup {None}
        /\ None \in Subs \cup {None} /\ l \in String
    BY <1>0, <1>2, LifecycleBounds DEF SubmitAnonymous, Pc, String, NoString
  <2>2. /\ call[k].pc = "idle" /\ call' \in [Calls -> Call]
        /\ call'[k] = [pc |-> "writing", of |-> None, sub |-> None, string |-> l]
        /\ \A j \in Calls : j # k => call'[j] = call[j]
    BY <1>0, <2>1, AwaitStep
  <2>3. Reloads(l, deployed) /\ ~multi
    BY <1>2 DEF SubmitAnonymous, Accepted, Reloads, Parsed, NoString
  <2>4. TypeOK'
    BY <1>0, <1>2, <2>2, <2>3 DEF TypeOK, SubmitAnonymous, setting, disk
  <2>5. Confined'
    BY <1>0, <1>2, <2>2, <2>3 DEF Confined, SharedConfined, SubsConfined,
       SessionsConfined, CallsConfined, SubmitAnonymous, setting
  <2>6. Unshared'
    BY <1>0, <1>2, <2>2, <2>3 DEF Unshared, SubmitAnonymous, setting
  <2>7. Backed'
    BY <1>0, <1>2, <2>2, <2>3 DEF Backed, SubmitAnonymous, setting, disk, TypeOK
  <2>8. QED
    BY <2>4, <2>5, <2>6, <2>7 DEF LifecycleInv
<1>3. ASSUME NEW k \in Calls,
              Stored(k)
       PROVE  LifecycleInv'
  <2>1. /\ call[k].pc = "writing" /\ call[k].string \in String /\ call' \in [Calls -> Call]
        /\ call'[k] = [pc |-> "written", of |-> call[k].of,
                       sub |-> call[k].sub, string |-> call[k].string]
        /\ \A j \in Calls : j # k => call'[j] = call[j]
    BY <1>0, <1>3, ContinueStep DEF Stored, Pc
  <2>a. Parsed(call[k].string) \in List
    BY <2>1, ParsedType
  <2>2. TypeOK'
    BY <1>0, <1>3, <2>1, <2>a DEF TypeOK, Stored, setting
  <2>3. Confined'
    <3>1. SharedConfined'
      BY <1>0, <1>3, <2>1 DEF Confined, SharedConfined, Stored, setting, TypeOK
    <3>2. SubsConfined'
      <4>1. multi => /\ kv' = [kv EXCEPT ![call[k].sub] = Parsed(call[k].string)]
                      /\ Parsed(call[k].string) \subseteq Rightful(call[k].sub)
        BY <1>0, <1>3, <2>1 DEF Confined, CallsConfined, Stored
      <4>2. UNCHANGED <<multi, cached, content>>
        BY <1>3 DEF Stored, setting
      <4>3. \A t \in Subs : multi => kv'[t] \subseteq Rightful(t)
        BY <1>0, <4>1 DEF Confined, SubsConfined, TypeOK
      <4>4. QED
        BY <1>0, <4>2, <4>3 DEF Confined, SubsConfined
    <3>3. SessionsConfined'
      BY <1>0, <1>3, <2>1 DEF Confined, SessionsConfined, Stored, setting, TypeOK
    <3>4. CallsConfined'
      <4>1. deployed' = deployed /\ multi' = multi
        BY <1>3 DEF Stored, setting
      <4>2. /\ call'[k].sub = call[k].sub /\ call'[k].string = call[k].string
            /\ call'[k].pc = "written"
        BY <2>1
      <4>3. multi => Parsed(call'[k].string) \subseteq Rightful(call'[k].sub)
        BY <1>0, <2>1, <4>2 DEF Confined, CallsConfined
      <4>4. QED
        BY <1>0, <2>1, <4>1, <4>2, <4>3 DEF Confined, CallsConfined
    <3>5. QED
      BY <3>1, <3>2, <3>3, <3>4 DEF Confined
  <2>4. Unshared'
    BY <1>0, <1>3, <2>1 DEF Unshared, Stored, setting
  <2>5. Backed'
    BY <1>0, <1>3, <2>1 DEF Backed, Stored, setting, disk, TypeOK
  <2>6. QED
    BY <2>2, <2>3, <2>4, <2>5 DEF LifecycleInv
<1>4. ASSUME NEW k \in Calls,
              StoreFails(k)
       PROVE  LifecycleInv'
  <2>1. /\ call[k].pc = "writing" /\ call[k].string \in String /\ call' \in [Calls -> Call]
        /\ \/ call'[k] = Idle
           \/ call'[k] = [pc |-> "written", of |-> call[k].of,
                          sub |-> call[k].sub, string |-> call[k].string]
        /\ \A j \in Calls : j # k => call'[j] = call[j]
    BY <1>0, <1>4, EndStep, ContinueStep DEF StoreFails, Pc
  <2>2. TypeOK'
    BY <1>0, <1>4, <2>1, IdleType DEF TypeOK, StoreFails, setting, disk
  <2>3. Confined'
    BY <1>0, <1>4, <2>1, IdleType DEF Confined, SharedConfined, SubsConfined,
       SessionsConfined, CallsConfined, StoreFails, setting, disk
  <2>4. Unshared'
    BY <1>0, <1>4, <2>1 DEF Unshared, StoreFails, setting
  <2>5. Backed'
    BY <1>0, <1>4, <2>1, IdleType DEF Backed, StoreFails, setting, disk, TypeOK
  <2>6. QED
    BY <2>2, <2>3, <2>4, <2>5 DEF LifecycleInv
<1>5. ASSUME NEW k \in Calls, NEW a \in Arrays,
              Accept(k, a)
       PROVE  LifecycleInv'
  <2>1. /\ call[k].pc = "written" /\ call[k].string \in String /\ call' \in [Calls -> Call]
        /\ \/ call'[k] = Idle
           \/ call'[k] = [pc |-> "asking", of |-> call[k].of,
                          sub |-> call[k].sub, string |-> call[k].string]
        /\ \A j \in Calls : j # k => call'[j] = call[j]
    BY <1>0, <1>5, EndStep, ContinueStep DEF Accept, Pc, SignIn
  <2>2. /\ state' \in States /\ New(a)
        /\ multi => UNCHANGED <<env, current, content, session>>
        /\ ~multi => /\ env' = call[k].string /\ current' = a
                     /\ content' = [content EXCEPT ![a] = Parsed(call[k].string)]
                     /\ session' = [x \in Sessions |-> [session[x] EXCEPT !.forgot = FALSE]]
    BY <1>0, <1>5, <2>1 DEF Accept, SignIn, TypeOK, States
  <2>3. ~multi => \A x \in Sessions :
          session'[x] =
            [array |-> session[x].array, sub |-> session[x].sub, forgot |-> FALSE]
    BY <1>0, <1>5, <2>1, <2>2 DEF Accept, TypeOK, Session
  <2>4. /\ session' \in [Sessions -> Session]
        /\ \A x \in Sessions :
             session'[x].array = session[x].array /\ session'[x].sub = session[x].sub
    <3>1. CASE multi
      BY <1>0, <2>2, <3>1 DEF TypeOK
    <3>2. CASE ~multi
      <4>1. \A x \in Sessions : session[x] \in Session
        BY <1>0 DEF TypeOK
      <4>2. \A x \in Sessions : [session[x] EXCEPT !.forgot = FALSE] \in Session
        BY <4>1 DEF Session
      <4>3. QED
        BY <2>2, <2>3, <3>2, <4>2
    <3>3. QED
      BY <3>1, <3>2
  <2>5. \A x \in Sessions : session[x] = Closed => session'[x] = Closed
    BY <1>0, <1>5, <2>1, <2>2, <2>3, <2>4 DEF Accept, Closed
  <2>a. Parsed(call[k].string) \in List
    BY <2>1, ParsedType
  <2>6. content' \in [Arrays -> List] /\ current' \in Arrays /\ env' \in String
    BY <1>0, <1>5, <2>1, <2>a, <2>2, <2>3, <2>4, <2>5 DEF Accept, TypeOK
  <2>7. TypeOK'
    <3>1. UNCHANGED <<multi, deployed, config, tokens, kv, cached>>
      BY <1>5 DEF Accept, setting, disk
    <3>2. \A x \in Sessions :
            IF session'[x].array = 0 THEN session'[x] = Closed
                                     ELSE session'[x].sub # None <=> multi
      BY <1>0, <2>4, <2>5 DEF TypeOK
    <3>3. call'[k].pc \in {"idle", "asking"}
      BY <2>1, IdleType
    <3>4. ASSUME NEW j \in Calls, call'[j].pc \in {"reloading", "clearing", "deleting"}
          PROVE  /\ call'[j].of # None
                 /\ session'[call'[j].of].array # 0
                 /\ session'[call'[j].of].sub = call'[j].sub
      <4>1. call'[j] = call[j] /\ call[j] \in Call
        BY <1>0, <2>1, <3>3, <3>4
      <4>2. call[j].of \in Sessions
        BY <1>0, <3>4, <4>1 DEF TypeOK, Call
      <4>3. QED
        BY <1>0, <2>4, <3>4, <4>1, <4>2 DEF TypeOK
    <3>5. /\ \A j \in Calls : call'[j].pc \in {"writing", "written"} =>
               (call'[j].sub # None <=> multi)
          /\ \A j \in Calls : call'[j].pc \in {"opening", "clearing"} =>
               multi /\ call'[j].of # None /\ call'[j].sub # None
      BY <1>0, <2>1, <3>3 DEF TypeOK
    <3>6. QED
      BY <1>0, <2>1, <2>2, <2>4, <2>6, <3>1, <3>2, <3>4, <3>5 DEF TypeOK
  <2>8. Confined'
    <3>1. SharedConfined'
      BY <1>0, <1>5, <2>1, <2>2, <2>3, <2>4, <2>5, <2>6, IdleType DEF Confined,
         SharedConfined, Accept, setting, disk
    <3>2. SubsConfined'
      BY <1>0, <1>5, <2>1, <2>2, <2>3, <2>4, <2>5, <2>6, IdleType DEF Confined,
         SubsConfined, Accept, setting, disk
    <3>3. SessionsConfined'
      BY <1>0, <1>5, <2>1, <2>2, <2>3, <2>4, <2>5, <2>6, IdleType DEF Confined,
         SessionsConfined, Accept, setting, disk
    <3>4. CallsConfined'
      BY <1>0, <1>5, <2>1, <2>2, <2>3, <2>4, <2>5, <2>6, IdleType DEF Confined,
         CallsConfined, Accept, setting, disk
    <3>5. QED
      BY <3>1, <3>2, <3>3, <3>4 DEF Confined
  <2>9. Unshared'
    BY <1>0, <1>5, <2>1, <2>2, <2>3, <2>4, <2>5, <2>6 DEF Unshared, Accept, setting
  <2>10. Backed'
    <3>1. UNCHANGED <<multi, deployed, config>>
      BY <1>5 DEF Accept, setting, disk
    <3>2. ~multi => /\ env' = call[k].string
                    /\ Reloads(call[k].string, deployed) /\ call[k].string # NoString
      BY <1>0, <1>5, <2>1 DEF Backed, Accept, Reloads
    <3>3. call'[k].pc \in {"idle", "asking"}
      BY <2>1, IdleType
    <3>4. QED
      BY <1>0, <2>1, <3>1, <3>2, <3>3 DEF Backed
  <2>11. QED
    BY <2>7, <2>8, <2>9, <2>10 DEF LifecycleInv
<1>6. ASSUME NEW k \in Calls,
              Asked(k)
       PROVE  LifecycleInv'
  <2>1. /\ call[k].pc = "asking" /\ call[k].string \in String /\ call' \in [Calls -> Call]
        /\ call'[k] = [pc |-> "polling", of |-> call[k].of,
                       sub |-> call[k].sub, string |-> call[k].string]
        /\ \A j \in Calls : j # k => call'[j] = call[j]
    BY <1>0, <1>6, ContinueStep DEF Asked, Pc
  <2>2. TypeOK'
    BY <1>0, <1>6, <2>1 DEF TypeOK, Asked, setting, disk, States
  <2>3. Confined'
    BY <1>0, <1>6, <2>1 DEF Confined, SharedConfined, SubsConfined,
       SessionsConfined, CallsConfined, Asked, setting, disk
  <2>4. Unshared'
    BY <1>0, <1>6, <2>1 DEF Unshared, Asked, setting
  <2>5. Backed'
    BY <1>0, <1>6, <2>1 DEF Backed, Asked, setting, disk, TypeOK
  <2>6. QED
    BY <2>2, <2>3, <2>4, <2>5 DEF LifecycleInv
<1>7. ASSUME NEW k \in Calls,
              AskFails(k)
       PROVE  LifecycleInv'
  <2>1. /\ call[k].pc = "asking" /\ call[k].string \in String /\ call' \in [Calls -> Call]
        /\ call'[k] = Idle
        /\ \A j \in Calls : j # k => call'[j] = call[j]
    BY <1>0, <1>7, EndStep DEF AskFails
  <2>2. TypeOK'
    BY <1>0, <1>7, <2>1, IdleType DEF TypeOK, AskFails, setting, disk
  <2>3. Confined'
    BY <1>0, <1>7, <2>1, IdleType DEF Confined, SharedConfined, SubsConfined,
       SessionsConfined, CallsConfined, AskFails, setting, disk
  <2>4. Unshared'
    BY <1>0, <1>7, <2>1 DEF Unshared, AskFails, setting
  <2>5. Backed'
    BY <1>0, <1>7, <2>1, IdleType DEF Backed, AskFails, setting, disk, TypeOK
  <2>6. QED
    BY <2>2, <2>3, <2>4, <2>5 DEF LifecycleInv
<1>8. ASSUME NEW k \in Calls,
              PollEnds(k)
       PROVE  LifecycleInv'
  <2>1. /\ call[k].pc = "polling" /\ call[k].string \in String /\ call' \in [Calls -> Call]
        /\ call'[k] = Idle
        /\ \A j \in Calls : j # k => call'[j] = call[j]
    BY <1>0, <1>8, EndStep DEF PollEnds
  <2>2. TypeOK'
    BY <1>0, <1>8, <2>1, IdleType DEF TypeOK, PollEnds, setting, disk
  <2>3. Confined'
    BY <1>0, <1>8, <2>1, IdleType DEF Confined, SharedConfined, SubsConfined,
       SessionsConfined, CallsConfined, PollEnds, setting, disk
  <2>4. Unshared'
    BY <1>0, <1>8, <2>1 DEF Unshared, PollEnds, setting
  <2>5. Backed'
    BY <1>0, <1>8, <2>1, IdleType DEF Backed, PollEnds, setting, disk, TypeOK
  <2>6. QED
    BY <2>2, <2>3, <2>4, <2>5 DEF LifecycleInv
<1>9. ASSUME NEW k \in Calls, NEW e \in Mailboxes, NEW filed \in BOOLEAN,
              Granted(k, e, filed)
       PROVE  LifecycleInv'
  <2>1. /\ call[k].pc = "polling" /\ call[k].string \in String /\ call' \in [Calls -> Call]
        /\ call'[k] = Idle
        /\ \A j \in Calls : j # k => call'[j] = call[j]
    BY <1>0, <1>9, EndStep DEF Granted
  <2>2. TypeOK'
    BY <1>0, <1>9, <2>1, IdleType DEF TypeOK, Granted, setting, List, States
  <2>3. Confined'
    BY <1>0, <1>9, <2>1, IdleType DEF Confined, SharedConfined, SubsConfined,
       SessionsConfined, CallsConfined, Granted, setting
  <2>4. Unshared'
    BY <1>0, <1>9, <2>1 DEF Unshared, Granted, setting
  <2>5. Backed'
    BY <1>0, <1>9, <2>1, IdleType DEF Backed, Granted, setting, disk, TypeOK
  <2>6. QED
    BY <2>2, <2>3, <2>4, <2>5 DEF LifecycleInv
<1>10. QED
  BY <1>1, <1>2, <1>3, <1>4, <1>5, <1>6, <1>7, <1>8, <1>9 DEF Form

\* The steps of the setup tool keep the invariant.
LEMMA ToolInv == LifecycleInv /\ Tool => LifecycleInv'
<1> SUFFICES ASSUME LifecycleInv, Tool PROVE LifecycleInv'
  OBVIOUS
<1>0. TypeOK /\ Confined /\ Unshared /\ Backed
  BY DEF LifecycleInv
<1>1. ASSUME NEW k \in Calls, NEW x \in Sessions,
              StartReload(k, x)
       PROVE  LifecycleInv'
  <2>1. /\ Await(k, "reloading", x, session[x].sub, env)
        /\ "reloading" \in Pc /\ x \in Sessions \cup {None}
        /\ session[x].sub \in Subs \cup {None} /\ env \in String
    BY <1>0, <1>1 DEF StartReload, TypeOK, Pc, Session, NoString
  <2>2. /\ call[k].pc = "idle" /\ call' \in [Calls -> Call]
        /\ call'[k] = [pc |-> "reloading", of |-> x,
                       sub |-> session[x].sub, string |-> env]
        /\ \A j \in Calls : j # k => call'[j] = call[j]
    BY <1>0, <2>1, AwaitStep
  <2>3. TypeOK'
    BY <1>0, <1>1, <2>2, LifecycleBounds DEF TypeOK, StartReload, setting, disk
  <2>4. Confined'
    BY <1>0, <1>1, <2>2 DEF Confined, SharedConfined, SubsConfined,
       SessionsConfined, CallsConfined, StartReload, setting, disk
  <2>5. Unshared'
    BY <1>0, <1>1, <2>2 DEF Unshared, StartReload, setting
  <2>6. Backed'
    BY <1>0, <1>1, <2>2 DEF Backed, StartReload, setting, disk, TypeOK
  <2>7. QED
    BY <2>3, <2>4, <2>5, <2>6 DEF LifecycleInv
<1>2. ASSUME NEW k \in Calls, NEW a \in Arrays,
              Reloaded(k, a)
       PROVE  LifecycleInv'
  <2>1. /\ call[k].pc = "reloading" /\ call[k].string \in String
        /\ call' \in [Calls -> Call] /\ call'[k] = Idle
        /\ \A j \in Calls : j # k => call'[j] = call[j]
    BY <1>0, <1>2, EndStep DEF Reloaded
  <2>a. Parsed(call[k].string) \in List
    BY <2>1, ParsedType
  <2>b. multi => Parsed(call[k].string) \subseteq Parsed(deployed)
    BY <1>0, <2>1, ParsedPart DEF Confined, CallsConfined
  <2>2. /\ call[k].of \in Sessions /\ session[call[k].of].array # 0
        /\ session' \in [Sessions -> Session]
        /\ session'[call[k].of].array = a
        /\ session'[call[k].of].sub = session[call[k].of].sub
        /\ \A y \in Sessions : y # call[k].of => session'[y] = session[y]
        /\ content' \in [Arrays -> List]
    BY <1>0, <1>2, <2>1, <2>a, IdleType DEF Reloaded, TypeOK, Call, Session
  <2>3. TypeOK'
    BY <1>0, <1>2, <2>1, <2>2, IdleType, LifecycleBounds DEF TypeOK, Reloaded,
       setting, disk
  <2>4. Confined'
    <3>1. SharedConfined'
      BY <1>0, <1>2, <2>1, <2>2, <2>b, IdleType DEF Confined, SharedConfined,
         Reloaded, setting, disk, New, Referenced
    <3>2. SubsConfined'
      BY <1>0, <1>2, <2>1, <2>2, <2>b, IdleType DEF Confined, SubsConfined,
         Reloaded, setting, disk, New, Referenced
    <3>3. SessionsConfined'
      BY <1>0, <1>2, <2>1, <2>2, <2>b, IdleType DEF Confined, SessionsConfined,
         Reloaded, setting, disk, New, Referenced
    <3>4. CallsConfined'
      BY <1>0, <1>2, <2>1, <2>2, <2>b, IdleType DEF Confined, CallsConfined,
         Reloaded, setting, disk, New, Referenced
    <3>5. QED
      BY <3>1, <3>2, <3>3, <3>4 DEF Confined
  <2>5. Unshared'
    BY <1>0, <1>2, <2>1, <2>2 DEF Unshared, Reloaded, setting, New, Referenced
  <2>6. Backed'
    BY <1>0, <1>2, <2>1, <2>2, IdleType DEF Backed, Reloaded, setting, disk, TypeOK
  <2>7. QED
    BY <2>3, <2>4, <2>5, <2>6 DEF LifecycleInv
<1>3. ASSUME NEW k \in Calls, NEW x \in Sessions,
              StartReset(k, x)
       PROVE  LifecycleInv'
  <2>1. /\ Await(k, IF multi THEN "clearing" ELSE "deleting", x, session[x].sub, NoString)
        /\ (IF multi THEN "clearing" ELSE "deleting") \in Pc
        /\ x \in Sessions \cup {None}
        /\ session[x].sub \in Subs \cup {None} /\ NoString \in String
    BY <1>0, <1>3 DEF StartReset, TypeOK, Pc, Session, String, NoString
  <2>2. /\ call[k].pc = "idle" /\ call' \in [Calls -> Call]
        /\ call'[k] = [pc |-> IF multi THEN "clearing" ELSE "deleting", of |-> x,
                       sub |-> session[x].sub, string |-> NoString]
        /\ \A j \in Calls : j # k => call'[j] = call[j]
    BY <1>0, <2>1, AwaitStep
  <2>3. /\ \A s \in Subs : cached'[s] = cached[s] \/ cached'[s] = 0
        /\ 0 # current
    BY <1>0, <1>3, <2>2, LifecycleBounds DEF StartReset, TypeOK
  <2>4. TypeOK'
    BY <1>0, <1>3, <2>2, <2>3, LifecycleBounds DEF TypeOK, StartReset, setting, disk,
       States
  <2>5. Confined'
    BY <1>0, <1>3, <2>2, <2>3 DEF Confined, SharedConfined, SubsConfined,
       SessionsConfined, CallsConfined, StartReset, setting, disk
  <2>6. Unshared'
    BY <1>0, <1>3, <2>2, <2>3 DEF Unshared, StartReset, setting
  <2>7. Backed'
    BY <1>0, <1>3, <2>2, <2>3 DEF Backed, StartReset, setting, disk, TypeOK
  <2>8. QED
    BY <2>4, <2>5, <2>6, <2>7 DEF LifecycleInv
<1>4. ASSUME NEW k \in Calls,
              Cleared(k)
       PROVE  LifecycleInv'
  <2>1. /\ call[k].pc = "clearing" /\ call[k].string \in String /\ call' \in [Calls -> Call]
        /\ call'[k] = [pc |-> "deleting", of |-> call[k].of,
                       sub |-> call[k].sub, string |-> call[k].string]
        /\ \A j \in Calls : j # k => call'[j] = call[j]
    BY <1>0, <1>4, ContinueStep DEF Cleared, Pc
  <2>2. kv' \in [Subs -> List]
    BY <1>0, <1>4, <2>1 DEF Cleared, TypeOK, List
  <2>3. TypeOK'
    BY <1>0, <1>4, <2>1, <2>2 DEF TypeOK, Cleared, setting, States
  <2>4. Confined'
    BY <1>0, <1>4, <2>1, <2>2 DEF Confined, SharedConfined, SubsConfined,
       SessionsConfined, CallsConfined, Cleared, setting
  <2>5. Unshared'
    BY <1>0, <1>4, <2>1, <2>2 DEF Unshared, Cleared, TypeOK
  <2>6. Backed'
    BY <1>0, <1>4, <2>1, <2>2 DEF Backed, Cleared, setting, disk, TypeOK
  <2>7. QED
    BY <2>3, <2>4, <2>5, <2>6 DEF LifecycleInv
<1>5. ASSUME NEW k \in Calls, NEW done \in BOOLEAN,
              ClearFails(k, done)
       PROVE  LifecycleInv'
  <2>1. /\ call[k].pc = "clearing" /\ call[k].string \in String /\ call' \in [Calls -> Call]
        /\ call'[k] = Idle
        /\ \A j \in Calls : j # k => call'[j] = call[j]
    BY <1>0, <1>5, EndStep DEF ClearFails
  <2>2. kv' \in [Subs -> List]
    BY <1>0, <1>5, <2>1 DEF ClearFails, TypeOK, List
  <2>3. TypeOK'
    BY <1>0, <1>5, <2>1, <2>2, IdleType DEF TypeOK, ClearFails, setting
  <2>4. Confined'
    BY <1>0, <1>5, <2>1, <2>2, IdleType DEF Confined, SharedConfined, SubsConfined,
       SessionsConfined, CallsConfined, ClearFails, setting
  <2>5. Unshared'
    BY <1>0, <1>5, <2>1, <2>2 DEF Unshared, ClearFails, TypeOK
  <2>6. Backed'
    BY <1>0, <1>5, <2>1, <2>2 DEF Backed, ClearFails, setting, TypeOK, disk
  <2>7. QED
    BY <2>3, <2>4, <2>5, <2>6 DEF LifecycleInv
<1>6. ASSUME NEW k \in Calls, NEW ok \in BOOLEAN,
              ResetDone(k, ok)
       PROVE  LifecycleInv'
  <2>1. /\ call[k].pc = "deleting" /\ call[k].string \in String /\ call' \in [Calls -> Call]
        /\ call'[k] = Idle
        /\ \A j \in Calls : j # k => call'[j] = call[j]
    BY <1>0, <1>6, EndStep DEF ResetDone
  <2>2. /\ call[k].of \in Sessions /\ session[call[k].of].array # 0
        /\ session' \in [Sessions -> Session]
        /\ session'[call[k].of].array = session[call[k].of].array
        /\ session'[call[k].of].sub = session[call[k].of].sub
        /\ \A y \in Sessions : y # call[k].of => session'[y] = session[y]
        /\ content' \in [Arrays -> List]
    BY <1>0, <1>6, <2>1, IdleType DEF ResetDone, TypeOK, Call, Session, List
  <2>3. TypeOK'
    BY <1>0, <1>6, <2>1, <2>2, IdleType DEF TypeOK, ResetDone, setting, NoString,
       String
  <2>4. Confined'
    <3>1. SharedConfined'
      BY <1>0, <1>6, <2>1, <2>2, IdleType DEF Confined, SharedConfined, ResetDone,
         setting
    <3>2. SubsConfined'
      BY <1>0, <1>6, <2>1, <2>2, IdleType DEF Confined, SubsConfined, ResetDone,
         setting
    <3>3. SessionsConfined'
      BY <1>0, <1>6, <2>1, <2>2, IdleType DEF Confined, SessionsConfined, ResetDone,
         setting
    <3>4. CallsConfined'
      BY <1>0, <1>6, <2>1, <2>2, IdleType DEF Confined, CallsConfined, ResetDone,
         setting
    <3>5. QED
      BY <3>1, <3>2, <3>3, <3>4 DEF Confined
  <2>5. Unshared'
    BY <1>0, <1>6, <2>1, <2>2 DEF Unshared, ResetDone, setting
  <2>6. Backed'
    BY <1>0, <1>6, <2>1, <2>2, IdleType DEF Backed, ResetDone, setting, disk, TypeOK
  <2>7. QED
    BY <2>3, <2>4, <2>5, <2>6 DEF LifecycleInv
<1>7. ASSUME CompleteAtOnce
       PROVE  LifecycleInv'
  <2>1. TypeOK'
    BY <1>0, <1>7 DEF TypeOK, CompleteAtOnce, setting, disk, States
  <2>2. Confined'
    BY <1>0, <1>7 DEF Confined, SharedConfined, SubsConfined, SessionsConfined,
       CallsConfined, CompleteAtOnce, setting, disk
  <2>3. Unshared'
    BY <1>0, <1>7 DEF Unshared, CompleteAtOnce, setting
  <2>4. Backed'
    BY <1>0, <1>7 DEF Backed, CompleteAtOnce, setting, disk, TypeOK
  <2>5. QED
    BY <2>1, <2>2, <2>3, <2>4 DEF LifecycleInv
<1>8. ASSUME NEW k \in Calls,
              StartComplete(k)
       PROVE  LifecycleInv'
  <2>1. /\ Await(k, "resolving", None, None, NoString)
        /\ "resolving" \in Pc /\ None \in Sessions \cup {None}
        /\ None \in Subs \cup {None} /\ NoString \in String
    BY <1>0, <1>8 DEF StartComplete, TypeOK, Pc, String, NoString
  <2>2. /\ call[k].pc = "idle" /\ call' \in [Calls -> Call]
        /\ call'[k] = [pc |-> "resolving", of |-> None, sub |-> None, string |-> NoString]
        /\ \A j \in Calls : j # k => call'[j] = call[j]
    BY <1>0, <2>1, AwaitStep
  <2>3. TypeOK'
    BY <1>0, <1>8, <2>2 DEF TypeOK, StartComplete, setting, disk
  <2>4. Confined'
    BY <1>0, <1>8, <2>2 DEF Confined, SharedConfined, SubsConfined,
       SessionsConfined, CallsConfined, StartComplete, setting, disk
  <2>5. Unshared'
    BY <1>0, <1>8, <2>2 DEF Unshared, StartComplete, setting
  <2>6. Backed'
    BY <1>0, <1>8, <2>2 DEF Backed, StartComplete, setting, disk, TypeOK
  <2>7. QED
    BY <2>3, <2>4, <2>5, <2>6 DEF LifecycleInv
<1>9. ASSUME NEW k \in Calls, NEW ok \in BOOLEAN,
              Resolve(k, ok)
       PROVE  LifecycleInv'
  <2>1. /\ call[k].pc = "resolving" /\ call' \in [Calls -> Call]
        /\ call'[k] = [pc |-> "resolved", of |-> call[k].of,
                       sub |-> call[k].sub, string |-> Saved(ok)]
        /\ \A j \in Calls : j # k => call'[j] = call[j]
    BY <1>0, <1>9, SavedReloads DEF Resolve, TypeOK, Call, Pc
  <2>a. /\ ~multi => Saved(ok) = NoString \/ Reloads(Saved(ok), deployed)
        /\ multi => Saved(ok) = NoString
    BY <1>0, SavedReloads
  <2>2. TypeOK'
    BY <1>0, <1>9, <2>1 DEF TypeOK, Resolve, setting, disk
  <2>3. Confined'
    BY <1>0, <1>9, <2>1, <2>a DEF Confined, SharedConfined, SubsConfined,
       SessionsConfined, CallsConfined, Resolve, setting, disk, NoString
  <2>4. Unshared'
    BY <1>0, <1>9, <2>1 DEF Unshared, Resolve, setting
  <2>5. Backed'
    BY <1>0, <1>9, <2>1, <2>a DEF Backed, Resolve, setting, disk, TypeOK
  <2>6. QED
    BY <2>2, <2>3, <2>4, <2>5 DEF LifecycleInv
<1>10. ASSUME NEW k \in Calls,
              Resolved(k)
       PROVE  LifecycleInv'
  <2>1. /\ call[k].pc = "resolved" /\ call[k].string \in String /\ call' \in [Calls -> Call]
        /\ call'[k] = Idle
        /\ \A j \in Calls : j # k => call'[j] = call[j]
    BY <1>0, <1>10, EndStep DEF Resolved
  <2>2. TypeOK'
    BY <1>0, <1>10, <2>1, IdleType DEF TypeOK, Resolved, setting, disk, Found, States
  <2>3. Confined'
    BY <1>0, <1>10, <2>1, IdleType DEF Confined, SharedConfined, SubsConfined,
       SessionsConfined, CallsConfined, Resolved, setting, disk
  <2>4. Unshared'
    BY <1>0, <1>10, <2>1 DEF Unshared, Resolved, setting
  <2>5. Backed'
    BY <1>0, <1>10, <2>1, IdleType DEF Backed, Resolved, setting, Found, disk, TypeOK
  <2>6. QED
    BY <2>2, <2>3, <2>4, <2>5 DEF LifecycleInv
<1>11. QED
  BY <1>1, <1>2, <1>3, <1>4, <1>5, <1>6, <1>7, <1>8, <1>9, <1>10 DEF Tool

\* A restart of the process keeps the invariant.
LEMMA RestartInv == LifecycleInv /\ Restart => LifecycleInv'
<1> SUFFICES ASSUME LifecycleInv, Restart PROVE LifecycleInv'
  OBVIOUS
<1>0. TypeOK /\ Confined /\ Unshared /\ Backed
  BY DEF LifecycleInv
<1>a. deployed \in String
  BY <1>0, LifecycleBounds DEF TypeOK, String
<1>1. /\ env' \in String /\ Parsed(env') \in List
      /\ multi => env' \subseteq deployed
      /\ ~multi => env' = NoString \/ Reloads(env', deployed)
  <2>1. /\ env' \in String
        /\ multi => env' \subseteq deployed
        /\ ~multi => env' = NoString \/ Reloads(env', deployed)
    BY <1>0, <1>a, SavedReloads DEF Restart, Reloads, NoString
  <2>2. QED
    BY <2>1, ParsedType
<1>b. multi => Parsed(env') \subseteq Parsed(deployed)
  BY <1>1, ParsedPart
<1>2. session' = [x \in Sessions |-> Closed] /\ call' = [k \in Calls |-> Idle]
  BY DEF Restart
<1>3. TypeOK'
  BY <1>0, <1>1, <1>2, IdleType DEF TypeOK, Restart, setting, disk, Found, States
<1>4. Confined'
  BY <1>0, <1>1, <1>b, <1>2, IdleType DEF Confined, SharedConfined, SubsConfined,
     SessionsConfined, CallsConfined, TypeOK, Restart, setting, disk
<1>5. Unshared'
  BY <1>0, <1>2, IdleType, LifecycleBounds DEF Unshared, TypeOK, Restart, setting
<1>6. Backed'
  BY <1>0, <1>1, <1>2, IdleType DEF Backed, TypeOK, Restart, setting, Found, disk
<1>7. QED
  BY <1>3, <1>4, <1>5, <1>6 DEF LifecycleInv

\* A step that changes nothing.
LEMMA StutterInv == LifecycleInv /\ UNCHANGED vars => LifecycleInv'
<1> SUFFICES ASSUME LifecycleInv, UNCHANGED vars PROVE LifecycleInv'
  OBVIOUS
<1>1. TypeOK'
  BY DEF LifecycleInv, TypeOK, vars, setting, disk
<1>2. Confined'
  BY DEF LifecycleInv, Confined, SharedConfined, SubsConfined, SessionsConfined,
     CallsConfined, vars, setting, disk
<1>3. Unshared'
  BY DEF LifecycleInv, Unshared, vars, setting, disk
<1>4. Backed'
  BY DEF LifecycleInv, Backed, vars, setting, disk
<1>5. QED
  BY <1>1, <1>2, <1>3, <1>4 DEF LifecycleInv

\* The invariant holds of every state.
LEMMA LifecycleCorrect == Spec => []LifecycleInv
<1>1. LifecycleInv /\ [Next]_vars => LifecycleInv'
  BY OpenInv, FormInv, ToolInv, RestartInv, StutterInv DEF Next
<1>2. QED
  BY <1>1, InitInv, PTL DEF Spec

-----------------------------------------------------------------------------
(* The theorems. *)

\* Every state the server reaches is well formed: a session has a subject exactly when
\* there are subjects, and a request works on a session that is open and its own.
THEOREM LifecycleTypeCorrect == Spec => []TypeOK
<1>1. LifecycleInv => TypeOK
  BY DEF LifecycleInv
<1>2. QED
  BY <1>1, LifecycleCorrect, PTL

\* A subject is served its own mailboxes and the deployment's, never another subject's.
THEOREM ServedOwn == Spec => []SubjectServedOwn
<1>1. LifecycleInv => SubjectServedOwn
  BY DEF LifecycleInv, Confined, SharedConfined, SubsConfined, SessionsConfined,
     CallsConfined, SubjectServedOwn, Serves
<1>2. QED
  BY <1>1, LifecycleCorrect, PTL

\* A session that went through setup_reset serves none of its subject's mailboxes again.
THEOREM ResetSubjectForgets == Spec => []SubjectResetForgets
<1>1. LifecycleInv => SubjectResetForgets
  BY DEF LifecycleInv, Confined, SharedConfined, SubsConfined, SessionsConfined,
     CallsConfined, SubjectResetForgets, Serves
<1>2. QED
  BY <1>1, LifecycleCorrect, PTL

\* A server without subjects that says it is configured has credentials to reload.
THEOREM ConfiguredBacked == Spec => []ConfiguredHasCredentials
<1>1. LifecycleInv => ConfiguredHasCredentials
  BY DEF LifecycleInv, Backed, ConfiguredHasCredentials
<1>2. QED
  BY <1>1, LifecycleCorrect, PTL

\* An array that is emptied in place is held for the subject that resets, and for nobody
\* else.
THEOREM ResetsOwnArrays == Spec => ResetIsOwn
<1> DEFINE Kept ==
      multi =>
       /\ \A x \in Sessions :
            session[x] # Closed /\ session'[x].array = session[x].array
              /\ content'[session[x].array] # content[session[x].array] =>
            \E k \in Calls, ok \in BOOLEAN :
              ResetDone(k, ok) /\ session[call[k].of].sub = session[x].sub
       /\ content'[current] # content[current] => Restart
<1>1. LifecycleInv /\ [Next]_vars => [Kept]_vars
  <2> SUFFICES ASSUME LifecycleInv, Next, multi PROVE Kept
    OBVIOUS
  <2>0. TypeOK /\ Unshared
    BY DEF LifecycleInv
  <2>1. CASE content' = content
    BY <2>1
  <2>2. ASSUME NEW a \in Arrays, New(a), NEW l, content' = [content EXCEPT ![a] = l]
        PROVE  Kept
    <3>1. /\ a # current
          /\ \A x \in Sessions : a # session[x].array
      BY <2>2 DEF New, Referenced
    <3>2. \A b \in Arrays : b # a => content'[b] = content[b]
      BY <2>0, <2>2 DEF TypeOK
    <3>3. current \in Arrays
      BY <2>0 DEF TypeOK
    <3>4. \A x \in Sessions : session[x] # Closed => session[x].array \in Arrays
      BY <2>0 DEF TypeOK, Session
    <3>5. QED
      BY <3>1, <3>2, <3>3, <3>4
  <2>3. ASSUME NEW k \in Calls, NEW ok \in BOOLEAN, ResetDone(k, ok) PROVE Kept
    <3> DEFINE y == call[k].of
    <3>1. y \in Sessions /\ session[y].array # 0
      BY <2>0, <2>3 DEF ResetDone, End, TypeOK, Call
    <3>2. content' = [content EXCEPT ![session[y].array] = {}]
      BY <2>3 DEF ResetDone
    <3>3. session[y].array # current /\ current \in Arrays
      BY <2>0, <3>1 DEF Unshared, TypeOK
    <3>4. content'[current] = content[current]
      BY <2>0, <3>2, <3>3 DEF TypeOK
    <3>5. ASSUME NEW x \in Sessions, session[x] # Closed,
                 content'[session[x].array] # content[session[x].array]
          PROVE  session[y].sub = session[x].sub
      <4>1. session[x].array \in Arrays
        BY <2>0, <3>5 DEF TypeOK, Session
      <4>2. session[x].array = session[y].array
        BY <2>0, <3>2, <3>5, <4>1 DEF TypeOK
      <4>3. QED
        BY <2>0, <3>1, <4>2 DEF Unshared
    <3>6. QED
      BY <2>3, <3>4, <3>5
  <2>4. CASE Restart
    <3>1. \A x \in Sessions : session'[x].array = 0
      BY <2>4, IdleType DEF Restart
    <3>2. \A x \in Sessions : session[x].array = 0 => session[x] = Closed
      BY <2>0 DEF TypeOK
    <3>3. QED
      BY <2>4, <3>1, <3>2
  <2>5. CASE Open
    <3>1. ASSUME NEW k \in Calls, NEW a \in Arrays, NEW ok \in BOOLEAN, Opened(k, a, ok)
          PROVE  Kept
      BY <2>2, <3>1 DEF Opened
    <3>2. QED
      BY <2>1, <2>5, <3>1 DEF Open, OpenAnonymous, OpenCached, StartOpen, Close
  <2>6. CASE Form
    <3>1. ASSUME NEW k \in Calls, NEW s \in Subs, NEW l \in Forms, NEW a \in Arrays,
                 SubmitAs(k, s, l, a)
          PROVE  Kept
      BY <2>2, <3>1 DEF SubmitAs
    <3>2. ASSUME NEW k \in Calls, NEW a \in Arrays, Accept(k, a) PROVE content' = content
      BY <3>2 DEF Accept
    <3>3. QED
      BY <2>1, <2>6, <3>1, <3>2
         DEF Form, SubmitAnonymous, Stored, StoreFails, Asked, AskFails, PollEnds, Granted
  <2>7. CASE Tool
    <3>1. ASSUME NEW k \in Calls, NEW a \in Arrays, Reloaded(k, a) PROVE Kept
      BY <2>2, <3>1 DEF Reloaded
    <3>2. QED
      BY <2>1, <2>3, <2>7, <3>1
         DEF Tool, StartReload, StartReset, StartComplete, CompleteAtOnce, Cleared,
             Resolved, ClearFails, Resolve
  <2>8. QED
    BY <2>4, <2>5, <2>6, <2>7 DEF Next
<1>2. QED
  BY <1>1, LifecycleCorrect, PTL DEF Spec, ResetIsOwn

=============================================================================
