--------------------------- MODULE MailboxToolsMC ---------------------------
(* Instances of MailboxTools, FormPromise and CredentialString for TLC.    *)
EXTENDS MailboxTools, TLC

(***************************************************************************)
(* Words: kim has a known provider and lee one that signs in with OAuth;   *)
(* max is of an extra OAuth domain; dot and bar are two addresses of one   *)
(* domain without known servers, and have one ID.                          *)
(***************************************************************************)
kim == "kim@gmail.com"
lee == "lee@outlook.com"
max == "max@extra.org"
dot == "a.b@corp.org"
bar == "a_b@corp.org"

MCOutlook == {lee, max}
MCDiscovered ==
  kim :> [imap |-> [host |-> <<"imap.gmail.com">>, port |-> 993, secure |-> TRUE],
          smtp |-> [host |-> <<"smtp.gmail.com">>, port |-> 465, secure |-> TRUE]] @@
  lee :> [imap |-> [host |-> <<"outlook.office365.com">>, port |-> 993, secure |-> TRUE],
          smtp |-> [host |-> <<"smtp.office365.com">>, port |-> 587, secure |-> FALSE]]
MCId == kim :> "kim_gmail_com" @@ lee :> "lee_outlook_com" @@ max :> "max_extra_org" @@
        dot :> "a_b_corp_org" @@ bar :> "a_b_corp_org"
MCDotted == DOMAIN MCId \cup {"x.y", "imap.corp.org", "mail.corp.org"}
MCNumber == "993" :> 993 @@ "1993" :> 1993 @@ "465" :> 465 @@ "70000" :> 70000
MCLower == "TLS" :> "tls"
MCSmtpName == "imap.corp.org" :> "smtp.corp.org"

(***************************************************************************)
(* Cards checked one by one: passwords of up to three segments that look   *)
(* like a word, a host, a port and a security word, and some with blanks,  *)
(* commas or a fourth segment; every way of typing the servers.            *)
(***************************************************************************)
Segs == {<<"pw">>, <<"x.y">>, <<"993">>, <<"TLS">>}
MCTails == UNION {[1 .. n -> Segs] : n \in 1 .. 3}
Passwords ==
  {join(s, ":") : s \in MCTails} \cup
  {<<"pw", ",", "pw">>, <<"pw", " ">>, <<" ", "pw">>, Blank,
   <<"pw", ":", "pw", ":", "pw", ":", "TLS">>}
Servers ==
  {Blank} \X {Blank} \X {Blank} \X {Blank} \X {Blank} \cup
  {<<"imap.corp.org">>, <<"localhost">>, <<"imap.corp.org", ":", "1993">>}
    \X {Blank, <<"1993">>, <<"70000">>}
    \X {Blank, <<"mail.corp.org">>} \X {Blank, <<"465">>} \X {Blank, <<"TLS">>, <<"none">>}
Card(email, password, s) ==
  [email |-> <<email>>, password |-> password, imap_host |-> s[1], imap_port |-> s[2],
   smtp_host |-> s[3], smtp_port |-> s[4], smtp_security |-> toLowerCase(s[5])]
NoServers == <<Blank, Blank, Blank, Blank, Blank>>
MCCards ==
  {Card(dot, l[1], l[2]) : l \in Passwords \X Servers} \cup
  {Card(kim, password, NoServers) : password \in Passwords} \cup
  {Card(email, Blank, NoServers) : email \in {lee, max}}

(***************************************************************************)
(* Forms: the second gives dot another host and drops bar; the misread ones*)
(* hold an address of an extra domain, and a host for SMTP alone.          *)
(***************************************************************************)
Corp == <<<<"imap.corp.org">>, Blank, Blank, Blank, Blank>>
Local == <<<<"localhost">>, <<"1993">>, <<"mail.corp.org">>, Blank, <<"tls">>>>
First == <<Card(dot, <<"pw">>, Corp), Card(bar, <<"p2">>, Corp)>>
Second == <<Card(lee, Blank, NoServers), Card(dot, <<"p", ":", "x.y">>, Local)>>
MCForms == {First, Second}

\* The premises of theorems MeantMailbox and TypedMailbox.
ASSUME FormsReadAsTyped == \A f \in MCForms : ReadAsTyped(f)
ASSUME FormsExpressible ==
  \A f \in MCForms : f \in Seq(Typable) /\ \A j \in DOMAIN f : Expressible(f[j])

SmtpAlone == <<<<"imap.corp.org">>, <<"993">>, <<"mail.corp.org">>, Blank, Blank>>
MisreadForms == {First,
                 <<Card(kim, <<"pw">>, NoServers), Card(max, Blank, NoServers)>>,
                 <<Card(dot, <<"pw">>, SmtpAlone)>>}

corpDot == <<<<"imap.corp.org">>, <<dot>>>>
corpBar == <<<<"imap.corp.org">>, <<bar>>>>
localDot == <<<<"localhost">>, <<dot>>>>
office == <<<<"outlook.office365.com">>, <<lee>>>>
MCLogin == corpDot :> <<"pw">> @@ corpBar :> <<"p2">> @@
           localDot :> <<"p", ":", "x.y">> @@ office :> Blank

MCWithin == "org" :> {max, dot, bar} @@ "lee" :> {lee} @@ dot :> {dot} @@
            "a_b_corp_org" :> {}
MCMail == {[msg |-> "m1", box |-> corpDot, folder |-> "INBOX", flags |-> {}]}

Request(op, query, folder, uids, dest, flag) ==
  [op |-> op, query |-> query, folder |-> folder, uids |-> uids, dest |-> dest, flag |-> flag]
MCRequests ==
  {Request("archive", dot, "INBOX", {"m1"}, None, None),
   Request("file", dot, None, {"m2"}, None, None),
   Request("file", "a_b_corp_org", None, {"m2"}, None, None),
   Request("trash", "org", "INBOX", {"m1"}, None, None),
   Request("mark", "lee", "INBOX", {"m1"}, None, "\\Seen"),
   Request("move", dot, "INBOX", {"m1"}, None, None)}

Old == <<[path |-> "Sent", flags |-> {}], [path |-> "Old archive", flags |-> {}]>>
New == <<[path |-> "Box", flags |-> {"\\Sent"}], [path |-> "All", flags |-> {"\\All"}]>>
MCListings == corpDot :> {Old, New} @@ corpBar :> {Old} @@ localDot :> {New} @@ office :> {<<>>}
MCProvider == "outlook.office365.com" :> "outlook" @@ "imap.gmail.com" :> "gmail"
MCArchiveWords == {"Old archive", "\\All"}
=============================================================================
