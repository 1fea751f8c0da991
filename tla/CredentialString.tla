-------------------------- MODULE CredentialString --------------------------
(***************************************************************************)
(* EMAIL_CREDENTIALS: the string the accounts are kept in, how the cards of*)
(* the credential form are encoded in it (src/src/relay-setup.ts) and how  *)
(* it is read back (src/src/tools/helpers/config.ts).                      *)
(*                                                                         *)
(* A string is a sequence of words, of which ":", "," and " " stand for    *)
(* themselves; the other words are the pieces between them, told apart only*)
(* as far as the code does: a number, a name with a dot, a security word,  *)
(* the address of an account.  What the code looks up in its tables, or    *)
(* computes letter by letter from one word, is a constant function.        *)
(***************************************************************************)
EXTENDS Naturals, Sequences, SequencesExt

CONSTANTS
  Discovered,  \* the servers of each address of a known provider
  Outlook,     \* addresses isOutlookDomain accepts, OUTLOOK_EXTRA_DOMAINS included
  Id,          \* emailToId of each address
  Dotted,      \* words that hold a dot
  Number,      \* the value of each word of digits
  Lower,       \* the lower-case form of the words that have another one
  SmtpName     \* the host name each name with "imap." in it becomes

Colon == ":"
Comma == ","
Space == " "

Blank == <<>>
Undefined == 0  \* of a port; a valid port is at least 1

split(text, sep) ==
  LET upTo[n \in 0 .. Len(text)] ==
        IF n = 0 THEN <<Blank>>
        ELSE LET segs == upTo[n - 1] IN
             IF text[n] = sep THEN Append(segs, Blank)
             ELSE [segs EXCEPT ![Len(segs)] = Append(@, text[n])]
  IN upTo[Len(text)]

join(segs, sep) ==
  LET upTo[n \in 0 .. Len(segs)] ==
        IF n = 0 THEN Blank
        ELSE upTo[n - 1] \o (IF n = 1 THEN Blank ELSE <<sep>>) \o segs[n]
  IN upTo[Len(segs)]

trim(text) ==
  LET ink == {i \in DOMAIN text : text[i] # Space} IN
  IF ink = {} THEN Blank ELSE SubSeq(text, Min(ink), Max(ink))

toLowerCase(text) ==
  [i \in DOMAIN text |-> IF text[i] \in DOMAIN Lower THEN Lower[text[i]] ELSE text[i]]

(***************************************************************************)
(* Reading the string.                                                     *)
(***************************************************************************)
isAddress(email) == Len(email) = 1 /\ email[1] \in DOMAIN Id

isOutlookDomain(email) == isAddress(email) /\ email[1] \in Outlook

hasSettings(email) == isAddress(email) /\ email[1] \in DOMAIN Discovered

emailToId(email) == IF isAddress(email) THEN Id[email[1]] ELSE email

isPortSegment(seg) == seg # Blank /\ \A i \in DOMAIN seg : seg[i] \in DOMAIN Number

\* Two words of digits side by side are too large for a port.
parsePort(seg) ==
  IF Len(seg) = 1 /\ isPortSegment(seg) /\ Number[seg[1]] \in 1 .. 65535
  THEN Number[seg[1]] ELSE Undefined

looksLikeHost(seg) ==
  seg = <<"localhost">> \/ \E i \in DOMAIN seg : seg[i] \in Dotted

Securities == {<<"tls">>, <<"ssl">>, <<"starttls">>, <<"none">>}
isSmtpSecurity(seg) == toLowerCase(seg) \in Securities

\* Mutant: a host and a port at the end are taken for those of SMTP.
endsWithSmtpPort(rest) ==
  LET n == Len(rest) IN n >= 5 /\ isPortSegment(rest[n]) /\ looksLikeHost(rest[n - 1])

canHaveSmtpHostPort(rest) ==
  LET n == Len(rest) IN
  /\ n >= 5
  /\ isPortSegment(rest[n])
  /\ looksLikeHost(rest[n - 1])
  /\ looksLikeHost(rest[n - 3])

\* What is left of the tail, and the SMTP segments taken off its end.
extractSmtpSegments(tail) ==
  LET popped == Len(tail) >= 4 /\ isSmtpSecurity(Last(tail))
      rest == IF popped THEN Front(tail) ELSE tail
      n == Len(rest)
      security == IF popped THEN toLowerCase(Last(tail)) ELSE Blank
      hostPort == canHaveSmtpHostPort(rest)
      hostOnly == popped /\ n >= 3 /\ looksLikeHost(rest[n])
  IN IF hostPort
     THEN [rest |-> SubSeq(rest, 1, n - 2), host |-> rest[n - 1],
           port |-> parsePort(rest[n]), security |-> security]
     ELSE IF hostOnly
     THEN [rest |-> Front(rest), host |-> rest[n], port |-> Undefined, security |-> security]
     ELSE [rest |-> IF popped THEN Append(rest, security) ELSE rest,
           host |-> Blank, port |-> Undefined, security |-> Blank]

extractImapSegments(tail) ==
  LET n == Len(tail) IN
  IF n >= 3 /\ isPortSegment(tail[n]) /\ looksLikeHost(tail[n - 1])
  THEN [rest |-> SubSeq(tail, 1, n - 2), host |-> tail[n - 1], port |-> parsePort(tail[n])]
  ELSE IF looksLikeHost(tail[n])
  THEN [rest |-> Front(tail), host |-> tail[n], port |-> Undefined]
  ELSE [rest |-> tail, host |-> Blank, port |-> Undefined]

\* parts holds the address and at least one more segment.
parsePasswordAndHost(parts) ==
  IF Len(parts) = 2
  THEN [password |-> <<parts[2]>>,
        imap |-> [host |-> Blank, port |-> Undefined],
        smtp |-> [host |-> Blank, port |-> Undefined, security |-> Blank]]
  ELSE LET s == extractSmtpSegments(Tail(parts))
           i == extractImapSegments(s.rest)
       IN [password |-> i.rest,
           imap |-> [host |-> i.host, port |-> i.port],
           smtp |-> [host |-> s.host, port |-> s.port, security |-> s.security]]

default(port, value) == IF port = Undefined THEN value ELSE port

buildSmtpConfig(smtp) ==
  LET implicit == smtp.security \in {<<"tls">>, <<"ssl">>} IN
  [host |-> smtp.host, secure |-> implicit,
   port |-> default(smtp.port, IF implicit THEN 465
                               ELSE IF smtp.security = <<"none">> THEN 25 ELSE 587)]

\* host.replace('imap.', 'smtp.')
guessSmtp(host) ==
  [host |-> [i \in DOMAIN host |->
               IF host[i] \in DOMAIN SmtpName THEN SmtpName[host[i]] ELSE host[i]],
   port |-> 587, secure |-> FALSE]

resolvesServers(email, read) == read.imap.host # Blank \/ hasSettings(email)

resolveServerConfig(email, read) ==
  LET port == default(read.imap.port, 993) IN
  IF read.imap.host # Blank
  THEN [imap |-> [host |-> read.imap.host, port |-> port, secure |-> port = 993],
        smtp |-> IF read.smtp.host # Blank THEN buildSmtpConfig(read.smtp)
                 ELSE guessSmtp(read.imap.host)]
  ELSE [imap |-> Discovered[email[1]].imap,
        smtp |-> IF read.smtp.host # Blank THEN buildSmtpConfig(read.smtp)
                 ELSE Discovered[email[1]].smtp]

\* An account or, as a sequence, none.
createOAuth2Account(email) ==
  IF isOutlookDomain(email) /\ hasSettings(email)
  THEN <<[id |-> emailToId(email), email |-> email, password |-> Blank,
          auth |-> "oauth2",
          imap |-> Discovered[email[1]].imap, smtp |-> Discovered[email[1]].smtp]>>
  ELSE <<>>

handlePasswordEntry(email, parts) ==
  LET read == parsePasswordAndHost(parts)
      servers == resolveServerConfig(email, read)
  IN IF resolvesServers(email, read)
     THEN <<[id |-> emailToId(email), email |-> email,
             password |-> join(read.password, Colon),
             auth |-> IF read.imap.host = Blank /\ isOutlookDomain(email)
                      THEN "oauth2" ELSE "password",
             imap |-> servers.imap, smtp |-> servers.smtp]>>
     ELSE <<>>

parseSingleCredential(entry) ==
  LET parts == split(trim(entry), Colon)
      email == trim(parts[1])
  IN CASE trim(entry) = Blank -> <<>>
       [] trim(entry) # Blank /\ Len(parts) < 2 -> createOAuth2Account(email)
       [] trim(entry) # Blank /\ Len(parts) >= 2 -> handlePasswordEntry(email, parts)

parseCredentials(text) ==
  LET entries == split(text, Comma) IN
  IF trim(text) = Blank THEN <<>>
  ELSE FlattenSeq([i \in DOMAIN entries |-> parseSingleCredential(entries[i])])

(***************************************************************************)
(* Writing it: a card is a record of the fields typed, Blank when empty.   *)
(***************************************************************************)
\* Mutant: the port of IMAP is encoded as it was typed.
portAsTyped(port) == port

portOr993(port) == IF port = Blank THEN <<"993">> ELSE port

\* The card's entry, or nothing.
encodeCard(card) ==
  LET email == trim(card.email)
      imapHost == trim(card.imap_host)
      imapPort == trim(card.imap_port)
      smtpHost == trim(card.smtp_host)
      smtpPort == trim(card.smtp_port)
      smtpSecurity == toLowerCase(trim(card.smtp_security))
      some(seg) == IF seg = Blank THEN <<>> ELSE <<seg>>
      login == <<email, card.password>>
      full == login \o <<imapHost, portOr993(imapPort), smtpHost>>
                    \o some(smtpPort) \o some(smtpSecurity)
      short == login \o some(imapHost)
                     \o IF Contains(imapHost, Colon) THEN <<>> ELSE some(imapPort)
  IN CASE email = Blank -> <<>>
       [] isOutlookDomain(email) -> <<email>>
       [] email # Blank /\ ~isOutlookDomain(email) ->
            IF card.password = Blank THEN <<>>
            ELSE <<join(IF imapHost = Blank THEN login
                        ELSE IF smtpHost # Blank THEN full ELSE short, Colon)>>

assembleEmailCredentials(form) ==
  join(FlattenSeq([i \in DOMAIN form |-> encodeCard(form[i])]), Comma)

findUnusableAccountCards(form) ==
  {i \in DOMAIN form : /\ trim(form[i].email) # Blank
                       /\ ~isOutlookDomain(trim(form[i].email))
                       /\ trim(form[i].password) = Blank}
=============================================================================
