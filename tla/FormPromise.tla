---------------------------- MODULE FormPromise ----------------------------
(***************************************************************************)
(* What the credential form promises the person who fills it in: each card *)
(* becomes an account that signs in as typed.  The reading is taken from   *)
(* the fields of the card alone, not from the string it is carried in.     *)
(***************************************************************************)
EXTENDS CredentialString

CONSTANTS
  Cards,  \* the cards whose encoding is checked one by one
  Tails   \* passwords, as their segments, whose reading is checked

ASSUME WordsApart ==
  /\ Dotted \cap DOMAIN Number = {} /\ "localhost" \notin DOMAIN Number
  /\ \A s \in Securities : toLowerCase(s) = s
  /\ \A w \in {"localhost"} \cup Dotted \cup DOMAIN Number : ~isSmtpSecurity(<<w>>)
\* A word is a piece between separators; the port of IMAP is one.
ASSUME WordsKnown ==
  /\ DOMAIN Id \cup Dotted \cup DOMAIN Number \subseteq STRING \ {Colon, Comma, Space}
  /\ "993" \in DOMAIN Number /\ Number["993"] = 993
ASSUME TailsKnown == \A segs \in Tails : segs \in Seq(Seq(STRING)) /\ segs # <<>>

hasPort(text) == Len(text) = 1 /\ text[1] \in DOMAIN Number /\ Number[text[1]] \in 1 .. 65535
typedPort(text, standard) == IF hasPort(text) THEN Number[text[1]] ELSE standard

\* "host:port" may be typed in the field of the host.
typedHost(card) == split(card.imap_host, Colon)[1]
typedImapPort(card) ==
  IF Contains(card.imap_host, Colon) THEN split(card.imap_host, Colon)[2] ELSE card.imap_port

typedImap(card) ==
  LET port == typedPort(typedImapPort(card), 993) IN
  [host |-> typedHost(card), port |-> port, secure |-> port = 993]

typedSmtp(card) ==
  LET implicit == card.smtp_security \in {<<"tls">>, <<"ssl">>}
      standard == CASE implicit -> 465
                    [] card.smtp_security = <<"none">> -> 25
                    [] OTHER -> 587
  IN IF card.smtp_host = Blank THEN guessSmtp(typedHost(card))
     ELSE [host |-> card.smtp_host, port |-> typedPort(card.smtp_port, standard),
           secure |-> implicit]

\* An account keeps a card when it signs in to the servers of the card as typed.
Keeps(account, card) ==
  /\ account.email = card.email
  /\ IF isOutlookDomain(card.email) THEN account.auth = "oauth2"
     ELSE /\ account.auth = "password"
          /\ account.password = card.password
          /\ IF card.imap_host = Blank
             THEN /\ account.imap = Discovered[card.email[1]].imap
                  /\ account.smtp = Discovered[card.email[1]].smtp
             ELSE account.imap = typedImap(card) /\ account.smtp = typedSmtp(card)

Kept(read, card) == \E i \in DOMAIN read : Keeps(read[i], card)

(***************************************************************************)
(* The cards the documentation says can be used: an address on the OAuth   *)
(* path, or a password and a server to be found or typed.  A password holds*)
(* no comma, and a colon only beside a host.                               *)
(***************************************************************************)
Documented(card) ==
  \/ isOutlookDomain(card.email)
  \/ /\ card.password # Blank
     /\ card.imap_host # Blank \/ hasSettings(card.email)
     /\ ~Contains(card.password, Comma)
     /\ Contains(card.password, Colon) => card.imap_host # Blank

\* Segments of a password that read like the end of "imap_host:port:smtp_host:port"
\* once a host and a port follow it.
LooksFull(segs) == Len(segs) >= 3 /\ looksLikeHost(segs[Len(segs) - 1])

(***************************************************************************)
(* The cards of these that the string can carry.  It cannot tell a host for*)
(* SMTP alone from the IMAP host, a host with its port from the one before,*)
(* nor the end of the password from the end of the entry; and an address of*)
(* an extra OAuth domain alone finds no servers.                           *)
(***************************************************************************)
Expressible(card) ==
  /\ Documented(card)
  /\ isOutlookDomain(card.email) => hasSettings(card.email)
  /\ ~isOutlookDomain(card.email) =>
       /\ card.imap_host = Blank => Last(card.password) # Space
       /\ card.imap_host # Blank /\ card.smtp_host # Blank =>
            /\ card.smtp_port # Blank \/ card.smtp_security # Blank
            /\ ~Contains(card.imap_host, Colon)
       /\ card.imap_host # Blank /\ card.smtp_host = Blank =>
            \/ typedImapPort(card) = Blank
            \/ ~LooksFull(split(card.password, Colon))

(***************************************************************************)
(* The cards whose fields hold what their labels ask for: one address, host*)
(* names, ports and a security word, and as the password any words at all. *)
(***************************************************************************)
HostNames == {<<"localhost">>} \cup {<<name>> : name \in Dotted}
PortNames == {<<digits>> : digits \in DOMAIN Number}

HostPorts == {<<h[1], Colon, q[1]>> : h \in HostNames, q \in PortNames}

Typable ==
  [email : {<<address>> : address \in DOMAIN Id}, password : Seq(STRING),
   imap_host : {Blank} \cup HostNames \cup HostPorts, imap_port : {Blank} \cup PortNames,
   smtp_host : {Blank} \cup HostNames, smtp_port : {Blank} \cup PortNames,
   smtp_security : {Blank} \cup Securities]

ASSUME CardsKnown == Cards \subseteq Typable

\* Those that are read back as other accounts, or as none.
Misread ==
  {card \in Cards : Expressible(card)
                    /\ ~Kept(parseCredentials(assembleEmailCredentials(<<card>>)), card)}

Read(segs, imapHost, imapPort, smtpHost, smtpPort, security) ==
  [password |-> segs,
   imap |-> [host |-> imapHost, port |-> imapPort],
   smtp |-> [host |-> smtpHost, port |-> smtpPort, security |-> security]]

\* The password is what is left when the servers behind it are taken off
\* (parsePasswordAndHost): the host of IMAP; its host and port, unless the password looks
\* full; or the servers of both, with the port of SMTP, its security, or both.  The SMTP
\* host with neither, which the form writes as well, is taken for the IMAP host instead
\* (CardsServed of MailboxTools) and left out.
ReadsBack(segs) ==
  \A h, g \in HostNames, q, r \in PortNames, s \in Securities :
    LET parse(tail) == parsePasswordAndHost(<<Blank>> \o segs \o tail) IN
    /\ parse(<<h>>) = Read(segs, h, Undefined, Blank, Undefined, Blank)
    /\ LooksFull(segs) \/
         parse(<<h, q>>) = Read(segs, h, parsePort(q), Blank, Undefined, Blank)
    /\ parse(<<h, q, g, s>>) = Read(segs, h, parsePort(q), g, Undefined, s)
    /\ parse(<<h, q, g, r>>) = Read(segs, h, parsePort(q), g, parsePort(r), Blank)
    /\ parse(<<h, q, g, r, s>>) = Read(segs, h, parsePort(q), g, parsePort(r), s)

MisreadTails == {segs \in Tails : ~ReadsBack(segs)}
=============================================================================
