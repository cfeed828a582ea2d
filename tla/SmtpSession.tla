---------------------------- MODULE SmtpSession ----------------------------
(***************************************************************************)
(* One CreateEvent of the SMTP provider (internal/calendar/smtp): an SMTP  *)
(* session that hands one invitation to a mail server.  Each action is one *)
(* exchange with the server, or one step that involves none; the server    *)
(* may refuse any command, and the connection may break at any of them.    *)
(* The server keeps its own idea of the session (srv), by RFC 5321.        *)
(***************************************************************************)
EXTENDS Naturals, Sequences

CONSTANT
    MaxAnswers  \* bound: how many challenges of the server get an answer

ASSUME SmtpAssumption == MaxAnswers \in Nat

VARIABLES
    cfg,       \* the provider's configuration and the message, see Config
               \* (never changes)
    starttls,  \* does the server offer STARTTLS? (never changes)
    cancelled, \* is the context of the request done?
    pc,        \* where send is
    result,    \* what send is going to return
    conn,      \* none, open, broken, closed
    secure,    \* does the connection run over TLS?
    wire,      \* the commands sent so far (history)
    srv,       \* the server's state
    accepted   \* has the server taken responsibility for the message?

vars == <<cfg, starttls, cancelled, pc, result, conn, secure, wire, srv, accepted>>

\* from: a bare address, or a display name with an address as in
\* config.example.yaml.  localhost: PlainAuth accepts it without TLS.
\* long: the message does not fit into net/smtp's write buffer (4096 bytes).
Config ==
    [tls : BOOLEAN, authMethod : {"none", "plain", "login"},
     from : {"address", "display"}, localhost : BOOLEAN, long : BOOLEAN]

Init ==
    /\ cfg \in Config
    /\ starttls \in BOOLEAN
    /\ cancelled \in BOOLEAN
    /\ pc = "start"
    /\ result = "none"
    /\ conn = "none"
    /\ secure = FALSE
    /\ wire = <<>>
    /\ srv = "none"
    /\ accepted = FALSE

-----------------------------------------------------------------------------
(* Steps every exchange is made of. *)

Send(command) == wire' = Append(wire, command)

\* send returns err, through the deferred client.Quit().
Fail ==
    /\ pc' = "quit"
    /\ result' = "err"

\* The reply is an error, or there is none because the connection broke.
Refused ==
    /\ conn' \in {conn, "broken"}
    /\ Fail
    /\ UNCHANGED <<cfg, starttls, cancelled, secure, srv, accepted>>

\* The reply is good: the server is in state s, the client goes on at p.
Granted(s, p) ==
    /\ srv' = s
    /\ pc' = p
    /\ UNCHANGED <<cfg, starttls, cancelled, result, conn, secure, accepted>>

Alive == conn = "open"

-----------------------------------------------------------------------------
\* The context is looked at before the connection is made, and never again.
ContextDone ==
    /\ pc = "start"
    /\ cancelled
    /\ pc' = "returned"
    /\ result' = "err"
    /\ UNCHANGED <<cfg, starttls, cancelled, conn, secure, wire, srv, accepted>>

DialFail ==
    /\ pc = "start"
    /\ ~cancelled
    /\ pc' = "returned"
    /\ result' = "err"
    /\ UNCHANGED <<cfg, starttls, cancelled, conn, secure, wire, srv, accepted>>

\* Connected, over TLS if so configured, and greeted by the server.
Dial ==
    /\ pc = "start"
    /\ ~cancelled
    /\ conn' = "open"
    /\ secure' = cfg.tls
    /\ srv' = "greeted"
    /\ pc' = "hello"
    /\ UNCHANGED <<cfg, starttls, cancelled, result, wire, accepted>>

\* net/smtp sends EHLO before the first command: in Extension without TLS,
\* in Auth or Mail with it.  It tries HELO if EHLO fails, and a server that
\* refuses EHLO offers no extension.
Hello ==
    /\ pc = "hello"
    /\ Send("EHLO")
    /\ \/ Granted("ready", IF ~cfg.tls /\ starttls THEN "starttls" ELSE "auth")
       \/ /\ \/ ~starttls /\ UNCHANGED conn
             \/ conn' = "broken"
          /\ pc' = "helo"
          /\ UNCHANGED <<cfg, starttls, cancelled, result, secure, srv, accepted>>

\* The failure of HELO surfaces in Auth or Mail.
Helo ==
    /\ pc = "helo"
    /\ Send("HELO")
    /\ \/ Alive /\ Granted("ready", "auth")
       \/ Refused

StartTLSOptional == \* mutant: a failed STARTTLS is shrugged off
    /\ pc = "starttls"
    /\ Send("STARTTLS")
    /\ \/ /\ srv' = "greeted"
          /\ secure' = TRUE
          /\ pc' = "rehello"
       \/ pc' = "auth" /\ UNCHANGED <<srv, secure>>
    /\ UNCHANGED <<cfg, starttls, cancelled, result, conn, accepted>>

\* Without Quit: dialPlain returns no client whose connection could be closed.
LeaveOpen ==
    /\ pc' = "returned"
    /\ result' = "err"
    /\ conn' \in {conn, "broken"}
    /\ UNCHANGED <<cfg, starttls, cancelled, secure, srv, accepted>>

\* The handshake makes the server forget the first EHLO.
StartTLS ==
    /\ pc = "starttls"
    /\ Send("STARTTLS")
    /\ \/ /\ srv' = "greeted"
          /\ secure' = TRUE
          /\ pc' = "rehello"
          /\ UNCHANGED <<cfg, starttls, cancelled, result, conn, accepted>>
       \/ LeaveOpen

HelloAgain ==
    /\ pc = "rehello"
    /\ Send("EHLO")
    /\ \/ Granted("ready", "auth")
       \/ LeaveOpen

AuthSkipped ==
    /\ pc = "auth"
    /\ cfg.authMethod = "none"
    /\ pc' = "mail"
    /\ UNCHANGED <<cfg, starttls, cancelled, result, conn, secure, wire, srv,
                   accepted>>

\* PlainAuth sends no password over a connection without TLS.
PlainRefuses == cfg.authMethod = "plain" /\ ~secure /\ ~cfg.localhost

AuthWithheld ==
    /\ pc = "auth"
    /\ PlainRefuses
    /\ Fail
    /\ UNCHANGED <<cfg, starttls, cancelled, conn, secure, wire, srv, accepted>>

\* What the server may ask for; "other" is anything that the client does not
\* know or cannot decode.
Challenge == {"username", "password", "other"}

Answered == Len(SelectSeq(wire, LAMBDA command : command \in Challenge))

\* 235, 334, an error reply, which ends the dialogue for the server, or no reply
\* because the connection broke.
AuthReply ==
    \/ Granted("authenticated", "mail")
    \/ /\ Answered < MaxAnswers
       /\ \E challenge \in Challenge : Granted(challenge, "challenged")
    \/ Granted("ready", "abort")
    \/ /\ conn' = "broken"
       /\ Fail
       /\ UNCHANGED <<cfg, starttls, cancelled, secure, srv, accepted>>

\* PLAIN gives the credentials along with the command, LOGIN when asked.
Auth ==
    /\ pc = "auth"
    /\ cfg.authMethod # "none"
    /\ ~PlainRefuses
    /\ Send("AUTH")
    /\ AuthReply

AnswerInOrder == \* mutant: goes by the order of challenges, not by their text
    /\ pc = "challenged"
    /\ cfg.authMethod = "login"
    /\ srv # "other"
    /\ Send(IF Answered = 0 THEN "username" ELSE "password")
    /\ AuthReply

\* The server may ask in any order, and again.
Answer ==
    /\ pc = "challenged"
    /\ cfg.authMethod = "login"
    /\ srv # "other"
    /\ Send(srv)
    /\ AuthReply

\* net/smtp cancels the dialogue when Next fails, and also when the server has
\* ended it with an error.  Then it quits; one Quit stands for its and ours.
CancelAuth ==
    /\ \/ pc = "abort"
       \/ pc = "challenged" /\ (cfg.authMethod = "plain" \/ srv = "other")
    /\ Send("*")
    /\ srv' = "ready"
    /\ conn' \in {conn, "broken"}
    /\ Fail
    /\ UNCHANGED <<cfg, starttls, cancelled, secure, accepted>>

\* The configured sender goes into MAIL FROM:<...> as it is.
EnvelopeSender == cfg.from

\* With a display name in it the command is malformed, and is refused.
Mail ==
    /\ pc = "mail"
    /\ Send("MAIL")
    /\ \/ EnvelopeSender = "address" /\ Granted("mail", "rcpt")
       \/ Refused

Rcpt ==
    /\ pc = "rcpt"
    /\ Send("RCPT")
    /\ \/ Granted("rcpt", "data")
       \/ Refused

Data ==
    /\ pc = "data"
    /\ Send("DATA")
    /\ \/ Granted("data", "body")
       \/ Refused

BuildMayFail == \* mutant: the message cannot be built, once DATA is granted
    /\ pc = "body"
    /\ pc' = "close"
    /\ \/ result' = "ok" /\ UNCHANGED conn
       \/ result' = "err" /\ conn' \in {conn, "broken"}
    /\ UNCHANGED <<cfg, starttls, cancelled, secure, wire, srv, accepted>>

\* The message is built in memory, which does not fail, and written into
\* net/smtp's buffer.  Only what overflows the buffer goes out here, and can
\* meet a broken connection.  With that writeData has its return value; the rest
\* of the message, for a short one all of it, is left to Close.
Body ==
    /\ pc = "body"
    /\ pc' = "close"
    /\ \/ result' = "ok" /\ UNCHANGED conn
       \/ cfg.long /\ result' = "err" /\ conn' = "broken"
    /\ UNCHANGED <<cfg, starttls, cancelled, secure, wire, srv, accepted>>

CloseReported == \* mutant: a lost answer to Close is reported as an error
    /\ pc = "close"
    /\ Alive
    /\ Send(".")
    /\ srv' = "ready"
    /\ accepted' \in BOOLEAN
    /\ \/ conn' = conn /\ result' = IF accepted' THEN "ok" ELSE "err"
       \/ conn' = "broken" /\ result' = "err"
    /\ pc' = "quit"
    /\ UNCHANGED <<cfg, starttls, cancelled, secure>>

\* The deferred w.Close() sends what is in the buffer and the dot that ends the
\* message, and reads the server's verdict on it: accepted, refused, or no
\* answer; or the connection breaks before all of it is out.  The error is
\* thrown away in any case.
Close ==
    /\ pc = "close"
    /\ Alive
    /\ pc' = "quit"
    /\ \/ /\ Send(".")
          /\ srv' = "ready"
          /\ accepted' \in BOOLEAN
          /\ conn' \in {conn, "broken"}
       \/ /\ conn' = "broken"
          /\ UNCHANGED <<wire, srv, accepted>>
    /\ UNCHANGED <<cfg, starttls, cancelled, result, secure>>

\* After a failed Write nothing more goes out.
CloseBroken ==
    /\ pc = "close"
    /\ ~Alive
    /\ pc' = "quit"
    /\ UNCHANGED <<cfg, starttls, cancelled, result, conn, secure, wire, srv,
                   accepted>>

QuitAfterMessage == \* mutant: not deferred, so that error returns skip it
    /\ pc = "quit"
    /\ pc' = "returned"
    /\ IF Alive /\ srv # "greeted" /\ result = "ok"
       THEN Send("QUIT") /\ conn' \in {"closed", "broken"}
       ELSE UNCHANGED <<wire, conn>>
    /\ UNCHANGED <<cfg, starttls, cancelled, result, secure, srv, accepted>>

\* The deferred client.Quit() closes the connection on a good reply only (no
\* server refuses QUIT), and sends nothing if EHLO has failed.
Quit ==
    /\ pc = "quit"
    /\ pc' = "returned"
    /\ IF Alive /\ srv # "greeted"
       THEN Send("QUIT") /\ conn' \in {"closed", "broken"}
       ELSE UNCHANGED <<wire, conn>>
    /\ UNCHANGED <<cfg, starttls, cancelled, result, secure, srv, accepted>>

Cancel ==
    /\ pc # "returned"
    /\ ~cancelled
    /\ cancelled' = TRUE
    /\ UNCHANGED <<cfg, starttls, pc, result, conn, secure, wire, srv, accepted>>

Done ==
    /\ pc = "returned"
    /\ UNCHANGED vars

Next ==
    \/ ContextDone \/ DialFail \/ Dial
    \/ Hello \/ Helo \/ StartTLS \/ HelloAgain
    \/ AuthSkipped \/ AuthWithheld \/ Auth \/ Answer \/ CancelAuth
    \/ Mail \/ Rcpt \/ Data \/ Body \/ Close \/ CloseBroken
    \/ Quit
    \/ Cancel
    \/ Done

Spec == Init /\ [][Next]_vars

-----------------------------------------------------------------------------
(* Properties. *)

Commands ==
    {"EHLO", "HELO", "STARTTLS", "AUTH", "*", "MAIL", "RCPT", "DATA", ".", "QUIT"}
        \cup {"username", "password"}

TypeOK ==
    /\ cfg \in Config
    /\ starttls \in BOOLEAN
    /\ cancelled \in BOOLEAN
    /\ pc \in {"start", "hello", "helo", "starttls", "rehello", "auth", "challenged",
               "abort", "mail", "rcpt", "data", "body", "close", "quit", "returned"}
    /\ result \in {"none", "ok", "err"}
    /\ conn \in {"none", "open", "broken", "closed"}
    /\ secure \in BOOLEAN
    /\ wire \in Seq(Commands)
    /\ srv \in {"none", "greeted", "ready", "authenticated", "mail", "rcpt", "data"}
                  \cup Challenge
    /\ accepted \in BOOLEAN
    /\ pc = "returned" => result # "none"

\* What a server in state s may be sent (RFC 5321 4.1.4, RFC 3207 4.2,
\* RFC 4954 4): a server that wants authentication wants it before MAIL.
Legal(s) ==
    {c \in Commands :
        \/ s = "greeted" /\ c \in {"EHLO", "HELO"}
        \/ s = "ready" /\ c \in {"STARTTLS", "AUTH", "QUIT"}
        \/ s \in Challenge /\ c \in {s, "*"}
        \/ s = "ready" /\ c = "MAIL" /\ cfg.authMethod = "none"
        \/ s = "authenticated" /\ c \in {"MAIL", "QUIT"}
        \/ s = "mail" /\ c \in {"RCPT", "QUIT"}
        \/ s = "rcpt" /\ c \in {"DATA", "QUIT"}
        \/ s = "data" /\ c = "."}

\* net/smtp answers an error reply within AUTH with the * that cancels AUTH,
\* although it is over: the one command that no server in its state expects.
LateCancel(command) ==
    /\ command = "*"
    /\ srv = "ready"
    /\ wire # <<>> /\ wire[Len(wire)] \in {"AUTH", "username", "password"}

\* Apart from a late *, which follows right on what the server has refused, the
\* server never gets a command out of sequence, on no error path: after STARTTLS
\* a second EHLO, the password for no other challenge than that for the
\* password, no envelope after a refused login, no DATA without a recipient, and
\* the deferred Close and Quit in this order (smtp.go:105-191, 309-322).
CommandsInSequence ==
    [][wire' # wire =>
          \/ wire'[Len(wire')] \in Legal(srv)
          \/ LateCancel(wire'[Len(wire')])]_vars

\* If the server offers STARTTLS, neither password nor invitation goes over
\* the connection before it is secured (smtp.go:143-148).
OfferedMeansSecured ==
    starttls /\ (\E i \in DOMAIN wire : wire[i] \in {"AUTH", "MAIL"} \cup Challenge) => secure

\* An error means that no invitation was delivered, so that the caller may try
\* again without sending it twice (smtp.go:75-85).
ErrorMeansUndelivered == pc = "returned" /\ result = "err" => ~accepted

\* Whatever fails, send leaves no working connection behind, except by a failed
\* STARTTLS or a refused greeting: a session that got further was closed
\* (smtp.go:114, 143-148).
SessionsEnd ==
    pc = "returned" /\ conn = "open" =>
        \A i \in DOMAIN wire : wire[i] \in {"EHLO", "HELO", "STARTTLS"}

\* How far the call is, and what has become of the invitation.
SubmissionStatus ==
    IF pc # "returned" THEN "pending" ELSE IF result = "ok" THEN "done" ELSE "failed"

HandedOver == \E i \in DOMAIN wire : wire[i] = "."

Message ==
    IF HandedOver THEN IF accepted THEN "accepted" ELSE "lost"
    ELSE IF srv = "data" THEN "awaited" ELSE "kept"

Submission == INSTANCE MailSubmission WITH
    status <- SubmissionStatus, message <- Message

\* CreateEvent keeps MailSubmission's promise on every path through the
\* deferred Close and Quit: the message goes out whole at most once, and only to
\* a server that has taken the envelope; after an error it has not gone out,
\* and nil says no more than that the server was waiting for it
\* (smtp.go:105-119, 166-191).
KeepsSubmissionPromise == Submission!Spec

\* Success means that the server has accepted the invitation: step 4 of
\* README.md:226, and the log line of smtp.go:83.
SuccessMeansAccepted == pc = "returned" /\ result = "ok" => accepted
=============================================================================
