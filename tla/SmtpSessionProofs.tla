------------------------- MODULE SmtpSessionProofs -------------------------
(***************************************************************************)
(* Proofs about SmtpSession.  The inductive invariant ties the client's    *)
(* place in send to the state the server is in.                            *)
(***************************************************************************)
EXTENDS SmtpSession, TLAPS

\* Where the server is when the client is about to send its next command.
InStep ==
    /\ pc = "start" => srv = "none" /\ conn = "none"
    /\ pc \in {"hello", "helo", "rehello"} => srv = "greeted"
    /\ pc = "helo" /\ starttls => conn = "broken"
    /\ pc = "starttls" => srv = "ready" /\ ~cfg.tls /\ starttls
    /\ pc = "auth" => srv = "ready"
    /\ pc = "challenged" => srv \in Challenge /\ cfg.authMethod # "none"
    /\ pc = "abort" =>
          /\ srv = "ready" /\ cfg.authMethod # "none"
          /\ wire # <<>> /\ wire[Len(wire)] \in {"AUTH", "username", "password"}
    /\ pc = "mail" =>
          srv = IF cfg.authMethod = "none" THEN "ready" ELSE "authenticated"
    /\ pc = "rcpt" => srv = "mail"
    /\ pc = "data" => srv = "rcpt"
    /\ pc \in {"body", "close"} => srv = "data"
    /\ pc = "quit" /\ conn = "open" => srv \notin {"none", "data"} \cup Challenge

\* A result is fixed before the message is ended, and is good if the
\* connection is.
ResultInv ==
    /\ pc \in {"start", "hello", "helo", "starttls", "rehello", "auth", "challenged",
               "abort", "mail", "rcpt", "data", "body"} => result = "none" /\ ~accepted
    /\ pc \in {"close", "quit", "returned"} => result # "none"
    /\ pc = "close" => ~accepted /\ (conn = "open" => result = "ok")
    /\ accepted => result = "ok"

SecureInv ==
    /\ pc = "start" => ~secure
    /\ pc \in {"hello", "helo", "starttls"} => secure = cfg.tls
    /\ starttls /\ pc \in {"rehello", "auth", "challenged", "abort", "mail", "rcpt",
                           "data", "body", "close"} => secure
    /\ OfferedMeansSecured

Inv == TypeOK /\ InStep /\ ResultInv /\ SecureInv

\* Sending a command that gives nothing away, or sending any over TLS.
LEMMA SendKeepsSecrecy ==
    ASSUME TypeOK, OfferedMeansSecured, NEW command \in Commands, Send(command),
           command \in {"AUTH", "MAIL"} \cup Challenge /\ starttls => secure',
           secure => secure', starttls' = starttls
    PROVE  wire' \in Seq(Commands) /\ OfferedMeansSecured'
<1>1. /\ wire' \in Seq(Commands)
      /\ DOMAIN wire' = 1..(Len(wire) + 1) /\ DOMAIN wire = 1..Len(wire)
      /\ \A i \in 1..Len(wire) : wire'[i] = wire[i]
      /\ wire'[Len(wire) + 1] = command
      /\ Len(wire) \in Nat
  BY DEF Send, TypeOK
<1> QED
  BY <1>1 DEF OfferedMeansSecured, Challenge

LEMMA InvInit == Init => Inv
<1> SUFFICES ASSUME Init PROVE Inv
  OBVIOUS
<1>1. wire = <<>> /\ <<>> \in Seq(Commands) /\ DOMAIN wire = {}
  BY DEF Init
<1>2. TypeOK
  BY <1>1 DEF Init, TypeOK
<1> QED
  BY <1>1, <1>2 DEF Init, Inv, InStep, ResultInv, SecureInv, OfferedMeansSecured

LEMMA InvStep == Inv /\ [Next]_vars => Inv'
<1> SUFFICES ASSUME Inv, [Next]_vars PROVE Inv'
  OBVIOUS
<1> USE DEF Inv, InStep, ResultInv, SecureInv, Challenge
<1>0. cfg \in Config /\ cfg.authMethod \in {"none", "plain", "login"} /\ cfg.tls \in BOOLEAN
  BY DEF TypeOK, Config
<1>1. CASE ContextDone \/ DialFail \/ AuthSkipped \/ AuthWithheld \/ Body \/ CloseBroken
  <2>1. /\ wire' = wire /\ starttls' = starttls /\ secure' = secure
        /\ cfg' = cfg /\ cancelled' = cancelled /\ accepted' = accepted
        /\ srv' = srv
    BY <1>1 DEF ContextDone, DialFail, AuthSkipped, AuthWithheld, Fail, Body, CloseBroken
  <2>2. OfferedMeansSecured'
    BY <2>1 DEF OfferedMeansSecured
  <2>3. CASE ContextDone \/ DialFail
    BY <2>1, <2>2, <2>3 DEF ContextDone, DialFail, TypeOK
  <2>4. CASE AuthSkipped \/ AuthWithheld
    BY <1>0, <2>1, <2>2, <2>4 DEF AuthSkipped, AuthWithheld, Fail, TypeOK
  <2>5. CASE Body \/ CloseBroken
    BY <2>1, <2>2, <2>5 DEF Body, CloseBroken, Alive, TypeOK
  <2> QED
    BY <1>1, <2>3, <2>4, <2>5
<1>2. CASE Dial
  <2>1. wire = wire' /\ starttls' = starttls /\ (secure => secure')
    BY <1>2 DEF Dial
  <2>2. OfferedMeansSecured'
    BY <2>1 DEF OfferedMeansSecured
  <2> QED
    BY <1>0, <1>2, <2>1, <2>2 DEF Dial, TypeOK
<1>3. CASE Hello \/ Helo \/ HelloAgain
  <2>1. PICK command \in {"EHLO", "HELO"} :
           Send(command) /\ starttls' = starttls /\ secure' = secure
    BY <1>3 DEF Hello, Helo, HelloAgain, Granted, Refused, LeaveOpen
  <2>2. wire' \in Seq(Commands) /\ OfferedMeansSecured'
    BY <2>1, SendKeepsSecrecy DEF Commands, Challenge
  <2>3. CASE Hello
    BY <1>0, <2>2, <2>3 DEF Hello, Granted, Refused, Fail, TypeOK
  <2>4. CASE HelloAgain
    BY <1>0, <2>2, <2>4 DEF HelloAgain, Granted, LeaveOpen, TypeOK
  <2>5. CASE Helo
    BY <1>0, <2>2, <2>5 DEF Helo, Alive, Granted, Refused, Fail, TypeOK
  <2> QED
    BY <1>3, <2>3, <2>4, <2>5
<1>4. CASE StartTLS
  <2>1. Send("STARTTLS") /\ starttls' = starttls /\ (secure => secure')
    BY <1>4 DEF StartTLS, LeaveOpen
  <2>2. wire' \in Seq(Commands) /\ OfferedMeansSecured'
    BY <2>1, SendKeepsSecrecy DEF Commands, Challenge
  <2>3. CASE /\ pc' = "rehello" /\ srv' = "greeted" /\ secure' = TRUE
             /\ UNCHANGED <<cfg, starttls, cancelled, result, conn, accepted>>
    <3>1. TypeOK'
      BY <1>0, <1>4, <2>2, <2>3 DEF TypeOK, StartTLS
    <3>2. InStep' /\ ResultInv'
      BY <1>4, <2>3 DEF StartTLS
    <3>3. SecureInv'
      BY <2>2, <2>3
    <3> QED
      BY <3>1, <3>2, <3>3
  <2>4. CASE LeaveOpen
    BY <1>0, <1>4, <2>2, <2>4 DEF StartTLS, LeaveOpen, TypeOK
  <2> QED
    BY <1>4, <2>3, <2>4 DEF StartTLS
<1>5. CASE Auth \/ Answer \/ CancelAuth
  <2>1. /\ starttls' = starttls /\ secure' = secure /\ cfg' = cfg
        /\ cancelled' = cancelled /\ accepted' = accepted
    BY <1>5 DEF Auth, Answer, CancelAuth, AuthReply, Granted
  <2>2. PICK command \in {"AUTH", "*", "username", "password"} :
           /\ Send(command)
           /\ command = "*" => CancelAuth
    BY <1>5 DEF Auth, Answer, CancelAuth
  <2>3. wire' \in Seq(Commands) /\ OfferedMeansSecured'
    BY <1>5, <2>1, <2>2, SendKeepsSecrecy DEF Auth, Answer, CancelAuth, Commands, Challenge
  <2>4. wire' # <<>> /\ wire'[Len(wire')] = command
    BY <2>2 DEF Send, TypeOK
  <2>5. /\ cfg.authMethod # "none" /\ result = "none" /\ ~accepted
        /\ starttls => secure
    BY <1>5 DEF Auth, Answer, CancelAuth
  <2>6. CASE CancelAuth
    BY <2>1, <2>3, <2>5, <2>6 DEF CancelAuth, Fail, TypeOK
  <2>7. CASE AuthReply /\ ~CancelAuth
    <3>1. CASE Granted("authenticated", "mail")
      BY <2>1, <2>3, <2>5, <3>1 DEF Granted, TypeOK
    <3>2. CASE \E challenge \in Challenge : Granted(challenge, "challenged")
      BY <2>1, <2>3, <2>5, <3>2 DEF Granted, TypeOK
    <3>3. CASE Granted("ready", "abort")
      BY <2>1, <2>2, <2>3, <2>4, <2>5, <2>7, <3>3 DEF Granted, TypeOK
    <3>4. CASE conn' = "broken" /\ Fail /\ srv' = srv
      BY <2>1, <2>3, <2>5, <3>4 DEF Fail, TypeOK
    <3> QED
      BY <2>7, <3>1, <3>2, <3>3, <3>4 DEF AuthReply
  <2> QED
    BY <1>5, <2>6, <2>7 DEF Auth, Answer
<1>6. CASE Mail
  <2>1. Send("MAIL") /\ starttls' = starttls /\ secure' = secure
    BY <1>6 DEF Mail, Granted, Refused
  <2>2. wire' \in Seq(Commands) /\ OfferedMeansSecured'
    BY <1>6, <2>1, SendKeepsSecrecy DEF Mail, Commands, Challenge
  <2> QED
    BY <1>0, <1>6, <2>2 DEF Mail, Granted, Refused, Fail, TypeOK
<1>7. CASE Rcpt \/ Data
  <2>1. PICK command \in {"RCPT", "DATA"} :
           Send(command) /\ starttls' = starttls /\ secure' = secure
    BY <1>7 DEF Rcpt, Data, Granted, Refused
  <2>2. wire' \in Seq(Commands) /\ OfferedMeansSecured'
    BY <2>1, SendKeepsSecrecy DEF Commands, Challenge
  <2>3. CASE Rcpt
    BY <1>0, <2>2, <2>3 DEF Rcpt, Granted, Refused, Fail, TypeOK
  <2>4. CASE Data
    BY <1>0, <2>2, <2>4 DEF Data, Granted, Refused, Fail, TypeOK
  <2> QED
    BY <1>7, <2>3, <2>4
<1>8. CASE Close
  <2>1. starttls' = starttls /\ secure' = secure
    BY <1>8 DEF Close
  <2>2. wire' \in Seq(Commands) /\ OfferedMeansSecured'
    <3>1. CASE wire' = wire
      BY <2>1, <3>1 DEF TypeOK, OfferedMeansSecured
    <3>2. CASE Send(".")
      BY <2>1, <3>2, SendKeepsSecrecy DEF Commands, Challenge
    <3> QED
      BY <1>8, <3>1, <3>2 DEF Close
  <2> QED
    BY <1>8, <2>2 DEF Close, Alive, TypeOK
<1>9. CASE Quit
  <2>1. starttls' = starttls /\ secure' = secure
    BY <1>9 DEF Quit
  <2>2. wire' = wire \/ Send("QUIT")
    BY <1>9 DEF Quit
  <2>3. wire' \in Seq(Commands) /\ OfferedMeansSecured'
    <3>1. CASE wire' = wire
      BY <2>1, <3>1 DEF TypeOK, OfferedMeansSecured
    <3>2. CASE Send("QUIT")
      BY <2>1, <3>2, SendKeepsSecrecy DEF Commands, Challenge
    <3> QED
      BY <2>2, <3>1, <3>2
  <2> QED
    BY <1>9, <2>3 DEF Quit, TypeOK
<1>10. CASE Cancel
  <2>1. OfferedMeansSecured'
    BY <1>10 DEF Cancel, OfferedMeansSecured
  <2> QED
    BY <1>10, <2>1 DEF Cancel, TypeOK
<1>11. CASE UNCHANGED vars
  <2>1. OfferedMeansSecured'
    BY <1>11 DEF vars, OfferedMeansSecured
  <2> QED
    BY <1>11, <2>1 DEF vars, TypeOK
<1> QED
  BY <1>1, <1>2, <1>3, <1>4, <1>5, <1>6, <1>7, <1>8, <1>9, <1>10, <1>11
     DEF Next, Done

LEMMA InvAlways == Spec => []Inv
BY InvInit, InvStep, PTL DEF Spec

\* The type invariant: a call returns with a result.
THEOREM TypeCorrect == Spec => []TypeOK
BY InvAlways, PTL DEF Inv

\* If STARTTLS is offered, no password and no envelope goes out in the clear
\* (smtp.go:138-150).
THEOREM Secured == Spec => []OfferedMeansSecured
BY InvAlways, PTL DEF Inv, SecureInv

\* CreateEvent returns an error only if the invitation was not delivered: a
\* retry does not send it twice (smtp.go:176-191).
THEOREM RetrySafe == Spec => []ErrorMeansUndelivered
<1>1. Inv => ErrorMeansUndelivered
  BY DEF Inv, ResultInv, ErrorMeansUndelivered
<1> QED
  BY <1>1, InvAlways, PTL

\* The server gets every command in a state in which it may be sent, but for the
\* * with which net/smtp cancels what the server has just refused
\* (smtp.go:105-191).
THEOREM Sequenced == Spec => CommandsInSequence
<1>1. Inv /\ [Next]_vars =>
          [wire' # wire => \/ wire'[Len(wire')] \in Legal(srv)
                           \/ LateCancel(wire'[Len(wire')])]_vars
  <2> SUFFICES ASSUME Inv, Next, wire' # wire
               PROVE  \/ wire'[Len(wire')] \in Legal(srv)
                      \/ LateCancel(wire'[Len(wire')])
    OBVIOUS
  <2>1. ASSUME NEW command \in Commands, Send(command)
        PROVE  wire'[Len(wire')] = command
    BY <2>1 DEF Send, Inv, TypeOK
  <2>2. CASE pc = "abort"
    <3>1. Send("*") /\ LateCancel("*")
      BY <2>2 DEF Inv, InStep, LateCancel, Next, ContextDone, DialFail, Dial, Hello,
             Helo, StartTLS, HelloAgain, AuthSkipped, AuthWithheld, Auth, Answer,
             CancelAuth, Mail, Rcpt, Data, Body, Close, CloseBroken, Quit, Cancel,
             Done, vars
    <3> QED
      BY <2>1, <3>1 DEF Commands
  <2>3. CASE pc # "abort"
    <3>1. \E command \in Legal(srv) : Send(command)
      BY <2>3 DEF Inv, InStep, TypeOK, Config, Next, ContextDone, DialFail, Dial, Hello,
             Helo, StartTLS, HelloAgain, AuthSkipped, AuthWithheld, Auth, Answer,
             CancelAuth, Mail, Rcpt, Data, Body, Close, CloseBroken, Quit, Cancel,
             Done, vars, Alive, Legal, Commands, Challenge
    <3> QED
      BY <2>1, <3>1 DEF Legal
  <2> QED
    BY <2>2, <2>3
<1> QED
  BY <1>1, InvAlways, PTL DEF Spec, CommandsInSequence

-----------------------------------------------------------------------------
(* The end of a session.  Up to its authentication a session has sent      *)
(* greetings only, and it gets no further without the server's answer.     *)

Greeted == \A i \in DOMAIN wire : wire[i] \in {"EHLO", "HELO", "STARTTLS"}

EndInv ==
    /\ pc \in {"start", "hello", "helo", "starttls", "rehello", "auth"} => Greeted
    /\ pc = "quit" /\ srv = "greeted" => Greeted
    /\ SessionsEnd

LEMMA SendGreeting ==
    ASSUME TypeOK, Greeted, NEW command \in {"EHLO", "HELO", "STARTTLS"}, Send(command)
    PROVE  Greeted'
<1>1. /\ DOMAIN wire' = 1..(Len(wire) + 1) /\ DOMAIN wire = 1..Len(wire)
      /\ \A i \in 1..Len(wire) : wire'[i] = wire[i]
      /\ wire'[Len(wire) + 1] = command
      /\ Len(wire) \in Nat
  BY DEF Send, TypeOK
<1> QED
  BY <1>1 DEF Greeted

LEMMA EndStep == Inv /\ EndInv /\ [Next]_vars => EndInv'
<1> SUFFICES ASSUME Inv, EndInv, [Next]_vars PROVE EndInv'
  OBVIOUS
<1>1. ASSUME wire' = wire PROVE Greeted' = Greeted
  BY <1>1 DEF Greeted
<1>2. SessionsEnd = (pc = "returned" /\ conn = "open" => Greeted)
  BY DEF SessionsEnd, Greeted
<1>3. SessionsEnd' = (pc' = "returned" /\ conn' = "open" => Greeted')
  BY DEF SessionsEnd, Greeted
<1>4. CASE \/ ContextDone \/ DialFail \/ Dial \/ AuthSkipped \/ AuthWithheld \/ Body
           \/ CloseBroken \/ Cancel \/ UNCHANGED vars
  <2>1. wire' = wire
    BY <1>4 DEF ContextDone, DialFail, Dial, AuthSkipped, AuthWithheld, Body,
                CloseBroken, Cancel, vars
  <2> QED
    BY <1>1, <1>2, <1>3, <1>4, <2>1
       DEF EndInv, Inv, InStep, ContextDone, DialFail, Dial, AuthSkipped,
           AuthWithheld, Fail, Body, CloseBroken, Alive, Cancel, vars
<1>5. CASE Hello \/ Helo \/ StartTLS \/ HelloAgain
  <2>1. /\ Greeted
        /\ \E command \in {"EHLO", "HELO", "STARTTLS"} : Send(command)
    BY <1>5 DEF EndInv, Hello, Helo, StartTLS, HelloAgain
  <2>2. Greeted'
    BY <2>1, SendGreeting DEF Inv
  <2> QED
    BY <1>3, <2>2 DEF EndInv
<1>6. CASE Auth \/ Answer \/ CancelAuth \/ Mail \/ Rcpt \/ Data
  <2>1. pc' \in {"challenged", "abort", "mail", "rcpt", "data", "body", "quit"}
    BY <1>6 DEF Auth, Answer, CancelAuth, AuthReply, Granted, Mail, Rcpt, Data,
                Refused, Fail
  <2>2. srv' # "greeted"
    BY <1>6 DEF Auth, Answer, CancelAuth, AuthReply, Granted, Mail, Rcpt, Data,
                Refused, Inv, InStep, Challenge
  <2> QED
    BY <1>3, <2>1, <2>2 DEF EndInv
<1>7. CASE Close
  BY <1>3, <1>7 DEF Close, EndInv, Inv, InStep
<1>8. CASE Quit
  <2>1. pc = "quit" /\ pc' = "returned"
    BY <1>8 DEF Quit
  <2>2. CASE Alive /\ srv # "greeted"
    BY <1>3, <1>8, <2>1, <2>2 DEF Quit, EndInv
  <2>3. CASE ~(Alive /\ srv # "greeted")
    BY <1>1, <1>3, <1>8, <2>1, <2>3 DEF Quit, EndInv, Alive
  <2> QED
    BY <2>2, <2>3
<1> QED
  BY <1>4, <1>5, <1>6, <1>7, <1>8 DEF Next, Done

\* A session that came as far as its authentication is closed when send
\* returns, whatever failed, and however long the server kept asking
\* (smtp.go:105-119).
THEOREM Closed == Spec => []SessionsEnd
<1>1. Init => EndInv
  BY DEF Init, EndInv, Greeted, SessionsEnd
<1>2. EndInv => SessionsEnd
  BY DEF EndInv
<1> QED
  BY <1>1, <1>2, InvAlways, EndStep, PTL DEF Spec

-----------------------------------------------------------------------------
(* Refinement.  The server agrees to take the message by its answer to     *)
(* DATA, and the dot that ends the message is sent by Close and by nothing *)
(* else, after the result is settled.  Agreeing is the one step, handing   *)
(* over the other, the end of the call the one in which send returns, and  *)
(* everything else stutters.                                               *)

\* What the result, the server and the connection have to do with the message.
HandOverInv ==
    /\ pc \notin {"quit", "returned"} => ~HandedOver
    /\ pc \in {"start", "hello", "helo", "starttls", "rehello", "auth", "challenged",
               "abort", "mail", "rcpt", "data"} => srv # "data"
    /\ pc \in {"quit", "returned"} /\ result = "ok" => HandedOver \/ srv = "data"
    /\ HandedOver => result = "ok"

SubmitInv == Inv /\ HandOverInv

\* A command that does not end the message hands nothing over.
LEMMA SendHandsOver ==
    ASSUME TypeOK, NEW command \in Commands, Send(command)
    PROVE  HandedOver' <=> HandedOver \/ command = "."
<1>1. /\ DOMAIN wire' = 1..(Len(wire) + 1) /\ DOMAIN wire = 1..Len(wire)
      /\ \A i \in 1..Len(wire) : wire'[i] = wire[i]
      /\ wire'[Len(wire) + 1] = command
      /\ Len(wire) \in Nat
  BY DEF Send, TypeOK
<1> QED
  BY <1>1 DEF HandedOver

\* Until the message is ended, a step sends another command or none.
LEMMA KeepsMessage ==
    ASSUME SubmitInv, [Next]_vars, ~Close
    PROVE  (HandedOver' <=> HandedOver) /\ accepted' = accepted
<1>1. accepted' = accepted
  BY DEF Next, ContextDone, DialFail, Dial, Hello, Helo, StartTLS, HelloAgain,
         LeaveOpen, AuthSkipped, AuthWithheld, Auth, Answer, CancelAuth,
         AuthReply, Granted, Refused, Mail, Rcpt, Data, Body,
         CloseBroken, Quit, Cancel, Done, vars
<1>2. CASE wire' = wire
  BY <1>1, <1>2 DEF HandedOver
<1>3. CASE wire' # wire
  <2>1. \E command \in Commands \ {"."} : Send(command)
    BY <1>3 DEF SubmitInv, Inv, InStep, Next, ContextDone, DialFail, Dial, Hello,
           Helo, StartTLS, HelloAgain, AuthSkipped, AuthWithheld, Auth, Answer,
           CancelAuth, Mail, Rcpt, Data, Body, CloseBroken, Quit, Cancel, Done,
           vars, Commands, Challenge
  <2> QED
    BY <1>1, <2>1, SendHandsOver DEF SubmitInv, Inv
<1> QED
  BY <1>2, <1>3

\* The deferred Close ends the message, or the connection breaks before.
LEMMA ClosesMessage ==
    ASSUME SubmitInv, Close
    PROVE  /\ pc = "close" /\ pc' = "quit" /\ result = "ok" /\ result' = "ok"
           /\ ~HandedOver /\ srv = "data"
           /\ HandedOver' \/ (~HandedOver' /\ srv' = "data")
<1>1. pc = "close" /\ conn = "open" /\ pc' = "quit" /\ result' = result
  BY DEF Close, Alive
<1>2. result = "ok" /\ ~HandedOver /\ srv = "data"
  BY <1>1 DEF SubmitInv, Inv, InStep, ResultInv, HandOverInv
<1>3. CASE Send(".")
  BY <1>1, <1>2, <1>3, SendHandsOver DEF SubmitInv, Inv, Commands
<1>4. CASE wire' = wire /\ srv' = srv
  BY <1>1, <1>2, <1>4 DEF HandedOver
<1> QED
  BY <1>3, <1>4 DEF Close

\* The way of the other steps through send.
LEMMA OtherSteps ==
    ASSUME SubmitInv, [Next]_vars, ~Close
    PROVE  \/ /\ pc \notin {"data", "body", "close", "quit", "returned"}
              /\ pc' \notin {"body", "close", "quit", "returned"}
              /\ srv' # "data" /\ result' = result
           \/ pc = "data" /\ pc' = "body" /\ srv' = "data" /\ result' = result
           \/ pc = "body" /\ pc' = "close" /\ srv' = srv
           \/ /\ pc \notin {"body", "close", "quit", "returned"}
              /\ pc' \in {"quit", "returned"}
              /\ srv' # "data" /\ result' = "err"
           \/ pc = "close" /\ pc' = "quit" /\ srv' = srv /\ result' = result
           \/ pc = "quit" /\ pc' = "returned" /\ srv' = srv /\ result' = result
           \/ pc' = pc /\ srv' = srv /\ result' = result
<1> USE DEF SubmitInv, Inv, HandOverInv
<1>1. CASE ContextDone \/ DialFail \/ Dial \/ Hello \/ Helo \/ StartTLS \/ HelloAgain
  BY <1>1 DEF ContextDone, DialFail, Dial, Hello, Helo, StartTLS, HelloAgain,
              LeaveOpen, Granted, Refused, Fail
<1>2. CASE AuthSkipped \/ AuthWithheld \/ Auth \/ Answer \/ CancelAuth
  BY <1>2 DEF AuthSkipped, AuthWithheld, Auth, Answer, CancelAuth, AuthReply,
              Granted, Fail, Challenge
<1>3. CASE Mail \/ Rcpt \/ Data
  BY <1>3 DEF Mail, Rcpt, Data, Granted, Refused, Fail
<1>4. CASE Body \/ CloseBroken
  BY <1>4 DEF Body, CloseBroken
<1>5. CASE Quit \/ Cancel \/ Done \/ UNCHANGED vars
  BY <1>5 DEF Quit, Cancel, Done, vars
<1> QED
  BY <1>1, <1>2, <1>3, <1>4, <1>5 DEF Next

LEMMA HandOverStep == SubmitInv /\ [Next]_vars => SubmitInv'
<1> SUFFICES ASSUME SubmitInv, [Next]_vars PROVE HandOverInv'
  BY InvStep DEF SubmitInv
<1>1. HandOverInv /\ Inv
  BY DEF SubmitInv
<1>2. CASE Close
  BY <1>2, ClosesMessage DEF HandOverInv
<1>3. CASE ~Close
  <2>1. HandedOver' <=> HandedOver
    BY <1>3, KeepsMessage
  <2>2. /\ pc \in {"body", "close"} => srv = "data"
        /\ pc \notin {"close", "quit", "returned"} => result = "none"
    BY <1>1 DEF Inv, InStep, TypeOK, ResultInv
  <2> QED
    BY <1>1, <1>3, <2>1, <2>2, OtherSteps DEF HandOverInv
<1> QED
  BY <1>2, <1>3

\* Every step of the session is an agreement, hands the message over, ends the
\* call or is invisible to the caller.
LEMMA SubmissionStep == SubmitInv /\ [Next]_vars => [Submission!Next]_(Submission!vars)
<1> SUFFICES ASSUME SubmitInv, [Next]_vars
             PROVE  Submission!Next \/ UNCHANGED Submission!vars
  OBVIOUS
<1>1. HandOverInv /\ Inv
  BY DEF SubmitInv
<1>2. CASE Close
  <2>1. SubmissionStatus = "pending" /\ SubmissionStatus' = "pending"
    BY <1>2, ClosesMessage DEF SubmissionStatus
  <2>2. Message = "awaited" /\ Message' \in {"accepted", "lost", "awaited"}
    BY <1>2, ClosesMessage DEF Message
  <2> QED
    BY <2>1, <2>2 DEF Submission!Next, Submission!HandOver, Submission!vars
<1>3. CASE ~Close
  <2>1. (HandedOver' <=> HandedOver) /\ accepted' = accepted
    BY <1>3, KeepsMessage
  <2>2. CASE pc' = "returned" /\ pc # "returned"
    <3>1. SubmissionStatus = "pending"
      BY <2>2 DEF SubmissionStatus
    <3>2. /\ srv' = "data" <=> srv = "data"
          /\ result' = "ok" => HandedOver \/ srv = "data"
          /\ HandedOver => result' = "ok"
      BY <1>1, <1>3, <2>2, OtherSteps DEF HandOverInv, Inv, TypeOK
    <3>3. Message' = Message
      BY <2>1, <3>2 DEF Message
    <3>4. CASE result' = "ok"
      <4>1. Message # "kept" /\ SubmissionStatus' = "done"
        BY <2>2, <3>2, <3>4 DEF Message, SubmissionStatus
      <4> QED
        BY <3>1, <3>3, <4>1 DEF Submission!Next, Submission!Succeed
    <3>5. CASE result' # "ok"
      <4>1. Message \in {"kept", "awaited"} /\ SubmissionStatus' = "failed"
        BY <2>2, <3>2, <3>5 DEF Message, SubmissionStatus
      <4> QED
        BY <3>1, <3>3, <4>1 DEF Submission!Next, Submission!Fail
    <3> QED
      BY <3>4, <3>5
  <2>3. CASE ~(pc' = "returned" /\ pc # "returned")
    <3>1. pc = "returned" => pc' = "returned" /\ result' = result
      BY <1>3, OtherSteps
    <3>2. SubmissionStatus' = SubmissionStatus
      BY <2>3, <3>1 DEF SubmissionStatus
    <3>3. CASE pc = "data" /\ pc' = "body" /\ srv' = "data"
      <4>1. Message = "kept" /\ Message' = "awaited" /\ SubmissionStatus = "pending"
        BY <1>1, <2>1, <3>3 DEF HandOverInv, Message, SubmissionStatus
      <4> QED
        BY <3>2, <4>1 DEF Submission!Next, Submission!Agree
    <3>4. CASE ~(pc = "data" /\ pc' = "body" /\ srv' = "data")
      <4>1. srv' = "data" <=> srv = "data"
        BY <1>1, <1>3, <3>4, OtherSteps DEF HandOverInv, Inv, TypeOK
      <4>2. Message' = Message
        BY <2>1, <4>1 DEF Message
      <4> QED
        BY <3>2, <4>2 DEF Submission!vars
    <3> QED
      BY <3>3, <3>4
  <2> QED
    BY <2>2, <2>3
<1> QED
  BY <1>2, <1>3

\* On every path and for every answer of the server the message is handed over
\* whole, at most once and to a server that has taken the envelope, not at all
\* if the call fails; and a call that succeeds had a server waiting for it
\* (smtp.go:105-119, 166-191).
THEOREM SubmissionRefined == Spec => KeepsSubmissionPromise
<1>1. Init => HandOverInv /\ Submission!Init
  BY DEF Init, HandOverInv, HandedOver, Submission!Init, SubmissionStatus, Message
<1>2. Init => SubmitInv
  BY <1>1, InvInit DEF SubmitInv
<1> QED
  BY <1>1, <1>2, HandOverStep, SubmissionStep, PTL
     DEF Spec, KeepsSubmissionPromise, Submission!Spec
=============================================================================
