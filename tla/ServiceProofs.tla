--------------------------- MODULE ServiceProofs ---------------------------
(***************************************************************************)
(* Proofs about Service.  The inductive invariant ties three things to     *)
(* each other: how far the handler of a request is, what the provider has  *)
(* done for it, and what its client was told.                              *)
(***************************************************************************)
EXTENDS Service, TLAPS

Codes == {201, 400, 401, 415, 422, 500}

\* TypeOK, and the domains of the variables TypeOK leaves open.
TypeInv ==
    /\ TypeOK
    /\ now \in Nat
    /\ shape \in [Requests -> Shapes \cup {None}]
    /\ response \in [Requests -> Codes \cup {None}]
    /\ entry \in [Requests -> [id : Requests, dtend : Ends] \cup {None}]

\* The handler, the provider and the answer agree.
StageInv ==
    \A r \in Requests :
        /\ stage[r] \in {"new", "accepted", "extract"} => status[r] = "idle"
        /\ stage[r] = "create" => status[r] = "pending"
        /\ response[r] = 201 => status[r] = "done"
        /\ response[r] \in {400, 401, 415, 422} => status[r] = "idle"
        /\ status[r] = "idle" => r \notin published
        /\ status[r] = "done" => r \in published
        /\ status[r] = "pending" => stage[r] = "create"

\* What has been published stays until it expires.
FeedInv ==
    \A r \in published : entry[r] \in feed \/ Feed!Expired(entry[r])

\* Nothing is cut off unless the drain ran out of time.
PhaseInv ==
    /\ phase = "starting" => \A r \in Requests : stage[r] = "new"
    /\ phase = "exited" => \A r \in Requests : stage[r] \notin Running
    /\ \A r \in Requests : stage[r] = "killed" => expired

Inv == TypeInv /\ StageInv /\ FeedInv /\ PhaseInv /\ NoWorkUnauthorized

LEMMA InvInit == Init => Inv
<1> SUFFICES ASSUME Init PROVE Inv
  OBVIOUS
<1>1. None \notin Codes
  BY ServiceAssumption DEF Codes
<1>2. TypeInv
  BY <1>1 DEF Init, TypeInv, TypeOK, Codes
<1>3. StageInv
  BY <1>1 DEF Init, StageInv, Codes
<1>4. FeedInv /\ PhaseInv /\ NoWorkUnauthorized
  BY DEF Init, FeedInv, PhaseInv, NoWorkUnauthorized, Running
<1> QED
  BY <1>2, <1>3, <1>4 DEF Inv

-----------------------------------------------------------------------------
(* Steps of the server that leave the provider alone. *)

\* Starting and being told to stop.
LEMMA PhaseStep == Inv /\ (StartOK \/ StartFail \/ Stop) => Inv'
<1> SUFFICES ASSUME Inv, StartOK \/ StartFail \/ Stop PROVE Inv'
  OBVIOUS
<1>1. UNCHANGED <<expired, stage, shape, response, feedVars>>
  BY DEF StartOK, StartFail, Stop
<1>2. /\ phase' \in {"serving", "draining", "exited"}
      /\ exitCode' \in {None, 0, 1}
      /\ phase' = "exited" => phase = "starting"
  BY DEF StartOK, StartFail, Stop, Inv, TypeInv, TypeOK
<1>3. TypeInv'
  BY <1>1, <1>2 DEF Inv, TypeInv, TypeOK, feedVars
<1>4. StageInv' /\ NoWorkUnauthorized'
  BY <1>1 DEF Inv, StageInv, NoWorkUnauthorized, feedVars
<1>5. FeedInv'
  BY <1>1 DEF Inv, FeedInv, feedVars, Feed!Expired
<1>6. PhaseInv'
  BY <1>1, <1>2 DEF Inv, PhaseInv, Running
<1> QED
  BY <1>3, <1>4, <1>5, <1>6 DEF Inv

\* A request comes in, or gets as far as the extraction.
LEMMA RequestStep ==
    ASSUME NEW r \in Requests, Inv,
           (\E s \in Shapes : Accept(r, s)) \/ Process(r)
    PROVE  Inv'
<1>1. UNCHANGED <<phase, exitCode, expired, response, feedVars>>
  BY DEF Accept, Process
<1>2. /\ phase \notin {"starting", "exited"} \/ stage[r] = "accepted"
      /\ phase # "exited"
      /\ stage[r] \in {"new", "accepted"}
  BY DEF Accept, Process
<1>3. PICK next \in {"accepted", "extract"} :
         /\ stage' = [stage EXCEPT ![r] = next]
         /\ next = "extract" /\ AuthRequired => shape'[r].keyGood
  BY DEF Accept, Process, Unauthorized
<1>4. /\ shape' \in [Requests -> Shapes \cup {None}]
      /\ shape'[r] \in Shapes
      /\ \A q \in Requests : q # r => shape'[q] = shape[q]
  BY DEF Accept, Process, Inv, TypeInv, TypeOK
<1>5. /\ stage' \in [Requests -> {"new", "answered", "killed"} \cup Running]
      /\ stage'[r] = next
      /\ \A q \in Requests : q # r => stage'[q] = stage[q]
  BY <1>3 DEF Inv, TypeInv, TypeOK, Running
<1>6. TypeInv'
  BY <1>1, <1>2, <1>4, <1>5 DEF Inv, TypeInv, TypeOK, feedVars
<1>7. StageInv'
  BY <1>1, <1>2, <1>5 DEF Inv, StageInv, feedVars
<1>8. FeedInv'
  BY <1>1 DEF Inv, FeedInv, feedVars, Feed!Expired
<1>9. PhaseInv'
  BY <1>1, <1>2, <1>5 DEF Inv, PhaseInv
<1>10. NoWorkUnauthorized'
  BY <1>1, <1>2, <1>3, <1>4, <1>5
     DEF Inv, NoWorkUnauthorized, StageInv, feedVars
<1> QED
  BY <1>6, <1>7, <1>8, <1>9, <1>10 DEF Inv

\* A request is rejected, or nothing can be extracted from it.
LEMMA RejectStep ==
    ASSUME NEW r \in Requests, Inv, Reject(r) \/ ExtractFail(r)
    PROVE  Inv'
<1>1. UNCHANGED <<phase, exitCode, expired, shape, feedVars>> /\ phase # "exited"
  BY DEF Reject, ExtractFail, Answer
<1>2. PICK code \in {400, 401, 415, 422} :
         /\ stage[r] \in {"accepted", "extract"}
         /\ stage' = [stage EXCEPT ![r] = "answered"]
         /\ response' = [response EXCEPT ![r] = code]
  BY DEF Reject, ExtractFail, Answer, ErrorStatus
<1>3. /\ stage'[r] = "answered" /\ response'[r] = code
      /\ \A q \in Requests : q # r => stage'[q] = stage[q] /\ response'[q] = response[q]
      /\ response' \in [Requests -> Codes \cup {None}]
      /\ stage' \in [Requests -> {"new", "answered", "killed"} \cup Running]
  BY <1>2 DEF Inv, TypeInv, TypeOK, Codes
<1>4. code # None
  BY ServiceAssumption
<1>5. TypeInv'
  BY <1>1, <1>2, <1>3, <1>4 DEF Inv, TypeInv, TypeOK, feedVars
<1>6. StageInv'
  BY <1>1, <1>2, <1>3 DEF Inv, StageInv, feedVars
<1>7. FeedInv'
  BY <1>1 DEF Inv, FeedInv, feedVars, Feed!Expired
<1>8. PhaseInv'
  BY <1>1, <1>2, <1>3 DEF Inv, PhaseInv
<1>9. NoWorkUnauthorized'
  BY <1>1, <1>3 DEF Inv, NoWorkUnauthorized, feedVars
<1> QED
  BY <1>5, <1>6, <1>7, <1>8, <1>9 DEF Inv

-----------------------------------------------------------------------------
(* Steps of the provider. *)

\* Publishing and the clock only take out of the feed what has expired.
LEMMA FeedKept ==
    ASSUME Inv, NEW r \in Requests,
           published' = published \cup {r}, entry[r] \in feed', now' = now,
           \A e \in feed \ feed' : Feed!Expired(e), entry' = entry
    PROVE  FeedInv'
<1>1. ASSUME NEW q \in published' PROVE entry[q] \in feed' \/ Feed!Expired(entry[q])
  BY <1>1 DEF Inv, FeedInv
<1> QED
  BY <1>1 DEF FeedInv, Feed!Expired

LEMMA PublishStep ==
    ASSUME NEW r \in Requests, Inv, ProviderPublish(r)
    PROVE  Inv'
<1>1. /\ UNCHANGED <<phase, exitCode, expired, stage, shape, response>>
      /\ UNCHANGED <<now, status, entry>>
      /\ status[r] = "pending"
      /\ published' = published \cup {r}
      /\ entry[r] \in feed'
      /\ \A e \in feed \ feed' : Feed!Expired(e)
  BY DEF ProviderPublish, serverVars, Feed!Publish
<1>2. TypeInv'
  BY <1>1 DEF Inv, TypeInv, TypeOK
<1>3. StageInv'
  BY <1>1 DEF Inv, StageInv
<1>4. FeedInv'
  BY <1>1, FeedKept
<1>5. PhaseInv' /\ NoWorkUnauthorized'
  BY <1>1 DEF Inv, PhaseInv, NoWorkUnauthorized, Running
<1> QED
  BY <1>2, <1>3, <1>4, <1>5 DEF Inv

LEMMA ClockStep == Inv /\ Tick => Inv'
<1> SUFFICES ASSUME Inv, Tick PROVE Inv'
  OBVIOUS
<1>1. /\ UNCHANGED <<phase, exitCode, expired, stage, shape, response>>
      /\ UNCHANGED <<feed, status, entry, published>>
      /\ now' = now + 1 /\ now \in Nat
  BY DEF Tick, serverVars, Feed!Tick, Inv, TypeInv
<1>2. TypeInv'
  BY <1>1 DEF Inv, TypeInv, TypeOK
<1>3. StageInv' /\ PhaseInv' /\ NoWorkUnauthorized'
  BY <1>1 DEF Inv, StageInv, PhaseInv, NoWorkUnauthorized, Running
<1>4. ASSUME NEW r \in published, entry[r].dtend <= now - TTL
      PROVE  entry[r].dtend <= now' - TTL
  <2>1. r \in Requests /\ status[r] # "idle"
    BY DEF Inv, TypeInv, TypeOK, StageInv
  <2>2. entry[r].dtend \in Ends
    BY <2>1 DEF Inv, TypeInv, TypeOK
  <2>3. entry[r].dtend \in Int /\ TTL \in Nat
    BY <2>2, ServiceAssumption
  <2> QED
    BY <1>1, <1>4, <2>3
<1>5. FeedInv'
  <2> SUFFICES ASSUME NEW r \in published
               PROVE  entry[r] \in feed \/ Feed!Expired(entry[r])'
    BY <1>1 DEF FeedInv
  <2>1. CASE entry[r] \in feed
    BY <2>1
  <2>2. CASE Feed!Expired(entry[r])
    <3>1. entry[r].dtend # 0 /\ entry[r].dtend <= now' - TTL
      BY <1>4, <2>2 DEF Feed!Expired
    <3>2. entry' = entry
      BY <1>1
    <3>3. Feed!Expired(entry[r])'
      BY <3>1, <3>2 DEF Feed!Expired
    <3> QED
      BY <3>3
  <2> QED
    BY <2>1, <2>2 DEF Inv, FeedInv
<1> QED
  BY <1>2, <1>3, <1>5 DEF Inv

\* CreateEvent begins.
LEMMA BeginStep ==
    ASSUME NEW r \in Requests, NEW end \in Ends, Inv, ExtractOK(r, end)
    PROVE  Inv'
<1>1. /\ UNCHANGED <<phase, exitCode, expired, shape, response>>
      /\ UNCHANGED <<feed, now, published>>
      /\ phase # "exited" /\ stage[r] = "extract" /\ status[r] = "idle"
      /\ stage' = [stage EXCEPT ![r] = "create"]
      /\ status' = [status EXCEPT ![r] = "pending"]
      /\ entry' = [entry EXCEPT ![r] = [id |-> r, dtend |-> end]]
  BY DEF ExtractOK, Feed!Begin
<1>2. /\ stage'[r] = "create" /\ status'[r] = "pending"
      /\ entry'[r] = [id |-> r, dtend |-> end]
      /\ \A q \in Requests : q # r =>
            stage'[q] = stage[q] /\ status'[q] = status[q] /\ entry'[q] = entry[q]
  BY <1>1 DEF Inv, TypeInv, TypeOK
<1>3. TypeInv'
  BY <1>1, <1>2 DEF Inv, TypeInv, TypeOK, Running
<1>4. StageInv'
  <2>1. r \notin published /\ response[r] \notin {201, 400, 401, 415, 422}
    <3>1. r \notin published /\ response[r] = None
      BY <1>1 DEF Inv, StageInv, TypeInv, TypeOK
    <3> QED
      BY <3>1, ServiceAssumption
  <2> QED
    BY <1>1, <1>2, <2>1 DEF Inv, StageInv
<1>5. FeedInv'
  <2>1. r \notin published /\ published \subseteq Requests
    BY <1>1 DEF Inv, StageInv, TypeInv, TypeOK
  <2> QED
    BY <1>1, <1>2, <2>1 DEF Inv, FeedInv, Feed!Expired
<1>6. PhaseInv'
  BY <1>1, <1>2 DEF Inv, PhaseInv
<1>7. NoWorkUnauthorized'
  BY <1>1, <1>2 DEF Inv, NoWorkUnauthorized
<1> QED
  BY <1>3, <1>4, <1>5, <1>6, <1>7 DEF Inv

\* CreateEvent returns.
LEMMA ReturnStep ==
    ASSUME NEW r \in Requests, Inv, CreateOK(r) \/ CreateFail(r)
    PROVE  Inv'
<1>1. /\ UNCHANGED <<phase, exitCode, expired, shape, feed, now, entry, published>>
      /\ phase # "exited" /\ stage[r] = "create"
      /\ stage' = [stage EXCEPT ![r] = "answered"]
  BY DEF CreateOK, CreateFail, Answer, Feed!Acknowledge, Feed!Fail
<1>2. PICK code \in {201, 500}, s \in {"done", "failed"} :
         /\ response' = [response EXCEPT ![r] = code]
         /\ status' = [status EXCEPT ![r] = s]
         /\ code = 201 => s = "done"
         /\ s = "done" => r \in published
  BY DEF CreateOK, CreateFail, Answer, Feed!Acknowledge, ErrorStatus,
         ExtractionFailures
<1>3. /\ stage'[r] = "answered" /\ response'[r] = code /\ status'[r] = s
      /\ \A q \in Requests : q # r =>
            /\ stage'[q] = stage[q]
            /\ response'[q] = response[q]
            /\ status'[q] = status[q]
      /\ response' \in [Requests -> Codes \cup {None}]
  BY <1>1, <1>2 DEF Inv, TypeInv, TypeOK, Codes
<1>4. code # None /\ status[r] = "pending"
  BY <1>1, ServiceAssumption DEF Inv, StageInv
<1>5. TypeInv'
  BY <1>1, <1>2, <1>3, <1>4 DEF Inv, TypeInv, TypeOK, Running
<1>6. StageInv'
  BY <1>1, <1>2, <1>3 DEF Inv, StageInv
<1>7. FeedInv'
  BY <1>1 DEF Inv, FeedInv, Feed!Expired
<1>8. PhaseInv'
  BY <1>1, <1>3 DEF Inv, PhaseInv
<1>9. NoWorkUnauthorized'
  BY <1>1, <1>3, <1>4 DEF Inv, NoWorkUnauthorized
<1> QED
  BY <1>5, <1>6, <1>7, <1>8, <1>9 DEF Inv

-----------------------------------------------------------------------------
(* The end of the process. *)

LEMMA ExitStep == Inv /\ (DrainDone \/ DrainTimeout) => Inv'
<1> SUFFICES ASSUME Inv, DrainDone \/ DrainTimeout PROVE Inv'
  OBVIOUS
<1>1. /\ UNCHANGED <<shape, response, feed, now, entry, published>>
      /\ phase' = "exited" /\ exitCode' = 0
      /\ stage' = [r \in Requests |-> IF stage[r] \in Running THEN "killed"
                                      ELSE stage[r]]
      /\ status' = [r \in Requests |-> IF status[r] = "pending" THEN "failed"
                                       ELSE status[r]]
  BY DEF DrainDone, DrainTimeout, Exit, Feed!Fail
<1>2. /\ expired' \in BOOLEAN
      /\ expired => expired'
      /\ ~expired' => \A r \in Requests : stage[r] \notin Running
  BY DEF DrainDone, DrainTimeout, Inv, TypeInv, TypeOK
<1>3. TypeInv'
  BY <1>1, <1>2 DEF Inv, TypeInv, TypeOK, Running
<1>4. StageInv'
  BY <1>1 DEF Inv, StageInv, Running
<1>5. FeedInv'
  BY <1>1 DEF Inv, FeedInv, Feed!Expired
<1>6. PhaseInv'
  BY <1>1, <1>2 DEF Inv, PhaseInv, Running
<1>7. NoWorkUnauthorized'
  BY <1>1 DEF Inv, NoWorkUnauthorized, Running
<1> QED
  BY <1>3, <1>4, <1>5, <1>6, <1>7 DEF Inv

LEMMA StutterStep == Inv /\ UNCHANGED vars => Inv'
<1> SUFFICES ASSUME Inv, UNCHANGED vars PROVE Inv'
  OBVIOUS
<1>1. TypeInv' /\ StageInv' /\ PhaseInv' /\ NoWorkUnauthorized'
  BY DEF vars, serverVars, feedVars, Inv, TypeInv, TypeOK, StageInv, PhaseInv,
         NoWorkUnauthorized
<1>2. FeedInv'
  BY DEF vars, feedVars, Inv, FeedInv, Feed!Expired
<1> QED
  BY <1>1, <1>2 DEF Inv

LEMMA InvStep == Inv /\ [Next]_vars => Inv'
BY PhaseStep, RequestStep, RejectStep, PublishStep, ClockStep, BeginStep,
   ReturnStep, ExitStep, StutterStep
   DEF Next, Handle, Terminated

LEMMA InvAlways == Spec => []Inv
BY InvInit, InvStep, PTL DEF Spec

-----------------------------------------------------------------------------
\* The type invariant: a request has an answer exactly when it was answered.
THEOREM TypeCorrect == Spec => []TypeOK
BY InvAlways, PTL DEF Inv, TypeInv

\* 201 means that the event is in the calendar until it expires, whatever
\* becomes of the process (server.go:107, 132).
THEOREM CreatedCorrect == Spec => []CreatedIsThere
<1>1. Inv => CreatedIsThere
  BY DEF Inv, StageInv, FeedInv, CreatedIsThere
<1> QED
  BY <1>1, InvAlways, PTL

\* An answer that blames the client means that nothing was created: errors of
\* the provider are never reported as 422 (server.go:137-144).
THEOREM RejectionCorrect == Spec => []RejectedHasNoEffect
<1>1. Inv => RejectedHasNoEffect
  <2> SUFFICES ASSUME Inv, NEW r \in Requests, r \in published
               PROVE  response[r] \in {201, 500} \/ stage[r] \in {"create", "killed"}
    BY DEF RejectedHasNoEffect
  <2>1. status[r] # "idle" /\ stage[r] \in {"create", "answered", "killed"}
    BY DEF Inv, StageInv, TypeInv, TypeOK, Running
  <2>2. response[r] \notin {400, 401, 415, 422}
    BY <2>1 DEF Inv, StageInv
  <2> QED
    BY <2>1, <2>2 DEF Inv, TypeInv, TypeOK
<1> QED
  BY <1>1, InvAlways, PTL

\* Neither the LLM nor the calendar is asked for a request without the key
\* (server.go:146-157).
THEOREM Authenticated == Spec => []NoWorkUnauthorized
BY InvAlways, PTL DEF Inv

\* No request is cut off unless the 15 seconds of the drain run out
\* (main.go:62-67).
THEOREM DrainCorrect == Spec => []CleanExit
<1>1. Inv => CleanExit
  <2> SUFFICES ASSUME Inv, phase = "exited", ~expired, NEW r \in Requests
               PROVE  stage[r] \in {"new", "answered"}
    BY DEF CleanExit
  <2>1. stage[r] \notin Running /\ stage[r] # "killed"
    BY DEF Inv, PhaseInv
  <2> QED
    BY <2>1 DEF Inv, TypeInv, TypeOK
<1> QED
  BY <1>1, InvAlways, PTL
=============================================================================
