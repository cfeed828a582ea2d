------------------------------- MODULE Service -------------------------------
(***************************************************************************)
(* One process of the service (cmd/calendar-assistent, internal/server,    *)
(* internal/processor): it starts, serves HTTP requests, and drains them   *)
(* for at most 15 seconds once it is told to stop.  A request goes through *)
(* authentication, validation, the extraction by the LLM and CreateEvent   *)
(* of the calendar provider.  The provider is any implementation of        *)
(* CalendarFeed: its steps are the steps of that specification.            *)
(***************************************************************************)
EXTENDS Integers

CONSTANTS
    Requests,     \* HTTP requests
    Shapes,       \* what a request may look like, see Shape
    AuthRequired, \* is server.apiKey set?
    Ends,         \* the ends of the VEVENTs a provider may make of an event
    TTL,          \* eventTtl of the provider
    LastTime,     \* bound: the clock stops here
    None          \* nothing yet

ASSUME ServiceAssumption ==
    /\ AuthRequired \in BOOLEAN
    /\ None \notin Nat
    /\ Ends \subseteq Int
    /\ TTL \in Nat
    /\ LastTime \in Nat

VARIABLES
    phase,    \* of main: starting, serving, draining, exited
    exitCode, \* of the process
    expired,  \* did the 15 seconds of the drain run out?
    stage,    \* stage[r]: where the handler of r is
    shape,    \* shape[r]: what r looks like
    response, \* response[r]: the status written for r
    feed, now, status, entry, published  \* of the provider, see CalendarFeed

Feed == INSTANCE CalendarFeed WITH Calls <- Requests, StoredEvents <- {}

serverVars == <<phase, exitCode, expired, stage, shape, response>>
feedVars == <<feed, now, status, entry, published>>
vars == <<serverVars, feedVars>>

Running == {"accepted", "extract", "create"}

-----------------------------------------------------------------------------
(* What a request looks like. *)

OctetStream == "application/octet-stream"

allowedMIMETypes ==
    {"image/png", "image/jpeg", "image/gif", "image/webp",
     "application/pdf", "text/plain", "text/html"}

TypeOfSuffix ==
    [png |-> "image/png", jpg |-> "image/jpeg", jpeg |-> "image/jpeg",
     gif |-> "image/gif", webp |-> "image/webp", pdf |-> "application/pdf",
     txt |-> "text/plain", html |-> "text/html", htm |-> "text/html"]

\* The media type of a Content-Type header and whether it has parameters, as
\* in text/plain; charset=utf-8.
ContentType ==
    [media : allowedMIMETypes \cup {"", OctetStream, "application/zip"},
     params : BOOLEAN]

\* body: unreadable (too large, no multipart form, bad JSON), empty (no file
\* field, blank text) or given.
Shape ==
    [route : {"artifact", "text"}, keyGood : BOOLEAN,
     body : {"unreadable", "empty", "given"},
     type : ContentType, suffix : DOMAIN TypeOfSuffix \cup {"other"}]

detectMIMEType(suffix) ==
    IF suffix \in DOMAIN TypeOfSuffix THEN TypeOfSuffix[suffix] ELSE OctetStream

\* The header is compared as a whole: with parameters it is no member.
Allowed(s) ==
    IF s.type.params THEN FALSE
    ELSE IF s.type.media \in {"", OctetStream}
         THEN detectMIMEType(s.suffix) \in allowedMIMETypes
         ELSE s.type.media \in allowedMIMETypes

Unauthorized(s) == AuthRequired /\ ~s.keyGood
BadRequest(s) == s.body # "given"
Unsupported(s) == s.route = "artifact" /\ ~Allowed(s)

-----------------------------------------------------------------------------
Init ==
    /\ phase = "starting"
    /\ exitCode = None
    /\ expired = FALSE
    /\ stage = [r \in Requests |-> "new"]
    /\ shape = [r \in Requests |-> None]
    /\ response = [r \in Requests |-> None]
    /\ feed = {}
    /\ now = 0
    /\ status = [r \in Requests |-> "idle"]
    /\ entry = [r \in Requests |-> None]
    /\ published = {}

StartOK ==
    /\ phase = "starting"
    /\ phase' = "serving"
    /\ UNCHANGED <<exitCode, expired, stage, shape, response, feedVars>>

\* Bad configuration, or one of the two clients cannot be made of it.
StartFail ==
    /\ phase = "starting"
    /\ phase' = "exited"
    /\ exitCode' = 1
    /\ UNCHANGED <<expired, stage, shape, response, feedVars>>

\* Connections are accepted until the listener is closed.
Accept(r, s) ==
    /\ phase = "serving"
    /\ stage[r] = "new"
    /\ stage' = [stage EXCEPT ![r] = "accepted"]
    /\ shape' = [shape EXCEPT ![r] = s]
    /\ UNCHANGED <<phase, exitCode, expired, response, feedVars>>

\* Nothing runs in the process once main has returned.
Answer(r, code) ==
    /\ phase # "exited"
    /\ stage' = [stage EXCEPT ![r] = "answered"]
    /\ response' = [response EXCEPT ![r] = code]
    /\ UNCHANGED <<phase, exitCode, expired, shape>>

Reject(r) ==
    /\ stage[r] = "accepted"
    /\ \/ Unauthorized(shape[r]) /\ Answer(r, 401)
       \/ ~Unauthorized(shape[r]) /\ BadRequest(shape[r]) /\ Answer(r, 400)
       \/ /\ ~Unauthorized(shape[r]) /\ ~BadRequest(shape[r])
          /\ Unsupported(shape[r])
          /\ Answer(r, 415)
    /\ UNCHANGED feedVars

ProcessUnauthenticated(r) == \* mutant: a route without withAuth
    /\ phase # "exited"
    /\ stage[r] = "accepted"
    /\ ~BadRequest(shape[r]) /\ ~Unsupported(shape[r])
    /\ stage' = [stage EXCEPT ![r] = "extract"]
    /\ UNCHANGED <<phase, exitCode, expired, shape, response, feedVars>>

\* ProcessArtifact asks the LLM.
Process(r) ==
    /\ phase # "exited"
    /\ stage[r] = "accepted"
    /\ ~Unauthorized(shape[r]) /\ ~BadRequest(shape[r]) /\ ~Unsupported(shape[r])
    /\ stage' = [stage EXCEPT ![r] = "extract"]
    /\ UNCHANGED <<phase, exitCode, expired, shape, response, feedVars>>

ExtractionFailures == {"llm error", "empty title"}

ErrorStatusSwapped(cause) == IF cause = "provider" THEN 422 ELSE 500 \* mutant

ErrorStatusUnset(cause) == IF cause \in ExtractionFailures THEN 422 ELSE 200 \* mutant

ErrorStatus(cause) == IF cause \in ExtractionFailures THEN 422 ELSE 500

\* The LLM is not reached, answers no JSON event, or an event without title.
ExtractFail(r) ==
    /\ stage[r] = "extract"
    /\ \E cause \in ExtractionFailures : Answer(r, ErrorStatus(cause))
    /\ UNCHANGED feedVars

\* An event with a title: the provider's CreateEvent begins.
ExtractOK(r, end) ==
    /\ phase # "exited"
    /\ stage[r] = "extract"
    /\ stage' = [stage EXCEPT ![r] = "create"]
    /\ entry' = [entry EXCEPT ![r] = [id |-> r, dtend |-> end]]
    /\ Feed!Begin(r)
    /\ UNCHANGED <<phase, exitCode, expired, shape, response>>

\* Inside CreateEvent.
ProviderPublish(r) ==
    /\ phase # "exited"
    /\ \E kept \in SUBSET feed : feed' = kept \cup {entry[r]}
    /\ Feed!Publish(r)
    /\ UNCHANGED serverVars

CreateOK(r) ==
    /\ stage[r] = "create"
    /\ Feed!Acknowledge(r)
    /\ Answer(r, 201)

CreateFailIgnored(r) == \* mutant: the error of CreateEvent is not looked at
    /\ stage[r] = "create"
    /\ status' = [status EXCEPT ![r] = "failed"]
    /\ Feed!Fail
    /\ Answer(r, 201)

CreateFail(r) ==
    /\ stage[r] = "create"
    /\ status' = [status EXCEPT ![r] = "failed"]
    /\ Feed!Fail
    /\ Answer(r, ErrorStatus("provider"))

-----------------------------------------------------------------------------
(* The end of the process. *)

\* SIGINT, SIGTERM, or the listener fails: main calls Shutdown.
Stop ==
    /\ phase = "serving"
    /\ phase' = "draining"
    /\ UNCHANGED <<exitCode, expired, stage, shape, response, feedVars>>

\* main returns, and what is still running goes with it.
Exit ==
    /\ phase' = "exited"
    /\ exitCode' = 0
    /\ stage' = [r \in Requests |-> IF stage[r] \in Running THEN "killed"
                                    ELSE stage[r]]
    /\ status' = [r \in Requests |-> IF status[r] = "pending" THEN "failed"
                                     ELSE status[r]]
    /\ Feed!Fail
    /\ UNCHANGED <<shape, response>>

DrainDoneEarly == \* mutant: main returns with ListenAndServe
    /\ phase = "draining"
    /\ Exit
    /\ UNCHANGED expired

\* Shutdown returns once no request is being handled.
DrainDone ==
    /\ phase = "draining"
    /\ \A r \in Requests : stage[r] \notin Running
    /\ Exit
    /\ UNCHANGED expired

DrainTimeoutNever == \* mutant: Shutdown without a deadline
    /\ phase = "draining" /\ FALSE
    /\ UNCHANGED vars

\* The context of Shutdown expires after 15 seconds.
DrainTimeout ==
    /\ phase = "draining"
    /\ \E r \in Requests : stage[r] \in Running
    /\ expired' = TRUE
    /\ Exit

Tick ==
    /\ now < LastTime
    /\ now' = now + 1
    /\ Feed!Tick
    /\ UNCHANGED serverVars

Terminated ==
    /\ phase = "exited"
    /\ UNCHANGED vars

Handle(r) ==
    \/ Reject(r)
    \/ Process(r)
    \/ ExtractFail(r)
    \/ \E end \in Ends : ExtractOK(r, end)
    \/ ProviderPublish(r)
    \/ CreateOK(r)
    \/ CreateFail(r)

Next ==
    \/ StartOK \/ StartFail
    \/ \E r \in Requests :
          \/ \E s \in Shapes : Accept(r, s)
          \/ Handle(r)
    \/ Stop \/ DrainDone \/ DrainTimeout
    \/ Tick
    \/ Terminated

Spec == Init /\ [][Next]_vars

\* Handlers may take as long as they like (an SMTP session has no deadline);
\* Shutdown notices that they are done or that its own time is up.
FairSpec == Spec /\ WF_vars(DrainDone) /\ WF_vars(DrainTimeout)

-----------------------------------------------------------------------------
(* Properties. *)

TypeOK ==
    /\ phase \in {"starting", "serving", "draining", "exited"}
    /\ exitCode \in {None, 0, 1}
    /\ expired \in BOOLEAN
    /\ stage \in [Requests -> {"new", "answered", "killed"} \cup Running]
    /\ \A r \in Requests : stage[r] # "new" => shape[r] \in Shapes
    /\ \A r \in Requests :
          /\ response[r] \in {None, 201, 400, 401, 415, 422, 500}
          /\ response[r] # None <=> stage[r] = "answered"
    /\ status \in [Requests -> {"idle", "pending", "done", "failed"}]
    /\ published \subseteq Requests
    /\ \A r \in Requests :
          status[r] # "idle" => entry[r].id = r /\ entry[r].dtend \in Ends

\* A client that was told 201 finds its event in the calendar, until it may
\* be pruned, whatever happens to the process (server.go:107, 132).
CreatedIsThere ==
    \A r \in Requests :
        response[r] = 201 => entry[r] \in feed \/ Feed!Expired(entry[r])

\* An event is in the calendar only for a request that got 201 or 500, was
\* killed, or is still in CreateEvent: an answer that blames the client
\* (400, 401, 415, 422) means that nothing was created.
RejectedHasNoEffect ==
    \A r \in Requests : r \in published =>
        \/ response[r] \in {201, 500}
        \/ stage[r] \in {"create", "killed"}

\* With an API key configured, neither the LLM nor the provider works for a
\* request without the key (withAuth around both POST routes).
NoWorkUnauthorized ==
    AuthRequired =>
        \A r \in Requests :
            stage[r] \in {"extract", "create"} \/ status[r] # "idle" =>
                shape[r].keyGood

\* If the drain did not run out of time, no request was cut off: main waits
\* for Shutdown, not for ListenAndServe.
CleanExit ==
    phase = "exited" /\ ~expired =>
        \A r \in Requests : stage[r] \in {"new", "answered"}

\* A process that has been told to stop exits, even if a handler hangs.
StopsEventually == phase = "draining" ~> phase = "exited"
=============================================================================
