--------------------------- MODULE RemoteCalendar ---------------------------
(***************************************************************************)
(* What a client of a calendar that somebody else keeps, or also writes to, *)
(* can promise: an event is created at most once for each call and never   *)
(* before it, and a call that succeeded has created it.  A call that       *)
(* failed promises nothing: its event may exist, or may even turn up       *)
(* later.  GoogleCalendar.tla is shown to implement this specification,    *)
(* and Webcal.tla, too, with any number of replicas and late PUTs.         *)
(***************************************************************************)
CONSTANT
    Calls  \* the CreateEvent calls

VARIABLES
    status,  \* status[c]: idle, pending, done or failed
    created  \* the calls whose event is in the calendar

vars == <<status, created>>

Init ==
    /\ status = [c \in Calls |-> "idle"]
    /\ created = {}

Begin(c) ==
    /\ status[c] = "idle"
    /\ status' = [status EXCEPT ![c] = "pending"]
    /\ UNCHANGED created

Create(c) ==
    /\ status[c] \in {"pending", "failed"}
    /\ c \notin created
    /\ created' = created \cup {c}
    /\ UNCHANGED status

Succeed(c) ==
    /\ status[c] = "pending"
    /\ c \in created
    /\ status' = [status EXCEPT ![c] = "done"]
    /\ UNCHANGED created

\* One call, or all those that a process had in hand when it died.
Fail(failing) ==
    /\ \A c \in failing : status[c] = "pending"
    /\ status' = [c \in Calls |-> IF c \in failing THEN "failed" ELSE status[c]]
    /\ UNCHANGED created

Next ==
    \/ \E c \in Calls : Begin(c) \/ Create(c) \/ Succeed(c)
    \/ \E failing \in SUBSET Calls : Fail(failing)

Spec == Init /\ [][Next]_vars
=============================================================================
