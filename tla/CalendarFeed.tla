---------------------------- MODULE CalendarFeed ----------------------------
(***************************************************************************)
(* What a published calendar feed promises, without saying how: a request  *)
(* to create an event is acknowledged only after its VEVENT has been       *)
(* published, a request that has failed is never published afterwards, and *)
(* publishing takes nothing out of the feed except VEVENTs whose end lies  *)
(* further back than the time to live (README.md, "Webcal", steps 1 to 4). *)
(* Webcal.tla is shown to implement this specification when one replica    *)
(* writes the object.                                                      *)
(***************************************************************************)
EXTENDS Integers

CONSTANTS
    Calls,        \* the CreateEvent requests
    StoredEvents, \* the VEVENTs the feed may hold before the first request
    TTL,          \* eventTtl
    None          \* "no VEVENT yet"

VARIABLES
    feed,      \* the VEVENTs a subscriber would download
    now,       \* wall clock
    status,    \* status[c]: idle, pending, done or failed
    entry,     \* entry[c]: the VEVENT request c asks for
    published  \* the requests whose VEVENT has reached the feed

vars == <<feed, now, status, entry, published>>

\* A VEVENT without an end never expires.
Expired(e) == e.dtend # 0 /\ e.dtend <= now - TTL

Init ==
    /\ feed \in SUBSET StoredEvents
    /\ now \in Nat
    /\ status = [c \in Calls |-> "idle"]
    /\ entry = [c \in Calls |-> None]
    /\ published = {}

Begin(c) ==
    /\ status[c] = "idle"
    /\ status' = [status EXCEPT ![c] = "pending"]
    /\ \A d \in Calls \ {c} : entry'[d] = entry[d]
    /\ entry'[c].id = c
    /\ UNCHANGED <<feed, now, published>>

Publish(c) ==
    /\ status[c] = "pending"
    /\ c \notin published
    /\ published' = published \cup {c}
    /\ feed' \subseteq feed \cup {entry[c]}
    /\ entry[c] \in feed'
    /\ \A e \in feed \ feed' : Expired(e)
    /\ UNCHANGED <<now, status, entry>>

Acknowledge(c) ==
    /\ status[c] = "pending"
    /\ c \in published
    /\ status' = [status EXCEPT ![c] = "done"]
    /\ UNCHANGED <<feed, now, entry, published>>

\* A failure tells the caller nothing about what was published before it.
Fail ==
    /\ \A c \in Calls :
          \/ status'[c] = status[c]
          \/ status[c] = "pending" /\ status'[c] = "failed"
    /\ status' = [c \in Calls |-> status'[c]]
    /\ UNCHANGED <<feed, now, entry, published>>

Tick ==
    /\ now' \in Nat
    /\ now' > now
    /\ UNCHANGED <<feed, status, entry, published>>

Next ==
    \/ \E c \in Calls : Begin(c) \/ Publish(c) \/ Acknowledge(c)
    \/ Fail
    \/ Tick

Spec == Init /\ [][Next]_vars
=============================================================================
