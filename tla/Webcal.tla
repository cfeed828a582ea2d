------------------------------- MODULE Webcal -------------------------------
(***************************************************************************)
(* The webcal provider (internal/calendar/webcal): every CreateEvent is a  *)
(* read-modify-write of one .ics object in S3, serialised inside one       *)
(* process by a sync.Mutex and by nothing across processes.  One action    *)
(* per step at which another goroutine, another replica, the store or the  *)
(* caller can get in between: taking the mutex, the answer to the GET, the *)
(* rewriting of the file in memory, the sending of the PUT, the moment the *)
(* store applies it, and the answer.                                       *)
(*                                                                         *)
(* The object is the set of its VEVENTs.  What the properties need of a    *)
(* VEVENT is who wrote it, its DTSTART and its DTEND: 0 is Go's zero time, *)
(* January 1 of year 1, which is also what a missing property parses to.   *)
(***************************************************************************)
EXTENDS Integers, FiniteSets

CONSTANTS
    Calls,        \* CreateEvent calls
    Procs,        \* replicas of the service, each with its own mutex
    None,         \* a free mutex; a field not yet set
    StoredEvents, \* the VEVENTs the object may hold at the start
    Extracted,    \* the event times an extraction may return: [start, end]
    Hour,         \* time.Hour
    TTL,          \* eventTtl
    FirstInstant, \* the first instant of year 0, and ...
    LastInstant,  \* ... the last of year 9999: what has a year of four digits
    FirstTime,    \* bound: the clock runs from here ...
    LastTime,     \* ... to here
    LateCommit    \* may the store apply a PUT whose caller has given up?

ASSUME WebcalAssumption ==
    /\ None \notin Calls
    /\ None \notin Procs
    /\ Extracted \subseteq [start : Int, end : Int]
    /\ StoredEvents \subseteq
          [id : {e.id : e \in StoredEvents}, dtstart : Int, dtend : Int]
    /\ \A e \in StoredEvents : e.id \notin Calls
    /\ Hour \in Nat \ {0}
    /\ TTL \in Nat
    /\ FirstInstant \in Int /\ FirstInstant <= 0
    /\ LastInstant \in Nat
    /\ FirstTime \in Nat
    /\ LastTime \in Nat
    /\ LateCommit \in BOOLEAN

VARIABLES
    object,    \* the .ics object in the bucket; a missing object is empty
    now,       \* wall clock
    mu,        \* mu[p]: the call holding the provider's mutex in replica p
    pc,        \* pc[c]: where call c is
    proc,      \* proc[c]: the replica that serves c
    event,     \* event[c]: the extracted event times
    began,     \* began[c]: when c was called (history)
    file,      \* file[c]: the VEVENTs c holds in memory
    put,       \* put[c]: c's PUT: none, sent, applied
    cancelled  \* the calls whose request context is done

vars == <<object, now, mu, pc, proc, event, began, file, put, cancelled>>

Critical == {"download", "rewrite", "upload"}
Returned == {"ok", "err", "lost"}

-----------------------------------------------------------------------------
(* Times of a VEVENT. *)

EndTimeZeroOnly(d) == IF d.end = 0 THEN d.start + Hour ELSE d.end \* mutant

EndTime(d) == IF d.end = 0 \/ d.end <= d.start THEN d.start + Hour ELSE d.end

NewVEvent(c, d) == [id |-> c, dtstart |-> d.start, dtend |-> EndTime(d)]

\* The cutoff is taken when pruneExpired runs.
PruneExpired(events, t) ==
    {e \in events : e.dtend = 0 \/ e.dtend > t - TTL}

\* In UTC a time may fall into the year before 0 or after 9999.  Format writes
\* that with a sign or with five digits, and Parse refuses it.
Legible(t) == FirstInstant <= t /\ t <= LastInstant

Parseable(events) == \A e \in events : Legible(e.dtstart) /\ Legible(e.dtend)

-----------------------------------------------------------------------------
Init ==
    /\ object \in SUBSET StoredEvents
    /\ now = FirstTime
    /\ mu = [p \in Procs |-> None]
    /\ pc = [c \in Calls |-> "idle"]
    /\ proc = [c \in Calls |-> None]
    /\ event = [c \in Calls |-> None]
    /\ began = [c \in Calls |-> FirstTime]
    /\ file = [c \in Calls |-> {}]
    /\ put = [c \in Calls |-> "none"]
    /\ cancelled = {}

\* The processor calls CreateEvent in some replica.
Call(c, p, d) ==
    /\ pc[c] = "idle"
    /\ pc' = [pc EXCEPT ![c] = "lock"]
    /\ proc' = [proc EXCEPT ![c] = p]
    /\ event' = [event EXCEPT ![c] = d]
    /\ began' = [began EXCEPT ![c] = now]
    /\ UNCHANGED <<object, now, mu, file, put, cancelled>>

LockUnchecked(c) == \* mutant: no mutual exclusion
    /\ pc[c] = "lock"
    /\ mu' = [mu EXCEPT ![proc[c]] = c]
    /\ pc' = [pc EXCEPT ![c] = "download"]
    /\ UNCHANGED <<object, now, proc, event, began, file, put, cancelled>>

\* p.mu.Lock() looks at no context: a cancelled call queues like any other.
Lock(c) ==
    /\ pc[c] = "lock"
    /\ mu[proc[c]] = None
    /\ mu' = [mu EXCEPT ![proc[c]] = c]
    /\ pc' = [pc EXCEPT ![c] = "download"]
    /\ UNCHANGED <<object, now, proc, event, began, file, put, cancelled>>

\* Every return runs the deferred p.mu.Unlock().
Return(c, result) ==
    /\ pc' = [pc EXCEPT ![c] = result]
    /\ mu' = [mu EXCEPT ![proc[c]] = None]

DownloadOK(c) ==
    /\ pc[c] = "download"
    /\ c \notin cancelled
    /\ file' = [file EXCEPT ![c] = object]
    /\ pc' = [pc EXCEPT ![c] = "rewrite"]
    /\ UNCHANGED <<object, now, mu, proc, event, began, put, cancelled>>

DownloadFailAsEmpty(c) == \* mutant: every failed GET treated like a 404
    /\ pc[c] = "download"
    /\ file' = [file EXCEPT ![c] = {}]
    /\ pc' = [pc EXCEPT ![c] = "rewrite"]
    /\ UNCHANGED <<object, now, mu, proc, event, began, put, cancelled>>

DownloadFailLocked(c) == \* mutant: an error return that skips Unlock
    /\ pc[c] = "download"
    /\ pc' = [pc EXCEPT ![c] = "err"]
    /\ UNCHANGED <<object, now, mu, proc, event, began, file, put, cancelled>>

\* Connection error, timeout, cancelled context or a status but 200 and 404.
DownloadFail(c) ==
    /\ pc[c] = "download"
    /\ Return(c, "err")
    /\ UNCHANGED <<object, now, proc, event, began, file, put, cancelled>>

ParseFailLocked(c) == \* mutant: an error return that skips Unlock
    /\ pc[c] = "rewrite"
    /\ ~Parseable(file[c])
    /\ pc' = [pc EXCEPT ![c] = "err"]
    /\ UNCHANGED <<object, now, mu, proc, event, began, file, put, cancelled>>

\* One bad VEVENT fails the parsing of the whole file.
ParseFail(c) ==
    /\ pc[c] = "rewrite"
    /\ ~Parseable(file[c])
    /\ Return(c, "err")
    /\ UNCHANGED <<object, now, proc, event, began, file, put, cancelled>>

RewriteUnpruned(c) == \* mutant: appends without pruning
    /\ pc[c] = "rewrite"
    /\ Parseable(file[c])
    /\ file' = [file EXCEPT ![c] = @ \cup {NewVEvent(c, event[c])}]
    /\ pc' = [pc EXCEPT ![c] = "upload"]
    /\ UNCHANGED <<object, now, mu, proc, event, began, put, cancelled>>

Rewrite(c) ==
    /\ pc[c] = "rewrite"
    /\ Parseable(file[c])
    /\ file' = [file EXCEPT ![c] =
                  PruneExpired(@, now) \cup {NewVEvent(c, event[c])}]
    /\ pc' = [pc EXCEPT ![c] = "upload"]
    /\ UNCHANGED <<object, now, mu, proc, event, began, put, cancelled>>

\* The HTTP client sends nothing for a context that is already done.
PutSend(c) ==
    /\ pc[c] = "upload"
    /\ put[c] = "none"
    /\ c \notin cancelled
    /\ put' = [put EXCEPT ![c] = "sent"]
    /\ UNCHANGED <<object, now, mu, pc, proc, event, began, file, cancelled>>

\* The store replaces the object: the last PUT it applies wins.
PutApply(c) ==
    /\ put[c] = "sent"
    /\ pc[c] = "upload" \/ LateCommit
    /\ object' = file[c]
    /\ put' = [put EXCEPT ![c] = "applied"]
    /\ UNCHANGED <<now, mu, pc, proc, event, began, file, cancelled>>

UploadOK(c) ==
    /\ pc[c] = "upload"
    /\ put[c] = "applied"
    /\ c \notin cancelled
    /\ Return(c, "ok")
    /\ UNCHANGED <<object, now, proc, event, began, file, put, cancelled>>

UploadFailIgnored(c) == \* mutant: the error of Upload is not looked at
    /\ pc[c] = "upload"
    /\ Return(c, "ok")
    /\ UNCHANGED <<object, now, proc, event, began, file, put, cancelled>>

\* The store refused, or its answer did not arrive: before the PUT was
\* sent, after it was sent, or after it was applied.
UploadFail(c) ==
    /\ pc[c] = "upload"
    /\ Return(c, "err")
    /\ UNCHANGED <<object, now, proc, event, began, file, put, cancelled>>

-----------------------------------------------------------------------------
(* The environment. *)

\* The HTTP client of the service goes away; r.Context() is done.
Cancel(c) ==
    /\ pc[c] \in {"lock"} \cup Critical
    /\ c \notin cancelled
    /\ cancelled' = cancelled \cup {c}
    /\ UNCHANGED <<object, now, mu, pc, proc, event, began, file, put>>

\* The process dies and is restarted: its mutex and its calls are gone.
Crash(p) ==
    /\ \E c \in Calls : proc[c] = p /\ pc[c] \notin Returned
    /\ mu' = [mu EXCEPT ![p] = None]
    /\ pc' = [c \in Calls |-> IF proc[c] = p /\ pc[c] \notin Returned
                                THEN "lost" ELSE pc[c]]
    /\ UNCHANGED <<object, now, proc, event, began, file, put, cancelled>>

Tick ==
    /\ now < LastTime
    /\ now' = now + 1
    /\ UNCHANGED <<object, mu, pc, proc, event, began, file, put, cancelled>>

\* Nothing is left to do once every call has returned.
Quiesced ==
    /\ \A c \in Calls : pc[c] \in Returned
    /\ UNCHANGED vars

CallStep(c) ==
    \/ Lock(c)
    \/ DownloadOK(c) \/ DownloadFail(c)
    \/ ParseFail(c) \/ Rewrite(c)
    \/ PutSend(c) \/ UploadOK(c) \/ UploadFail(c)

Next ==
    \/ \E c \in Calls :
          \/ \E p \in Procs, d \in Extracted : Call(c, p, d)
          \/ CallStep(c)
          \/ PutApply(c)
          \/ Cancel(c)
    \/ \E p \in Procs : Crash(p)
    \/ Tick
    \/ Quiesced

Spec == Init /\ [][Next]_vars

\* A goroutine blocked in Lock gets the mutex once nobody holds it (calls are
\* finitely many here, so weak fairness is enough), and the 30s timeout of the
\* S3 client ends every GET and PUT one way or the other.
Fairness ==
    \A c \in Calls :
        /\ WF_vars(Lock(c))
        /\ WF_vars(DownloadOK(c) \/ DownloadFail(c))
        /\ WF_vars(ParseFail(c) \/ Rewrite(c))
        /\ WF_vars(PutSend(c) \/ UploadOK(c) \/ UploadFail(c))

FairSpec == Spec /\ Fairness

-----------------------------------------------------------------------------
(* Properties. *)

VEvent ==
    [id : {e.id : e \in StoredEvents} \cup Calls, dtstart : Int, dtend : Int]

\* Type invariant; a VEVENT written by the service ends after it starts,
\* whatever end the extraction returned (ics.go:88-93).
TypeOK ==
    /\ object \in SUBSET VEvent
    /\ now \in Nat
    /\ mu \in [Procs -> Calls \cup {None}]
    /\ pc \in [Calls -> {"idle", "lock"} \cup Critical \cup Returned]
    /\ proc \in [Calls -> Procs \cup {None}]
    /\ event \in [Calls -> Extracted \cup {None}]
    /\ began \in [Calls -> Nat]
    /\ file \in [Calls -> SUBSET VEvent]
    /\ put \in [Calls -> {"none", "sent", "applied"}]
    /\ cancelled \in SUBSET Calls
    /\ \A c \in Calls :
          pc[c] # "idle" => proc[c] \in Procs /\ event[c] \in Extracted
    /\ \A e \in object :
          e.id \in Calls => e.dtstart = event[e.id].start /\ e.dtend > e.dtstart

\* The mutex of a replica is held exactly by its call between Lock and
\* return: two calls are never in the read-modify-write together, and no
\* way out of CreateEvent (GET failed, file unparsable, PUT failed, crash)
\* leaves it locked.
LockDiscipline ==
    \A p \in Procs, c \in Calls :
        mu[p] = c <=> proc[c] = p /\ pc[c] \in Critical

Expired(e) == e.dtend # 0 /\ e.dtend <= now - TTL

\* A call that returned without error has its event in the object until the
\* event is old enough to be pruned: no later call overwrites it.
AckedDurable ==
    \A c \in Calls : pc[c] = "ok" =>
        LET e == NewVEvent(c, event[c]) IN e \in object \/ Expired(e)

\* Only events that ended longer ago than eventTtl ever leave the object,
\* whoever put them there (README.md, "Webcal", step 2).
OnlyExpiredRemoved ==
    [][\A e \in object \ object' : Expired(e)]_vars

\* The converse: a call removes all events that had expired when it began,
\* except the one it was asked to add.
ExpiredRemoved ==
    [][\A c \in Calls : put[c] = "sent" /\ put'[c] = "applied" =>
          \A e \in object' :
              e.id = c \/ e.dtend = 0 \/ e.dtend > began[c] - TTL]_vars

\* The service can read what it wrote: starting from a readable object, no
\* call finds a file it cannot parse.
OwnOutputParses ==
    Parseable(StoredEvents) =>
        \A c \in Calls : pc[c] = "rewrite" => Parseable(file[c])

\* Every call returns: nobody waits forever for the mutex or the store.
EveryCallReturns ==
    \A c \in Calls : pc[c] = "lock" ~> pc[c] \in Returned

\* What a caller can tell of a call.
FeedStatus(c) ==
    IF pc[c] = "idle" THEN "idle"
    ELSE IF pc[c] = "ok" THEN "done"
    ELSE IF pc[c] \in {"err", "lost"} THEN "failed" ELSE "pending"

FeedEntry(c) == IF pc[c] = "idle" THEN None ELSE NewVEvent(c, event[c])

FeedStatuses == [c \in Calls |-> FeedStatus(c)]
FeedEntries == [c \in Calls |-> FeedEntry(c)]
FeedPublished == {c \in Calls : put[c] = "applied"}

\* The feed a subscriber sees.
Feed == INSTANCE CalendarFeed WITH
    feed <- object,
    status <- FeedStatuses,
    entry <- FeedEntries,
    published <- FeedPublished

\* CreateEvent behaves like an atomic publication that can fail.
ImplementsFeed == Feed!Spec

\* The object as a calendar that others write to as well.
Remote == INSTANCE RemoteCalendar WITH
    status <- FeedStatuses, created <- FeedPublished

\* What is left of ImplementsFeed with several replicas and late PUTs: a call
\* writes its event at most once, and one that returned without error has
\* written it, though another writer may have overwritten it since
\* (webcal.go:82-92).
KeepsCalendarPromise == Remote!Spec

\* One replica, and a store that drops a PUT its caller has given up: what
\* the properties about the object depend on.
SingleWriter == ~LateCommit /\ \A p, q \in Procs : p = q
=============================================================================
