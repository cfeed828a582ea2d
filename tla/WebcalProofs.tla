---------------------------- MODULE WebcalProofs ----------------------------
(***************************************************************************)
(* Proofs about Webcal for every number of calls and replicas, every TTL   *)
(* and every content of the object.                                        *)
(***************************************************************************)
EXTENDS Webcal, TLAPS

-----------------------------------------------------------------------------
(* The VEVENT of a call. *)

\* The VEVENT of an extraction ends after it starts (ics.go:88-93).
LEMMA EndAfterStart ==
    ASSUME NEW c \in Calls, NEW d \in Extracted
    PROVE  /\ NewVEvent(c, d) \in VEvent
           /\ NewVEvent(c, d).id = c
           /\ NewVEvent(c, d).dtstart = d.start
           /\ NewVEvent(c, d).dtend > d.start
           /\ d.start \in Int
<1>1. d.start \in Int /\ d.end \in Int
  BY WebcalAssumption
<1>2. EndTime(d) \in Int /\ EndTime(d) > d.start
  BY <1>1, WebcalAssumption DEF EndTime
<1> QED
  BY <1>1, <1>2 DEF NewVEvent, VEvent

-----------------------------------------------------------------------------
(* Type correctness.  A VEVENT with the id of a call is the VEVENT of that *)
(* call, in the object and in the memory of every call; without that the   *)
(* last part of TypeOK does not survive a PUT.  A call that has not begun  *)
(* is served by no replica, so that a crash cannot end it.                 *)

Authentic(events) ==
    \A e \in events : e.id \in Calls =>
        pc[e.id] # "idle" /\ e = NewVEvent(e.id, event[e.id])

TypeInv ==
    /\ TypeOK
    /\ Authentic(object)
    /\ \A c \in Calls : Authentic(file[c])
    /\ \A c \in Calls : pc[c] = "idle" => proc[c] = None

LEMMA TypeInit == Init => TypeInv
<1> SUFFICES ASSUME Init PROVE TypeInv
  OBVIOUS
<1>1. \A e \in StoredEvents : e \in VEvent /\ e.id \notin Calls
  BY WebcalAssumption DEF VEvent
<1>2. object \in SUBSET VEvent /\ \A e \in object : e.id \notin Calls
  BY <1>1 DEF Init
<1>3. TypeOK
  BY <1>2, WebcalAssumption DEF Init, TypeOK, VEvent
<1> QED
  BY <1>2, <1>3 DEF Init, TypeInv, Authentic

LEMMA TypeStep == TypeInv /\ [Next]_vars => TypeInv'
<1> SUFFICES ASSUME TypeInv, [Next]_vars PROVE TypeInv'
  OBVIOUS
<1> USE DEF TypeInv
<1>1. ASSUME NEW c \in Calls, NEW p \in Procs, NEW d \in Extracted, Call(c, p, d)
      PROVE  TypeInv'
  BY <1>1 DEF Call, TypeOK, Authentic, VEvent
<1>2. ASSUME NEW c \in Calls, Lock(c) PROVE TypeInv'
  BY <1>2 DEF Lock, TypeOK, Authentic, VEvent, Critical
<1>3. ASSUME NEW c \in Calls, DownloadOK(c) PROVE TypeInv'
  BY <1>3 DEF DownloadOK, TypeOK, Authentic, VEvent, Critical
<1>4. ASSUME NEW c \in Calls, DownloadFail(c) PROVE TypeInv'
  BY <1>4 DEF DownloadFail, Return, TypeOK, Authentic, VEvent, Critical, Returned
<1>5. ASSUME NEW c \in Calls, ParseFail(c) PROVE TypeInv'
  BY <1>5 DEF ParseFail, Return, TypeOK, Authentic, VEvent, Critical, Returned
<1>6. ASSUME NEW c \in Calls, Rewrite(c) PROVE TypeInv'
  BY <1>6, EndAfterStart
     DEF Rewrite, PruneExpired, TypeOK, Authentic, VEvent, Critical
<1>7. ASSUME NEW c \in Calls, PutSend(c) PROVE TypeInv'
  BY <1>7 DEF PutSend, TypeOK, Authentic, VEvent
<1>8. ASSUME NEW c \in Calls, PutApply(c) PROVE TypeInv'
  BY <1>8, EndAfterStart DEF PutApply, TypeOK, Authentic, VEvent
<1>9. ASSUME NEW c \in Calls, UploadOK(c) PROVE TypeInv'
  BY <1>9 DEF UploadOK, Return, TypeOK, Authentic, VEvent, Critical, Returned
<1>10. ASSUME NEW c \in Calls, UploadFail(c) PROVE TypeInv'
  BY <1>10 DEF UploadFail, Return, TypeOK, Authentic, VEvent, Critical, Returned
<1>11. ASSUME NEW c \in Calls, Cancel(c) PROVE TypeInv'
  BY <1>11 DEF Cancel, TypeOK, Authentic, VEvent
<1>12. ASSUME NEW p \in Procs, Crash(p) PROVE TypeInv'
  BY <1>12, WebcalAssumption DEF Crash, TypeOK, Authentic, VEvent, Returned
<1>13. CASE Tick
  BY <1>13, WebcalAssumption DEF Tick, TypeOK, Authentic, VEvent
<1>14. CASE UNCHANGED vars
  BY <1>14 DEF vars, TypeOK, Authentic, VEvent
<1> QED
  BY <1>1, <1>2, <1>3, <1>4, <1>5, <1>6, <1>7, <1>8, <1>9, <1>10, <1>11,
     <1>12, <1>13, <1>14 DEF Next, CallStep, Quiesced

\* The type invariant, with the ends newVEvent makes.
THEOREM TypeCorrect == Spec => []TypeOK
<1>1. Spec => []TypeInv
  BY TypeInit, TypeStep, PTL DEF Spec
<1> QED
  BY <1>1, PTL DEF TypeInv

-----------------------------------------------------------------------------
(* The mutex. *)

LEMMA LockStep == TypeInv /\ LockDiscipline /\ [Next]_vars => LockDiscipline'
<1> SUFFICES ASSUME TypeInv, LockDiscipline, [Next]_vars PROVE LockDiscipline'
  OBVIOUS
<1> USE WebcalAssumption DEF TypeInv, TypeOK, LockDiscipline, Critical
<1>1. ASSUME NEW c \in Calls, NEW p \in Procs, NEW d \in Extracted, Call(c, p, d)
      PROVE  LockDiscipline'
  BY <1>1 DEF Call
<1>2. ASSUME NEW c \in Calls, Lock(c) PROVE LockDiscipline'
  BY <1>2 DEF Lock
<1>3. ASSUME NEW c \in Calls, DownloadOK(c) PROVE LockDiscipline'
  BY <1>3 DEF DownloadOK
<1>4. ASSUME NEW c \in Calls,
             DownloadFail(c) \/ ParseFail(c) \/ UploadOK(c) \/ UploadFail(c)
      PROVE  LockDiscipline'
  <2>1. /\ pc[c] \in Critical
        /\ proc' = proc
        /\ \E result \in Returned : Return(c, result)
    BY <1>4 DEF DownloadFail, ParseFail, UploadOK, UploadFail, Returned
  <2> QED
    BY <2>1 DEF Return, Returned
<1>5. ASSUME NEW c \in Calls, Rewrite(c) PROVE LockDiscipline'
  BY <1>5 DEF Rewrite
<1>6. ASSUME NEW c \in Calls, PutSend(c) \/ PutApply(c) \/ Cancel(c)
      PROVE  LockDiscipline'
  BY <1>6 DEF PutSend, PutApply, Cancel
<1>7. ASSUME NEW p \in Procs, Crash(p) PROVE LockDiscipline'
  BY <1>7 DEF Crash, Returned
<1>8. CASE Tick
  BY <1>8 DEF Tick
<1>9. CASE UNCHANGED vars
  BY <1>9 DEF vars
<1> QED
  BY <1>1, <1>2, <1>3, <1>4, <1>5, <1>6, <1>7, <1>8, <1>9
     DEF Next, CallStep, Quiesced

\* The mutex of a replica is held exactly while one of its calls is between
\* Lock and return, whichever way that call returns (webcal.go, CreateEvent).
THEOREM MutexCorrect == Spec => []LockDiscipline
<1>1. Init => LockDiscipline
  BY WebcalAssumption DEF Init, LockDiscipline, Critical
<1> QED
  BY <1>1, TypeInit, TypeStep, LockStep, PTL DEF Spec

-----------------------------------------------------------------------------
(* Pruning.  Holds for any number of replicas and for late PUTs. *)

\* Of the VEVENTs a call uploads, only its own may have expired when it began.
Pruned(c) ==
    \A e \in file[c] : e.id = c \/ e.dtend = 0 \/ e.dtend > began[c] - TTL

PruneInv ==
    \A c \in Calls :
        /\ began[c] <= now
        /\ put[c] # "none" => pc[c] \in {"upload"} \cup Returned
        /\ pc[c] = "upload" \/ put[c] # "none" => Pruned(c)

LEMMA PruneStep == TypeInv /\ PruneInv /\ [Next]_vars => PruneInv'
<1> SUFFICES ASSUME TypeInv, PruneInv, [Next]_vars PROVE PruneInv'
  OBVIOUS
<1> USE WebcalAssumption DEF TypeInv, TypeOK, PruneInv, Pruned, Critical, Returned
<1>1. ASSUME NEW c \in Calls, NEW p \in Procs, NEW d \in Extracted, Call(c, p, d)
      PROVE  PruneInv'
  BY <1>1 DEF Call
<1>2. ASSUME NEW c \in Calls, Lock(c) \/ DownloadOK(c) PROVE PruneInv'
  BY <1>2 DEF Lock, DownloadOK
<1>3. ASSUME NEW c \in Calls, Rewrite(c) PROVE PruneInv'
  <2>1. \A e \in file'[c] : e.id = c \/ e.dtend = 0 \/ e.dtend > began[c] - TTL
    BY <1>3, EndAfterStart DEF Rewrite, PruneExpired, VEvent
  <2> QED
    BY <1>3, <2>1 DEF Rewrite
<1>4. ASSUME NEW c \in Calls,
             DownloadFail(c) \/ ParseFail(c) \/ UploadOK(c) \/ UploadFail(c)
      PROVE  PruneInv'
  BY <1>4 DEF DownloadFail, ParseFail, UploadOK, UploadFail, Return
<1>5. ASSUME NEW c \in Calls, PutSend(c) \/ PutApply(c) \/ Cancel(c)
      PROVE  PruneInv'
  BY <1>5 DEF PutSend, PutApply, Cancel
<1>6. ASSUME NEW p \in Procs, Crash(p) PROVE PruneInv'
  BY <1>6 DEF Crash
<1>7. CASE Tick
  BY <1>7 DEF Tick
<1>8. CASE UNCHANGED vars
  BY <1>8 DEF vars
<1> QED
  BY <1>1, <1>2, <1>3, <1>4, <1>5, <1>6, <1>7, <1>8 DEF Next, CallStep, Quiesced

\* Every PUT takes out all events that had expired when its call began
\* (pruneExpired), however many replicas write the object.
THEOREM PruningCorrect == Spec => ExpiredRemoved
<1>1. Init => PruneInv
  BY WebcalAssumption DEF Init, PruneInv
<1>2. Spec => [](TypeInv /\ PruneInv)
  BY <1>1, TypeInit, TypeStep, PruneStep, PTL DEF Spec
<1>3. TypeInv /\ PruneInv /\ [Next]_vars =>
        [\A c \in Calls : put[c] = "sent" /\ put'[c] = "applied" =>
            \A e \in object' :
                e.id = c \/ e.dtend = 0 \/ e.dtend > began[c] - TTL]_vars
  <2> SUFFICES ASSUME TypeInv, PruneInv, Next,
                      NEW c \in Calls, put[c] = "sent", put'[c] = "applied"
               PROVE  object' = file[c]
    BY DEF PruneInv, Pruned
  <2>1. PutApply(c)
    BY DEF Next, CallStep, Call, Lock, DownloadOK, DownloadFail, ParseFail,
           Rewrite, PutSend, PutApply, UploadOK, UploadFail, Return, Cancel,
           Crash, Tick, Quiesced, vars, TypeInv, TypeOK
  <2> QED
    BY <2>1 DEF PutApply
<1> QED
  BY <1>2, <1>3, PTL DEF Spec, ExpiredRemoved

-----------------------------------------------------------------------------
(* Reading back.  Holds for any number of replicas and for late PUTs, as   *)
(* long as no event leaves the years of four digits: that is all that      *)
(* webcal_far_event needs to make the file unreadable.                     *)

ReadableInv == Parseable(object) /\ \A c \in Calls : Parseable(file[c])

LEMMA ReadableStep ==
    ASSUME \A d \in Extracted : Legible(d.start) /\ Legible(EndTime(d))
    PROVE  TypeInv /\ ReadableInv /\ [Next]_vars => ReadableInv'
<1> SUFFICES ASSUME TypeInv, ReadableInv, [Next]_vars PROVE ReadableInv'
  OBVIOUS
<1> USE DEF ReadableInv, TypeInv, TypeOK, Parseable
<1>1. ASSUME NEW c \in Calls, DownloadOK(c) PROVE ReadableInv'
  BY <1>1 DEF DownloadOK
<1>2. ASSUME NEW c \in Calls, Rewrite(c) PROVE ReadableInv'
  <2>1. event[c] \in Extracted
    BY <1>2 DEF Rewrite
  <2>2. Parseable({NewVEvent(c, event[c])})
    BY <2>1 DEF NewVEvent
  <2> QED
    BY <1>2, <2>2 DEF Rewrite, PruneExpired
<1>3. ASSUME NEW c \in Calls, PutApply(c) PROVE ReadableInv'
  BY <1>3 DEF PutApply
<1>4. CASE UNCHANGED <<object, file>>
  BY <1>4
<1> QED
  BY <1>1, <1>2, <1>3, <1>4
     DEF Next, CallStep, Call, Lock, DownloadFail, ParseFail, PutSend, UploadOK,
         UploadFail, Return, Cancel, Crash, Tick, Quiesced, vars

\* If no event begins before year 0 or ends after year 9999, in UTC, the service
\* can always read the file it wrote: a call fails to parse it only if somebody
\* else made it unreadable (ics.go:53-75, 117-118).
THEOREM ReadsItsOwn ==
    (\A d \in Extracted : FirstInstant <= d.start /\ EndTime(d) <= LastInstant)
        => (Spec => []OwnOutputParses)
<1> SUFFICES ASSUME \A d \in Extracted :
                       FirstInstant <= d.start /\ EndTime(d) <= LastInstant
             PROVE  Spec => []OwnOutputParses
  OBVIOUS
<1>0. \A d \in Extracted : Legible(d.start) /\ Legible(EndTime(d))
  <2> SUFFICES ASSUME NEW d \in Extracted PROVE Legible(d.start) /\ Legible(EndTime(d))
    OBVIOUS
  <2>1. d.start \in Int /\ EndTime(d) \in Int /\ EndTime(d) > d.start
    BY WebcalAssumption DEF EndTime
  <2> QED
    BY <2>1, WebcalAssumption DEF Legible
<1>1. CASE Parseable(StoredEvents)
  <2>1. Init => ReadableInv
    BY <1>1 DEF Init, ReadableInv, Parseable
  <2>2. ReadableInv => OwnOutputParses
    BY DEF ReadableInv, OwnOutputParses
  <2> QED
    BY <1>0, <2>1, <2>2, TypeInit, TypeStep, ReadableStep, PTL DEF Spec
<1>2. CASE ~Parseable(StoredEvents)
  <2>1. OwnOutputParses
    BY <1>2 DEF OwnOutputParses
  <2> QED
    BY <2>1, PTL
<1> QED
  BY <1>1, <1>2

-----------------------------------------------------------------------------
(* One writer.  Between the GET and the PUT of a call the object is what   *)
(* the call read: only the holder of the mutex has a PUT that can still be *)
(* applied.  Without SingleWriter the first part is false, and with it     *)
(* everything below.                                                       *)

Own(c) == NewVEvent(c, event[c])

\* What the call that holds the mutex knows of the object.
Fresh(c) ==
    /\ pc[c] = "rewrite" => file[c] = object
    /\ pc[c] = "upload" /\ put[c] # "applied" =>
          /\ Own(c) \in file[c]
          /\ file[c] \subseteq object \cup {Own(c)}
          /\ \A e \in object \ file[c] : Expired(e)

WriterInv ==
    \A c \in Calls :
        /\ Fresh(c)
        /\ put[c] = "applied" => Own(c) \in object \/ Expired(Own(c))
        /\ pc[c] = "ok" => put[c] = "applied"

SafeInv == TypeInv /\ LockDiscipline /\ PruneInv /\ WriterInv

LEMMA SafeInit == Init => SafeInv
BY TypeInit, WebcalAssumption
   DEF Init, SafeInv, LockDiscipline, Critical, PruneInv, WriterInv, Fresh

\* With one replica, two calls are never in the read-modify-write together.
LEMMA OneCritical ==
    ASSUME SingleWriter, TypeInv, LockDiscipline,
           NEW c \in Calls, NEW d \in Calls,
           pc[c] \in Critical, pc[d] \in Critical
    PROVE  c = d
BY DEF SingleWriter, TypeInv, TypeOK, LockDiscipline, Critical

\* An expired VEVENT stays expired: the clock does not go back.
LEMMA ExpiredStays ==
    ASSUME TypeInv, [Next]_vars, NEW e \in VEvent, Expired(e)
    PROVE  Expired(e)'
<1>1. now' \in Nat /\ now' >= now
  BY DEF TypeInv, TypeOK, Next, CallStep, Call, Lock, DownloadOK, DownloadFail,
         ParseFail, Rewrite, PutSend, PutApply, UploadOK, UploadFail, Cancel,
         Crash, Tick, Quiesced, vars
<1> QED
  BY <1>1, WebcalAssumption DEF Expired, VEvent, TypeInv, TypeOK

LEMMA OwnTyped ==
    ASSUME TypeInv, NEW c \in Calls, pc[c] # "idle"
    PROVE  Own(c) \in VEvent
BY EndAfterStart DEF Own, TypeInv, TypeOK

\* A call that has begun keeps its event.
LEMMA OwnKept ==
    ASSUME TypeInv, [Next]_vars, NEW c \in Calls, pc[c] # "idle"
    PROVE  Own(c)' = Own(c)
<1>1. event'[c] = event[c]
  BY DEF TypeInv, TypeOK, Next, CallStep, Call, Lock, DownloadOK, DownloadFail,
         ParseFail, Rewrite, PutSend, PutApply, UploadOK, UploadFail, Cancel,
         Crash, Tick, Quiesced, vars
<1> QED
  BY <1>1 DEF Own

LEMMA WriterStep == SingleWriter /\ SafeInv /\ [Next]_vars => WriterInv'
<1> SUFFICES ASSUME SingleWriter, SafeInv, [Next]_vars, NEW x \in Calls
             PROVE  /\ Fresh(x)'
                    /\ put'[x] = "applied" =>
                          Own(x)' \in object' \/ Expired(Own(x))'
                    /\ pc'[x] = "ok" => put'[x] = "applied"
  BY DEF WriterInv
<1> DEFINE Goal == /\ Fresh(x)'
                   /\ put'[x] = "applied" =>
                         Own(x)' \in object' \/ Expired(Own(x))'
                   /\ pc'[x] = "ok" => put'[x] = "applied"
<1>1. TypeInv /\ LockDiscipline /\ PruneInv /\ WriterInv
  BY DEF SafeInv
<1>2. /\ Fresh(x)
      /\ put[x] = "applied" => Own(x) \in object \/ Expired(Own(x))
      /\ pc[x] = "ok" => put[x] = "applied"
      /\ put[x] # "none" => pc[x] \in {"upload"} \cup Returned
  BY <1>1 DEF WriterInv, PruneInv
<1>3. pc[x] # "idle" => Own(x) \in VEvent /\ Own(x)' = Own(x)
  BY <1>1, OwnTyped, OwnKept
<1>4. \A e \in VEvent : Expired(e) => Expired(e)'
  BY <1>1, ExpiredStays
<1>5. object \subseteq VEvent /\ file[x] \subseteq VEvent
  BY <1>1 DEF TypeInv, TypeOK
<1>6. ASSUME NEW c \in Calls, NEW p \in Procs, NEW d \in Extracted, Call(c, p, d)
      PROVE  Goal
  BY <1>1, <1>2, <1>3, <1>4, <1>5, <1>6
     DEF Call, Fresh, TypeInv, TypeOK, Returned
<1>7. ASSUME NEW c \in Calls, Lock(c) PROVE Goal
  BY <1>1, <1>2, <1>3, <1>4, <1>5, <1>7 DEF Lock, Fresh, TypeInv, TypeOK, Returned
<1>8. ASSUME NEW c \in Calls, DownloadOK(c) PROVE Goal
  BY <1>1, <1>2, <1>3, <1>4, <1>5, <1>8
     DEF DownloadOK, Fresh, TypeInv, TypeOK, Returned
<1>9. ASSUME NEW c \in Calls,
             DownloadFail(c) \/ ParseFail(c) \/ UploadFail(c)
      PROVE  Goal
  BY <1>1, <1>2, <1>3, <1>4, <1>5, <1>9
     DEF DownloadFail, ParseFail, UploadFail, Return, Fresh, TypeInv, TypeOK, Returned
<1>10. ASSUME NEW c \in Calls, UploadOK(c) PROVE Goal
  BY <1>1, <1>2, <1>3, <1>4, <1>5, <1>10
     DEF UploadOK, Return, Fresh, TypeInv, TypeOK, Returned
<1>11. ASSUME NEW c \in Calls, Rewrite(c) PROVE Goal
  <2>1. CASE x = c
    <3>1. file[c] = object /\ pc[x] = "rewrite" /\ put[x] # "applied"
      BY <1>2, <1>11, <2>1 DEF Rewrite, Fresh, Returned
    <3>2. file'[c] = PruneExpired(object, now) \cup {Own(c)}
      BY <1>1, <1>11, <3>1 DEF Rewrite, Own, TypeInv, TypeOK
    <3>3. \A e \in object \ file'[c] : Expired(e)
      BY <1>1, <1>5, <3>2, WebcalAssumption
         DEF PruneExpired, Expired, VEvent, TypeInv, TypeOK
    <3>4. /\ Own(c) \in file'[c]
          /\ file'[c] \subseteq object \cup {Own(c)}
      BY <3>2 DEF PruneExpired
    <3>5. pc'[x] = "upload" /\ put'[x] # "applied" /\ object' = object
      BY <1>1, <1>11, <2>1, <3>1 DEF Rewrite, TypeInv, TypeOK
    <3> QED
      BY <1>3, <1>4, <1>5, <2>1, <3>1, <3>3, <3>4, <3>5 DEF Fresh
  <2>2. CASE x # c
    BY <1>1, <1>2, <1>3, <1>4, <1>5, <1>11, <2>2
       DEF Rewrite, Fresh, TypeInv, TypeOK, Returned
  <2> QED
    BY <2>1, <2>2
<1>12. ASSUME NEW c \in Calls, PutSend(c) \/ Cancel(c) PROVE Goal
  BY <1>1, <1>2, <1>3, <1>4, <1>5, <1>12
     DEF PutSend, Cancel, Critical, Fresh, TypeInv, TypeOK, Returned
<1>13. ASSUME NEW c \in Calls, PutApply(c) PROVE Goal
  <2>1. /\ pc[c] = "upload" /\ put[c] = "sent"
        /\ object' = file[c] /\ pc' = pc
        /\ put' = [put EXCEPT ![c] = "applied"]
        /\ file' = file
    BY <1>13 DEF PutApply, SingleWriter
  <2>2. /\ Own(c) \in file[c]
        /\ \A e \in object \ file[c] : Expired(e)
    BY <1>1, <2>1 DEF WriterInv, Fresh
  <2>3. CASE x = c
    BY <1>1, <1>3, <2>1, <2>2, <2>3 DEF Fresh, TypeInv, TypeOK
  <2>4. CASE x # c
    <3>1. pc[x] \notin {"rewrite", "upload"}
      BY <1>1, <2>1, <2>4, OneCritical DEF Critical
    <3>2. put[x] = "applied" => Own(x) \in file[c] \/ Expired(Own(x))
      BY <1>2, <2>2
    <3>3. put'[x] = put[x] /\ pc'[x] = pc[x]
      BY <1>1, <2>1, <2>4 DEF TypeInv, TypeOK
    <3>4. put[x] = "applied" => pc[x] # "idle"
      BY <1>2 DEF Returned
    <3> QED
      BY <1>2, <1>3, <1>4, <2>1, <3>1, <3>2, <3>3, <3>4 DEF Fresh
  <2> QED
    BY <2>3, <2>4
<1>14. ASSUME NEW p \in Procs, Crash(p) PROVE Goal
  BY <1>1, <1>2, <1>3, <1>4, <1>5, <1>14
     DEF Crash, Fresh, TypeInv, TypeOK, Returned
<1>15. CASE Tick
  BY <1>1, <1>2, <1>3, <1>4, <1>5, <1>15 DEF Tick, Fresh, TypeInv, TypeOK, Returned
<1>16. CASE UNCHANGED vars
  BY <1>1, <1>2, <1>3, <1>4, <1>5, <1>16 DEF vars, Fresh, TypeInv, TypeOK, Returned
<1> QED
  BY <1>6, <1>7, <1>8, <1>9, <1>10, <1>11, <1>12, <1>13, <1>14, <1>15, <1>16
     DEF Next, CallStep, Quiesced

LEMMA SafeAlways == SingleWriter => (Spec => []SafeInv)
<1> SUFFICES ASSUME SingleWriter PROVE Spec => []SafeInv
  OBVIOUS
<1>1. SafeInv /\ [Next]_vars => SafeInv'
  BY TypeStep, LockStep, PruneStep, WriterStep DEF SafeInv
<1> QED
  BY <1>1, SafeInit, PTL DEF Spec

\* With one replica and no late PUT, an event whose call returned without
\* error stays in the object until it may be pruned (webcal.go, CreateEvent).
THEOREM Durability == SingleWriter => (Spec => []AckedDurable)
<1> SUFFICES ASSUME SingleWriter PROVE Spec => []AckedDurable
  OBVIOUS
<1>1. SafeInv => AckedDurable
  BY DEF SafeInv, WriterInv, AckedDurable, Own
<1> QED
  BY <1>1, SafeAlways, PTL

\* With one replica and no late PUT, only events that ended longer ago than
\* eventTtl leave the object (README.md, "Webcal", step 2).
THEOREM NothingLost == SingleWriter => (Spec => OnlyExpiredRemoved)
<1> SUFFICES ASSUME SingleWriter PROVE Spec => OnlyExpiredRemoved
  OBVIOUS
<1>1. SafeInv /\ [Next]_vars => [\A e \in object \ object' : Expired(e)]_vars
  <2> SUFFICES ASSUME SafeInv, Next, NEW e \in object \ object'
               PROVE  Expired(e)
    OBVIOUS
  <2>1. PICK c \in Calls : PutApply(c)
    BY DEF Next, CallStep, Call, Lock, DownloadOK, DownloadFail, ParseFail,
           Rewrite, PutSend, UploadOK, UploadFail, Cancel, Crash, Tick,
           Quiesced, vars
  <2>2. pc[c] = "upload" /\ put[c] = "sent" /\ object' = file[c]
    BY <2>1 DEF PutApply, SingleWriter
  <2> QED
    BY <2>2 DEF SafeInv, WriterInv, Fresh
<1> QED
  BY <1>1, SafeAlways, PTL DEF Spec, OnlyExpiredRemoved

-----------------------------------------------------------------------------
(* Refinement: a PUT that the store applies is the publication, every      *)
(* return is an acknowledgement or a failure, everything else stutters.    *)

\* A step that changes neither object, clock, statuses nor publications.
LEMMA FeedStutter ==
    ASSUME object' = object, now' = now, put' = put, event' = event,
           \A c \in Calls : /\ FeedStatus(c)' = FeedStatus(c)
                            /\ pc'[c] = "idle" <=> pc[c] = "idle"
    PROVE  UNCHANGED Feed!vars
<1>1. FeedStatuses' = FeedStatuses
  BY DEF FeedStatuses
<1>2. FeedEntries' = FeedEntries
  BY DEF FeedEntries, FeedEntry
<1>3. FeedPublished' = FeedPublished
  BY DEF FeedPublished
<1> QED
  BY <1>1, <1>2, <1>3 DEF Feed!vars

\* A step at which calls that have begun fail and nothing else changes.
LEMMA FeedFail ==
    ASSUME object' = object, now' = now, put' = put, event' = event,
           \A c \in Calls :
               \/ pc'[c] = pc[c]
               \/ FeedStatus(c) = "pending" /\ pc'[c] \in {"err", "lost"}
    PROVE  Feed!Fail
<1>1. \A c \in Calls : \/ FeedStatus(c)' = FeedStatus(c)
                       \/ FeedStatus(c) = "pending" /\ FeedStatus(c)' = "failed"
  BY DEF FeedStatus
<1>2. FeedEntries' = FeedEntries
  BY DEF FeedEntries, FeedEntry, FeedStatus
<1>3. FeedPublished' = FeedPublished
  BY DEF FeedPublished
<1>4. /\ \A c \in Calls :
            \/ FeedStatuses'[c] = FeedStatuses[c]
            \/ FeedStatuses[c] = "pending" /\ FeedStatuses'[c] = "failed"
      /\ FeedStatuses' = [c \in Calls |-> FeedStatuses'[c]]
  BY <1>1 DEF FeedStatuses
<1> QED
  BY <1>2, <1>3, <1>4 DEF Feed!Fail

\* Every step of one replica is a step of the feed or invisible.
LEMMA FeedStep ==
    SingleWriter /\ SafeInv /\ [Next]_vars => [Feed!Next]_(Feed!vars)
<1> SUFFICES ASSUME SingleWriter, SafeInv, [Next]_vars
             PROVE  Feed!Next \/ UNCHANGED Feed!vars
  OBVIOUS
<1>0. TypeInv /\ PruneInv /\ WriterInv
  BY DEF SafeInv
<1>1. ASSUME NEW c \in Calls, NEW p \in Procs, NEW d \in Extracted, Call(c, p, d)
      PROVE  Feed!Begin(c)
  <2>1. /\ pc[c] = "idle" /\ pc' = [pc EXCEPT ![c] = "lock"]
        /\ event' = [event EXCEPT ![c] = d]
        /\ UNCHANGED <<object, now, put>>
    BY <1>1 DEF Call
  <2>2. FeedStatuses[c] = "idle"
    BY <2>1 DEF FeedStatuses, FeedStatus
  <2>3. FeedStatuses' = [FeedStatuses EXCEPT ![c] = "pending"]
    BY <1>0, <2>1 DEF FeedStatuses, FeedStatus, TypeInv, TypeOK
  <2>4. \A x \in Calls \ {c} : FeedEntries'[x] = FeedEntries[x]
    BY <1>0, <2>1 DEF FeedEntries, FeedEntry, TypeInv, TypeOK
  <2>5. FeedEntries'[c] = NewVEvent(c, d)
    BY <1>0, <2>1 DEF FeedEntries, FeedEntry, TypeInv, TypeOK
  <2>6. FeedPublished' = FeedPublished
    BY <2>1 DEF FeedPublished
  <2> QED
    BY <2>1, <2>2, <2>3, <2>4, <2>5, <2>6, EndAfterStart DEF Feed!Begin
<1>2. ASSUME NEW c \in Calls, Lock(c) \/ DownloadOK(c) \/ Rewrite(c)
      PROVE  UNCHANGED Feed!vars
  BY <1>0, <1>2, FeedStutter
     DEF Lock, DownloadOK, Rewrite, FeedStatus, TypeInv, TypeOK
<1>3. ASSUME NEW c \in Calls, DownloadFail(c) \/ ParseFail(c) \/ UploadFail(c)
      PROVE  Feed!Fail
  BY <1>0, <1>3, FeedFail
     DEF DownloadFail, ParseFail, UploadFail, Return, FeedStatus, TypeInv, TypeOK
<1>4. ASSUME NEW c \in Calls, PutSend(c) PROVE UNCHANGED Feed!vars
  <2>1. /\ FeedPublished' = FeedPublished
        /\ UNCHANGED <<object, now, pc, event>>
    BY <1>0, <1>4 DEF PutSend, FeedPublished, TypeInv, TypeOK
  <2>2. FeedStatuses' = FeedStatuses /\ FeedEntries' = FeedEntries
    BY <2>1 DEF FeedStatuses, FeedStatus, FeedEntries, FeedEntry
  <2> QED
    BY <2>1, <2>2 DEF Feed!vars
<1>5. ASSUME NEW c \in Calls, PutApply(c) PROVE Feed!Publish(c)
  <2>1. /\ pc[c] = "upload" /\ put[c] = "sent"
        /\ object' = file[c]
        /\ put' = [put EXCEPT ![c] = "applied"]
        /\ UNCHANGED <<now, pc, event>>
    BY <1>5 DEF PutApply, SingleWriter
  <2>2. FeedStatuses' = FeedStatuses /\ FeedEntries' = FeedEntries
    BY <2>1 DEF FeedStatuses, FeedStatus, FeedEntries, FeedEntry
  <2>3. FeedStatuses[c] = "pending" /\ FeedEntries[c] = Own(c)
    BY <2>1 DEF FeedStatuses, FeedStatus, FeedEntries, FeedEntry, Own
  <2>4. c \notin FeedPublished /\ FeedPublished' = FeedPublished \cup {c}
    BY <1>0, <2>1 DEF FeedPublished, TypeInv, TypeOK
  <2>5. /\ Own(c) \in file[c]
        /\ file[c] \subseteq object \cup {Own(c)}
        /\ \A e \in object \ file[c] : Feed!Expired(e)
    BY <1>0, <2>1 DEF WriterInv, Fresh, Expired, Feed!Expired
  <2> QED
    BY <2>1, <2>2, <2>3, <2>4, <2>5 DEF Feed!Publish
<1>6. ASSUME NEW c \in Calls, UploadOK(c) PROVE Feed!Acknowledge(c)
  <2>1. /\ pc[c] = "upload" /\ put[c] = "applied"
        /\ pc' = [pc EXCEPT ![c] = "ok"]
        /\ UNCHANGED <<object, now, put, event>>
    BY <1>6 DEF UploadOK, Return
  <2>2. FeedStatuses[c] = "pending" /\ c \in FeedPublished
    BY <2>1 DEF FeedStatuses, FeedStatus, FeedPublished
  <2>3. FeedStatuses' = [FeedStatuses EXCEPT ![c] = "done"]
    BY <1>0, <2>1 DEF FeedStatuses, FeedStatus, TypeInv, TypeOK
  <2>4. FeedEntries' = FeedEntries /\ FeedPublished' = FeedPublished
    BY <1>0, <2>1 DEF FeedEntries, FeedEntry, FeedPublished, TypeInv, TypeOK
  <2> QED
    BY <2>1, <2>2, <2>3, <2>4 DEF Feed!Acknowledge
<1>7. ASSUME NEW c \in Calls, Cancel(c) PROVE UNCHANGED Feed!vars
  BY <1>7, FeedStutter DEF Cancel, FeedStatus
<1>8. ASSUME NEW p \in Procs, Crash(p) PROVE Feed!Fail
  <2>1. \A c \in Calls : pc'[c] = pc[c] \/ pc[c] \notin Returned \cup {"idle"}
    BY <1>0, <1>8, WebcalAssumption DEF Crash, Returned, TypeInv
  <2>2. \A c \in Calls : pc'[c] = pc[c] \/ pc'[c] = "lost"
    BY <1>8 DEF Crash
  <2> QED
    BY <1>8, <2>1, <2>2, FeedFail DEF Crash, FeedStatus, Returned
<1>9. CASE Tick
  <2>1. now' \in Nat /\ now' > now /\ UNCHANGED <<object, pc, event, put>>
    BY <1>0, <1>9 DEF Tick, TypeInv, TypeOK
  <2>2. /\ FeedStatuses' = FeedStatuses
        /\ FeedEntries' = FeedEntries
        /\ FeedPublished' = FeedPublished
    BY <2>1 DEF FeedStatuses, FeedStatus, FeedEntries, FeedEntry, FeedPublished
  <2> QED
    BY <2>1, <2>2 DEF Feed!Next, Feed!Tick
<1>10. CASE UNCHANGED vars
  BY <1>10, FeedStutter DEF vars, FeedStatus
<1> QED
  BY <1>1, <1>2, <1>3, <1>4, <1>5, <1>6, <1>7, <1>8, <1>9, <1>10
     DEF Next, CallStep, Quiesced, Feed!Next

\* One replica implements the feed: an acknowledged event is published, a
\* failed one never is afterwards, and publishing removes only what expired.
THEOREM FeedRefinement == SingleWriter => (Spec => ImplementsFeed)
<1> SUFFICES ASSUME SingleWriter PROVE Spec => ImplementsFeed
  OBVIOUS
<1>1. Init => Feed!Init
  BY WebcalAssumption
     DEF Init, Feed!Init, FeedStatuses, FeedStatus, FeedEntries, FeedEntry,
         FeedPublished
<1> QED
  BY <1>1, FeedStep, SafeAlways, PTL DEF Spec, ImplementsFeed, Feed!Spec

-----------------------------------------------------------------------------
(* The weaker refinement, which needs no single writer: several replicas   *)
(* and late PUTs can undo what a call has written, but not that it has.    *)

\* A call that succeeded has had its PUT applied.
WrittenInv == \A c \in Calls : pc[c] = "ok" => put[c] = "applied"

RemoteInv == TypeInv /\ PruneInv /\ WrittenInv

LEMMA WrittenStep == TypeInv /\ WrittenInv /\ [Next]_vars => WrittenInv'
<1> SUFFICES ASSUME TypeInv, WrittenInv, [Next]_vars PROVE WrittenInv'
  OBVIOUS
<1> USE DEF WrittenInv, TypeInv, TypeOK
<1>1. ASSUME NEW c \in Calls,
             \/ \E p \in Procs, d \in Extracted : Call(c, p, d)
             \/ Lock(c) \/ DownloadOK(c) \/ Rewrite(c)
      PROVE  WrittenInv'
  BY <1>1 DEF Call, Lock, DownloadOK, Rewrite
<1>2. ASSUME NEW c \in Calls, DownloadFail(c) \/ ParseFail(c) \/ UploadFail(c)
      PROVE  WrittenInv'
  BY <1>2 DEF DownloadFail, ParseFail, UploadFail, Return
<1>3. ASSUME NEW c \in Calls, PutSend(c) \/ PutApply(c) \/ UploadOK(c) \/ Cancel(c)
      PROVE  WrittenInv'
  BY <1>3 DEF PutSend, PutApply, UploadOK, Return, Cancel
<1>4. ASSUME NEW p \in Procs, Crash(p) PROVE WrittenInv'
  BY <1>4 DEF Crash
<1>5. CASE Tick \/ UNCHANGED vars
  BY <1>5 DEF Tick, vars
<1> QED
  BY <1>1, <1>2, <1>3, <1>4, <1>5 DEF Next, CallStep, Quiesced

LEMMA RemoteAlways == Spec => []RemoteInv
<1>1. Init => WrittenInv /\ PruneInv
  BY WebcalAssumption DEF Init, WrittenInv, PruneInv
<1> QED
  BY <1>1, TypeInit, TypeStep, PruneStep, WrittenStep, PTL DEF Spec, RemoteInv

\* A step of which a caller sees nothing, nor a subscriber.
LEMMA RemoteStutter ==
    ASSUME FeedPublished' = FeedPublished,
           \A c \in Calls : FeedStatus(c)' = FeedStatus(c)
    PROVE  UNCHANGED Remote!vars
<1>1. FeedStatuses' = FeedStatuses
  BY DEF FeedStatuses
<1> QED
  BY <1>1 DEF Remote!vars

\* A step at which some of the pending calls fail.
LEMMA RemoteFail ==
    ASSUME put' = put,
           \A c \in Calls :
               \/ pc'[c] = pc[c]
               \/ FeedStatus(c) = "pending" /\ pc'[c] \in {"err", "lost"}
    PROVE  \E failing \in SUBSET Calls : Remote!Fail(failing)
<1> DEFINE failing == {c \in Calls : pc'[c] # pc[c]}
<1>1. \A c \in failing : FeedStatuses[c] = "pending"
  BY DEF FeedStatuses
<1>2. \A c \in Calls : FeedStatus(c)' = IF c \in failing THEN "failed" ELSE FeedStatus(c)
  BY DEF FeedStatus
<1>3. FeedStatuses' =
        [c \in Calls |-> IF c \in failing THEN "failed" ELSE FeedStatuses[c]]
  BY <1>2 DEF FeedStatuses
<1>4. FeedPublished' = FeedPublished
  BY DEF FeedPublished
<1> QED
  BY <1>1, <1>3, <1>4 DEF Remote!Fail

LEMMA RemoteStep == RemoteInv /\ [Next]_vars => [Remote!Next]_(Remote!vars)
<1> SUFFICES ASSUME RemoteInv, [Next]_vars
             PROVE  Remote!Next \/ UNCHANGED Remote!vars
  OBVIOUS
<1>0. TypeInv /\ PruneInv /\ WrittenInv
  BY DEF RemoteInv
<1>1. ASSUME NEW c \in Calls, NEW p \in Procs, NEW d \in Extracted, Call(c, p, d)
      PROVE  Remote!Begin(c)
  <2>1. pc[c] = "idle" /\ pc' = [pc EXCEPT ![c] = "lock"] /\ put' = put
    BY <1>1 DEF Call
  <2>2. /\ FeedStatuses[c] = "idle"
        /\ FeedStatuses' = [FeedStatuses EXCEPT ![c] = "pending"]
    BY <1>0, <2>1 DEF FeedStatuses, FeedStatus, TypeInv, TypeOK
  <2>3. FeedPublished' = FeedPublished
    BY <2>1 DEF FeedPublished
  <2> QED
    BY <2>2, <2>3 DEF Remote!Begin
<1>2. ASSUME NEW c \in Calls,
             Lock(c) \/ DownloadOK(c) \/ Rewrite(c) \/ PutSend(c) \/ Cancel(c)
      PROVE  UNCHANGED Remote!vars
  <2>1. FeedPublished' = FeedPublished
    BY <1>0, <1>2
       DEF Lock, DownloadOK, Rewrite, PutSend, Cancel, FeedPublished, TypeInv, TypeOK
  <2>2. \A x \in Calls : FeedStatus(x)' = FeedStatus(x)
    BY <1>0, <1>2
       DEF Lock, DownloadOK, Rewrite, PutSend, Cancel, FeedStatus, TypeInv, TypeOK
  <2> QED
    BY <2>1, <2>2, RemoteStutter
<1>3. ASSUME NEW c \in Calls, DownloadFail(c) \/ ParseFail(c) \/ UploadFail(c)
      PROVE  \E failing \in SUBSET Calls : Remote!Fail(failing)
  BY <1>0, <1>3, RemoteFail
     DEF DownloadFail, ParseFail, UploadFail, Return, FeedStatus, TypeInv, TypeOK
<1>4. ASSUME NEW c \in Calls, PutApply(c) PROVE Remote!Create(c)
  <2>1. /\ put[c] = "sent" /\ put' = [put EXCEPT ![c] = "applied"] /\ pc' = pc
        /\ pc[c] \in {"upload", "err", "lost"}
    BY <1>0, <1>4 DEF PutApply, PruneInv, WrittenInv, Returned
  <2>2. FeedStatuses[c] \in {"pending", "failed"}
    BY <2>1 DEF FeedStatuses, FeedStatus
  <2>3. c \notin FeedPublished /\ FeedPublished' = FeedPublished \cup {c}
    BY <1>0, <2>1 DEF FeedPublished, TypeInv, TypeOK
  <2>4. FeedStatuses' = FeedStatuses
    BY <2>1 DEF FeedStatuses, FeedStatus
  <2> QED
    BY <2>2, <2>3, <2>4 DEF Remote!Create
<1>5. ASSUME NEW c \in Calls, UploadOK(c) PROVE Remote!Succeed(c)
  <2>1. /\ pc[c] = "upload" /\ put[c] = "applied"
        /\ pc' = [pc EXCEPT ![c] = "ok"] /\ put' = put
    BY <1>5 DEF UploadOK, Return
  <2>2. /\ FeedStatuses[c] = "pending" /\ c \in FeedPublished
        /\ FeedPublished' = FeedPublished
    BY <2>1 DEF FeedStatuses, FeedStatus, FeedPublished
  <2>3. FeedStatuses' = [FeedStatuses EXCEPT ![c] = "done"]
    BY <1>0, <2>1 DEF FeedStatuses, FeedStatus, TypeInv, TypeOK
  <2> QED
    BY <2>2, <2>3 DEF Remote!Succeed
<1>6. ASSUME NEW p \in Procs, Crash(p)
      PROVE  \E failing \in SUBSET Calls : Remote!Fail(failing)
  <2>1. \A c \in Calls : pc'[c] = pc[c] \/ pc[c] \notin Returned \cup {"idle"}
    BY <1>0, <1>6, WebcalAssumption DEF Crash, Returned, TypeInv
  <2>2. \A c \in Calls : pc'[c] = pc[c] \/ pc'[c] = "lost"
    BY <1>6 DEF Crash
  <2> QED
    BY <1>6, <2>1, <2>2, RemoteFail DEF Crash, FeedStatus, Returned
<1>7. CASE Tick \/ UNCHANGED vars
  <2>1. put' = put /\ pc' = pc
    BY <1>7 DEF Tick, vars
  <2> QED
    BY <2>1, RemoteStutter DEF FeedPublished, FeedStatus
<1> QED
  BY <1>1, <1>2, <1>3, <1>4, <1>5, <1>6, <1>7
     DEF Next, CallStep, Quiesced, Remote!Next

\* With any number of replicas, crashes and late PUTs, a call writes its event
\* at most once and not before it is made, and one that returned without error
\* has written it (webcal.go:61-92).
THEOREM WrittenAtMostOnce == Spec => KeepsCalendarPromise
<1>1. Init => Remote!Init
  BY DEF Init, Remote!Init, FeedStatuses, FeedStatus, FeedPublished
<1> QED
  BY <1>1, RemoteAlways, RemoteStep, PTL DEF Spec, KeepsCalendarPromise, Remote!Spec
=============================================================================
