------------------------ MODULE GoogleCalendarProofs ------------------------
(***************************************************************************)
(* Proofs about GoogleCalendar for every number of calls, every lifetime   *)
(* and every buffer and timeout that GoogleAssumption allows.              *)
(***************************************************************************)
EXTENDS GoogleCalendar, TLAPS

-----------------------------------------------------------------------------
(* Types and the mutex. *)

\* The token type invariant and the mutex go through every action alike.
Base == TypeOK /\ LockDiscipline

LEMMA BaseInit == Init => Base
BY GoogleAssumption DEF Init, Base, TypeOK, LockDiscipline

LEMMA ExpiryInt ==
    ASSUME NEW asked \in Nat, NEW expiresIn \in Nat
    PROVE  Expiry(asked, expiresIn) \in Int
BY GoogleAssumption DEF Expiry

LEMMA BaseStep == Base /\ [Next]_vars => Base'
<1> SUFFICES ASSUME Base, [Next]_vars PROVE Base'
  OBVIOUS
<1> USE GoogleAssumption DEF Base, TypeOK, LockDiscipline, Token
<1>1. ASSUME NEW c \in Calls, Call(c) PROVE Base'
  BY <1>1 DEF Call
<1>2. ASSUME NEW c \in Calls, CacheHit(c) PROVE Base'
  BY <1>2 DEF CacheHit, CacheValid, Post
<1>3. ASSUME NEW c \in Calls, SignFail(c) PROVE Base'
  BY <1>3 DEF SignFail
<1>4. ASSUME NEW c \in Calls, FetchStart(c) PROVE Base'
  BY <1>4 DEF FetchStart
<1>5. ASSUME NEW c \in Calls, NEW a \in Answers, NEW issued \in 0..LastTime,
             FetchOK(c, a, issued)
      PROVE  Base'
  <2>1. Expiry(since[c], a.expiresIn) \in Int /\ issued + a.lifetime \in Nat
    BY ExpiryInt
  <2> QED
    BY <1>5, <2>1 DEF FetchOK, Post
<1>6. ASSUME NEW c \in Calls, NEW a \in Answers, FetchEmpty(c, a) PROVE Base'
  <2>1. Expiry(since[c], a.expiresIn) \in Int
    BY ExpiryInt
  <2> QED
    BY <1>6, <2>1 DEF FetchEmpty, Post
<1>7. ASSUME NEW c \in Calls, FetchFail(c) PROVE Base'
  BY <1>7 DEF FetchFail
<1>8. ASSUME NEW c \in Calls, PostArrive(c) \/ PostOK(c) \/ PostFail(c)
      PROVE  Base'
  BY <1>8 DEF PostArrive, PostOK, PostFail
<1>9. CASE Tick
  BY <1>9 DEF Tick
<1>10. CASE UNCHANGED vars
  BY <1>10 DEF vars
<1> QED
  BY <1>1, <1>2, <1>3, <1>4, <1>5, <1>6, <1>7, <1>8, <1>9, <1>10
     DEF Next, GetToken, FetchEnd, Quiesced

\* The type invariant.
THEOREM TypeCorrect == Spec => []TypeOK
BY BaseInit, BaseStep, PTL DEF Spec, Base

\* The mutex is held during a token exchange and at no other time: no error
\* return leaves it locked (google.go, getAccessToken).
THEOREM MutexCorrect == Spec => []LockDiscipline
BY BaseInit, BaseStep, PTL DEF Spec, Base

-----------------------------------------------------------------------------
(* Freshness.  A cached token outlives the time until which it is handed   *)
(* out by at least the buffer; an exchange has been under way for at most  *)
(* the timeout; a token in use lasts until the exchange it is used in ends.*)

FreshInv ==
    /\ cachedToken # None => tokenExpiry + Buffer <= cachedToken.expires
    /\ \A c \in Calls :
          /\ pc[c] \in Exchanging => since[c] <= now /\ now <= since[c] + Timeout
          /\ pc[c] = "post" /\ token[c] # None =>
                since[c] + Timeout < token[c].expires

LEMMA FreshStep == Base /\ FreshInv /\ [Next]_vars => FreshInv'
<1> SUFFICES ASSUME Base, FreshInv, [Next]_vars PROVE FreshInv'
  OBVIOUS
<1> USE GoogleAssumption DEF Base, TypeOK, FreshInv, Token, Exchanging
<1>1. ASSUME NEW c \in Calls, Call(c) PROVE FreshInv'
  BY <1>1 DEF Call
<1>2. ASSUME NEW c \in Calls, CacheHit(c) PROVE FreshInv'
  <2>1. now + Timeout < cachedToken.expires
    BY <1>2 DEF CacheHit, CacheValid
  <2> QED
    BY <1>2, <2>1 DEF CacheHit, CacheValid, Post
<1>3. ASSUME NEW c \in Calls, SignFail(c) PROVE FreshInv'
  BY <1>3 DEF SignFail
<1>4. ASSUME NEW c \in Calls, FetchStart(c) PROVE FreshInv'
  BY <1>4 DEF FetchStart
<1>5. ASSUME NEW c \in Calls, NEW a \in Answers, NEW issued \in 0..LastTime,
             FetchOK(c, a, issued)
      PROVE  FreshInv'
  <2>1. /\ a.expiresIn \in Nat /\ a.lifetime \in Nat
        /\ a.expiresIn <= a.lifetime /\ a.lifetime > 2 * Timeout
    OBVIOUS
  <2>2. /\ cachedToken' = [expires |-> issued + a.lifetime]
        /\ tokenExpiry' = since[c] + a.expiresIn - Buffer
        /\ token' = [token EXCEPT ![c] = [expires |-> issued + a.lifetime]]
        /\ since' = [since EXCEPT ![c] = now]
        /\ pc' = [pc EXCEPT ![c] = "post"]
        /\ now' = now
        /\ since[c] <= issued /\ issued <= now /\ now <= since[c] + Timeout
    BY <1>5 DEF FetchOK, Post, Expiry
  <2>3. tokenExpiry' + Buffer <= cachedToken'.expires
    BY <2>1, <2>2
  <2>4. now + Timeout < issued + a.lifetime
    BY <2>1, <2>2
  <2> QED
    BY <2>1, <2>2, <2>3, <2>4
<1>6. ASSUME NEW c \in Calls, NEW a \in Answers, FetchEmpty(c, a) PROVE FreshInv'
  BY <1>6 DEF FetchEmpty, Post
<1>7. ASSUME NEW c \in Calls, FetchFail(c) PROVE FreshInv'
  BY <1>7 DEF FetchFail
<1>8. ASSUME NEW c \in Calls, PostArrive(c) \/ PostOK(c) \/ PostFail(c)
      PROVE  FreshInv'
  BY <1>8 DEF PostArrive, PostOK, PostFail
<1>9. CASE Tick
  BY <1>9 DEF Tick
<1>10. CASE UNCHANGED vars
  BY <1>10 DEF vars
<1> QED
  BY <1>1, <1>2, <1>3, <1>4, <1>5, <1>6, <1>7, <1>8, <1>9, <1>10
     DEF Next, GetToken, FetchEnd, Quiesced

\* No request is under way with an expired token, because the buffer covers
\* one exchange and is counted from before the request (google.go:183).
THEOREM TokenFresh == Spec => []TokenFreshOnArrival
<1>1. Init => FreshInv
  BY GoogleAssumption DEF Init, FreshInv, Exchanging
<1>2. Base /\ FreshInv => TokenFreshOnArrival
  BY GoogleAssumption
     DEF Base, TypeOK, Token, FreshInv, TokenFreshOnArrival, Exchanging
<1> QED
  BY <1>1, <1>2, BaseInit, BaseStep, FreshStep, PTL DEF Spec

-----------------------------------------------------------------------------
(* One exchange per lifetime.  Until a token runs out it is in the cache,  *)
(* and an exchange under way began when every earlier one had run out.     *)

Window(t) == Expiry(t.asked, t.expiresIn)

WindowInv ==
    /\ \A t \in received :
          Window(t) <= now \/ (cachedToken # None /\ Window(t) <= tokenExpiry)
    /\ \A c \in Calls : pc[c] = "fetch" =>
          since[c] <= now /\ \A t \in received : Window(t) <= since[c]

LEMMA WindowStep ==
    Base /\ WindowInv /\ OneTokenPerLifetime /\ [Next]_vars =>
        WindowInv' /\ OneTokenPerLifetime'
<1> SUFFICES ASSUME Base, WindowInv, OneTokenPerLifetime, [Next]_vars
             PROVE  WindowInv' /\ OneTokenPerLifetime'
  OBVIOUS
<1> USE GoogleAssumption DEF Base, TypeOK, WindowInv, Window
<1>0. \A t \in received : Window(t) \in Int
  BY ExpiryInt
<1>1. ASSUME NEW c \in Calls, Call(c) \/ SignFail(c) \/ CacheHit(c)
      PROVE  WindowInv' /\ OneTokenPerLifetime'
  BY <1>1 DEF Call, SignFail, CacheHit, Post, OneTokenPerLifetime
<1>2. ASSUME NEW c \in Calls, FetchStart(c)
      PROVE  WindowInv' /\ OneTokenPerLifetime'
  <2>1. \A t \in received : Window(t) <= now
    BY <1>0, <1>2 DEF FetchStart, CacheValid
  <2> QED
    BY <1>2, <2>1 DEF FetchStart, OneTokenPerLifetime
<1>3. ASSUME NEW c \in Calls, NEW a \in Answers, NEW issued \in 0..LastTime,
             FetchOK(c, a, issued)
      PROVE  WindowInv' /\ OneTokenPerLifetime'
  <2> DEFINE u == [by |-> c, asked |-> since[c], expiresIn |-> a.expiresIn]
  <2>1. /\ pc[c] = "fetch" /\ pc' = [pc EXCEPT ![c] = "post"]
        /\ received' = received \cup {u}
        /\ cachedToken' # None /\ tokenExpiry' = Window(u)
        /\ now' = now
    BY <1>3 DEF FetchOK, Post
  <2>2. \A t \in received : Window(t) <= u.asked /\ Window(t) <= now
    BY <1>0, <2>1
  <2>3. \A d \in Calls : pc'[d] # "fetch"
    BY <2>1 DEF LockDiscipline
  <2>4. Window(u) \in Int
    BY ExpiryInt
  <2>5. WindowInv'
    BY <2>1, <2>2, <2>3, <2>4
  <2>6. OneTokenPerLifetime'
    <3> SUFFICES ASSUME NEW t \in received', NEW v \in received', t # v
                 PROVE  Window(t) <= v.asked \/ Window(v) <= t.asked
      BY DEF OneTokenPerLifetime
    <3>1. CASE t \in received /\ v \in received
      BY <3>1 DEF OneTokenPerLifetime
    <3>2. CASE t \in received /\ v = u
      BY <2>2, <3>2
    <3>3. CASE t = u /\ v \in received
      BY <2>2, <3>3
    <3> HIDE DEF u
    <3> QED
      BY <2>1, <3>1, <3>2, <3>3
  <2> QED
    BY <2>5, <2>6
<1>4. ASSUME NEW c \in Calls, NEW a \in Answers, FetchEmpty(c, a)
      PROVE  WindowInv' /\ OneTokenPerLifetime'
  <2>1. \A t \in received : Window(t) <= now
    BY <1>0, <1>4 DEF FetchEmpty
  <2>2. \A d \in Calls : pc'[d] # "fetch"
    BY <1>4 DEF FetchEmpty, Post, LockDiscipline
  <2> QED
    BY <1>4, <2>1, <2>2 DEF FetchEmpty, Post, OneTokenPerLifetime
<1>5. ASSUME NEW c \in Calls, FetchFail(c)
      PROVE  WindowInv' /\ OneTokenPerLifetime'
  BY <1>5 DEF FetchFail, OneTokenPerLifetime
<1>6. ASSUME NEW c \in Calls, PostArrive(c) \/ PostOK(c) \/ PostFail(c)
      PROVE  WindowInv' /\ OneTokenPerLifetime'
  BY <1>6 DEF PostArrive, PostOK, PostFail, OneTokenPerLifetime
<1>7. CASE Tick
  BY <1>0, <1>7 DEF Tick, OneTokenPerLifetime
<1>8. CASE UNCHANGED vars
  BY <1>8 DEF vars, OneTokenPerLifetime
<1> QED
  BY <1>1, <1>2, <1>3, <1>4, <1>5, <1>6, <1>7, <1>8
     DEF Next, GetToken, FetchEnd, Quiesced

\* Calls share the cached token: the client asks for a new one only when the
\* last one has run out, for any interleaving of calls.
THEOREM SharedToken == Spec => []OneTokenPerLifetime
<1>1. Init => WindowInv /\ OneTokenPerLifetime
  BY DEF Init, WindowInv, OneTokenPerLifetime
<1> QED
  BY <1>1, BaseInit, BaseStep, WindowStep, PTL DEF Spec

-----------------------------------------------------------------------------
(* The promise to the caller.  A step of one call is a step of the abstract *)
(* call or none; the tokens and the clock are none of the caller's business.*)

LEMMA PromiseInit == Init => Calendar!Init
BY DEF Init, Calendar!Init, Statuses, CallStatus

LEMMA StatusMoves ==
    ASSUME TypeOK, NEW c \in Calls, NEW there, pc' = [pc EXCEPT ![c] = there]
    PROVE  Statuses' = [Statuses EXCEPT ![c] = CallStatus(c)']
BY DEF TypeOK, Statuses, CallStatus

\* Between two places in the middle of a call nothing shows.
LEMMA Unseen ==
    ASSUME TypeOK, NEW c \in Calls, NEW there \in {"lock", "fetch", "post"},
           pc[c] \in {"lock", "fetch", "post"}, pc' = [pc EXCEPT ![c] = there],
           created' = created
    PROVE  UNCHANGED Calendar!vars
BY DEF TypeOK, Statuses, CallStatus, Calendar!vars

LEMMA PromiseStep == TypeOK /\ [Next]_vars => [Calendar!Next]_(Calendar!vars)
<1> SUFFICES ASSUME TypeOK, [Next]_vars
             PROVE  Calendar!Next \/ UNCHANGED Calendar!vars
  OBVIOUS
<1> USE DEF TypeOK
<1>0. \A c \in Calls : Statuses[c] = CallStatus(c)
  BY DEF Statuses
<1>1. ASSUME NEW c \in Calls, Call(c) PROVE Calendar!Begin(c)
  BY <1>0, <1>1, StatusMoves DEF Call, Calendar!Begin, CallStatus
<1>2. ASSUME NEW c \in Calls, CacheHit(c) \/ FetchStart(c) PROVE UNCHANGED Calendar!vars
  BY <1>2, Unseen DEF CacheHit, FetchStart, Post
<1>3. ASSUME NEW c \in Calls, SignFail(c) \/ FetchFail(c) \/ PostFail(c)
      PROVE  Calendar!Fail({c})
  <2>1. Statuses[c] = "pending" /\ Statuses' = [Statuses EXCEPT ![c] = "failed"]
    BY <1>0, <1>3, StatusMoves DEF SignFail, FetchFail, PostFail, CallStatus
  <2>2. Statuses' = [d \in Calls |-> IF d \in {c} THEN "failed" ELSE Statuses[d]]
    BY <2>1 DEF Statuses
  <2>3. created' = created
    BY <1>3 DEF SignFail, FetchFail, PostFail
  <2> QED
    BY <2>1, <2>2, <2>3 DEF Calendar!Fail
<1>4. ASSUME NEW c \in Calls, NEW a \in Answers,
             FetchEmpty(c, a) \/ \E issued \in 0..LastTime : FetchOK(c, a, issued)
      PROVE  UNCHANGED Calendar!vars
  BY <1>4, Unseen DEF FetchEmpty, FetchOK, Post
<1>5. ASSUME NEW c \in Calls, PostArrive(c) PROVE Calendar!Create(c)
  BY <1>0, <1>5 DEF PostArrive, Calendar!Create, CallStatus, Statuses
<1>6. ASSUME NEW c \in Calls, PostOK(c) PROVE Calendar!Succeed(c)
  BY <1>0, <1>6, StatusMoves DEF PostOK, Calendar!Succeed, CallStatus
<1>7. CASE Tick \/ UNCHANGED vars
  BY <1>7 DEF Tick, vars, Calendar!vars, Statuses, CallStatus
<1> QED
  BY <1>1, <1>2, <1>3, <1>4, <1>5, <1>6, <1>7
     DEF Next, GetToken, FetchEnd, Quiesced, Calendar!Next

\* The client implements RemoteCalendar, for every number of calls: a call that
\* succeeded has created its event, once (google.go:76-129).
THEOREM PromiseKept == Spec => KeepsCalendarPromise
BY TypeCorrect, PromiseInit, PromiseStep, PTL
   DEF Spec, KeepsCalendarPromise, Calendar!Spec
=============================================================================
