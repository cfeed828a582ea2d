--------------------------- MODULE GoogleCalendar ---------------------------
(***************************************************************************)
(* The Google Calendar client (internal/calendar/google): every            *)
(* CreateEvent gets a bearer token, from the cache or by a token exchange  *)
(* made under the client's mutex, and then posts the event.                *)
(*                                                                         *)
(* Time is what can go wrong here, so it is explicit: the clock stands     *)
(* still inside code that does not block, and no HTTP exchange outlives    *)
(* its timeout.  A token is what the issuer handed out: when it really     *)
(* expires is known to the issuer only.  The client works with expires_in  *)
(* and the time at which it started to ask.                                *)
(***************************************************************************)
EXTENDS Integers

CONSTANTS
    Calls,        \* CreateEvent calls
    None,         \* a free mutex; the empty access token
    Answers,      \* token answers: [expiresIn, lifetime]
    Buffer,       \* tokenExpiryBuffer
    Timeout,      \* timeout of the http.Client
    LastTime      \* bound: the clock stops here

\* What the freshness of a token rests on: the issuer reports at most the
\* real lifetime, the lifetime covers two exchanges (3600s against 30s), and
\* the buffer covers one (60s against 30s).
ASSUME GoogleAssumption ==
    /\ None \notin Calls
    /\ None \notin [expires : Nat]
    /\ Answers \subseteq [expiresIn : Nat, lifetime : Nat]
    /\ \A a \in Answers : a.expiresIn <= a.lifetime /\ a.lifetime > 2 * Timeout
    /\ Timeout \in Nat \ {0}
    /\ Buffer \in Nat
    /\ Buffer >= Timeout
    /\ LastTime \in Nat

VARIABLES
    now,          \* clock
    keyUsable,    \* does the configured private key parse? (never changes)
    mu,           \* the call that holds the mutex
    cachedToken,  \* None or a token: [expires |-> real expiry]
    tokenExpiry,  \* until when the client hands out cachedToken
    pc,           \* pc[c]: where call c is
    since,        \* since[c]: start of c's exchange with the issuer or the API
    token,        \* token[c]: what getAccessToken gave to c
    created,      \* the calls whose event exists in the calendar
    received      \* the token answers the client got (history)

vars == <<now, keyUsable, mu, cachedToken, tokenExpiry, pc, since, token,
          created, received>>

Token == [expires : Nat]
Exchanging == {"fetch", "post"}

-----------------------------------------------------------------------------
Init ==
    /\ now = 0
    /\ keyUsable \in BOOLEAN
    /\ mu = None
    /\ cachedToken = None
    /\ tokenExpiry = 0
    /\ pc = [c \in Calls |-> "idle"]
    /\ since = [c \in Calls |-> 0]
    /\ token = [c \in Calls |-> None]
    /\ created = {}
    /\ received = {}

Call(c) ==
    /\ pc[c] = "idle"
    /\ pc' = [pc EXCEPT ![c] = "lock"]
    /\ UNCHANGED <<now, keyUsable, mu, cachedToken, tokenExpiry, since, token,
                   created, received>>

CacheValid == cachedToken # None /\ now < tokenExpiry

\* Leaves getAccessToken with token t and sends the event to the API.
Post(c, t) ==
    /\ token' = [token EXCEPT ![c] = t]
    /\ since' = [since EXCEPT ![c] = now]
    /\ pc' = [pc EXCEPT ![c] = "post"]

\* The mutex is free for a moment, and the cached token is good.
CacheHit(c) ==
    /\ pc[c] = "lock"
    /\ mu = None
    /\ CacheValid
    /\ Post(c, cachedToken)
    /\ UNCHANGED <<now, keyUsable, mu, cachedToken, tokenExpiry, created,
                   received>>

\* signJWT fails on a private key that New did not look into.
SignFail(c) ==
    /\ pc[c] = "lock"
    /\ mu = None
    /\ ~CacheValid
    /\ ~keyUsable
    /\ pc' = [pc EXCEPT ![c] = "err"]
    /\ UNCHANGED <<now, keyUsable, mu, cachedToken, tokenExpiry, since, token,
                   created, received>>

FetchStartUnchecked(c) == \* mutant: the cache was looked at before Lock
    /\ pc[c] = "lock"
    /\ mu = None
    /\ keyUsable
    /\ mu' = c
    /\ since' = [since EXCEPT ![c] = now]
    /\ pc' = [pc EXCEPT ![c] = "fetch"]
    /\ UNCHANGED <<now, keyUsable, cachedToken, tokenExpiry, token, created,
                   received>>

\* The exchange is made with the mutex held.
FetchStart(c) ==
    /\ pc[c] = "lock"
    /\ mu = None
    /\ ~CacheValid
    /\ keyUsable
    /\ mu' = c
    /\ since' = [since EXCEPT ![c] = now]
    /\ pc' = [pc EXCEPT ![c] = "fetch"]
    /\ UNCHANGED <<now, keyUsable, cachedToken, tokenExpiry, token, created,
                   received>>

ExpiryUnbuffered(asked, expiresIn) == asked + expiresIn \* mutant

\* Counted from before the request, not from when the answer came.
Expiry(asked, expiresIn) == asked + expiresIn - Buffer

\* The issuer handed out the token at some moment during the exchange.
FetchOK(c, a, issued) ==
    /\ pc[c] = "fetch"
    /\ since[c] <= issued /\ issued <= now
    /\ cachedToken' = [expires |-> issued + a.lifetime]
    /\ tokenExpiry' = Expiry(since[c], a.expiresIn)
    /\ received' = received \cup
          {[by |-> c, asked |-> since[c], expiresIn |-> a.expiresIn]}
    /\ mu' = None
    /\ Post(c, cachedToken')
    /\ UNCHANGED <<now, keyUsable, created>>

\* Status 200 with an empty access_token is cached and used like any other.
FetchEmpty(c, a) ==
    /\ pc[c] = "fetch"
    /\ cachedToken' = None
    /\ tokenExpiry' = Expiry(since[c], a.expiresIn)
    /\ mu' = None
    /\ Post(c, None)
    /\ UNCHANGED <<now, keyUsable, created, received>>

FetchFailLocked(c) == \* mutant: an error return that skips Unlock
    /\ pc[c] = "fetch"
    /\ pc' = [pc EXCEPT ![c] = "err"]
    /\ UNCHANGED <<now, keyUsable, mu, cachedToken, tokenExpiry, since, token,
                   created, received>>

\* Connection error, timeout, cancelled context, a status but 200, or JSON
\* that does not decode.
FetchFail(c) ==
    /\ pc[c] = "fetch"
    /\ mu' = None
    /\ pc' = [pc EXCEPT ![c] = "err"]
    /\ UNCHANGED <<now, keyUsable, cachedToken, tokenExpiry, since, token,
                   created, received>>

\* The API looks at the token when the request arrives, which may be after
\* the client has stopped waiting.
PostArrive(c) ==
    /\ pc[c] \in {"post", "err"}
    /\ c \notin created
    /\ token[c] # None /\ now < token[c].expires
    /\ created' = created \cup {c}
    /\ UNCHANGED <<now, keyUsable, mu, cachedToken, tokenExpiry, pc, since,
                   token, received>>

PostOK(c) ==
    /\ pc[c] = "post"
    /\ c \in created
    /\ pc' = [pc EXCEPT ![c] = "ok"]
    /\ UNCHANGED <<now, keyUsable, mu, cachedToken, tokenExpiry, since, token,
                   created, received>>

PostFailIgnored(c) == \* mutant: the status code is not looked at
    /\ pc[c] = "post"
    /\ pc' = [pc EXCEPT ![c] = "ok"]
    /\ UNCHANGED <<now, keyUsable, mu, cachedToken, tokenExpiry, since, token,
                   created, received>>

\* The API refused, or its answer was lost or did not decode: the event may
\* exist all the same.
PostFail(c) ==
    /\ pc[c] = "post"
    /\ pc' = [pc EXCEPT ![c] = "err"]
    /\ UNCHANGED <<now, keyUsable, mu, cachedToken, tokenExpiry, since, token,
                   created, received>>

\* The http.Client ends every exchange before time passes its timeout.
Tick ==
    /\ now < LastTime
    /\ \A c \in Calls : pc[c] \in Exchanging => now < since[c] + Timeout
    /\ now' = now + 1
    /\ UNCHANGED <<keyUsable, mu, cachedToken, tokenExpiry, pc, since, token,
                   created, received>>

Quiesced ==
    /\ \A c \in Calls : pc[c] \in {"ok", "err"}
    /\ UNCHANGED vars

GetToken(c) == CacheHit(c) \/ SignFail(c) \/ FetchStart(c)

FetchEnd(c) ==
    \/ \E a \in Answers :
          \/ \E issued \in 0..LastTime : FetchOK(c, a, issued)
          \/ FetchEmpty(c, a)
    \/ FetchFail(c)

Next ==
    \/ \E c \in Calls :
          \/ Call(c)
          \/ GetToken(c)
          \/ FetchEnd(c)
          \/ PostArrive(c) \/ PostOK(c) \/ PostFail(c)
    \/ Tick
    \/ Quiesced

Spec == Init /\ [][Next]_vars

\* A goroutine gets a mutex nobody holds; an exchange ends at its timeout.
Fairness ==
    \A c \in Calls :
        /\ WF_vars(GetToken(c))
        /\ WF_vars(FetchEnd(c))
        /\ WF_vars(PostOK(c) \/ PostFail(c))

FairSpec == Spec /\ Fairness

-----------------------------------------------------------------------------
(* Properties. *)

TypeOK ==
    /\ now \in Nat
    /\ keyUsable \in BOOLEAN
    /\ mu \in Calls \cup {None}
    /\ cachedToken \in Token \cup {None}
    /\ tokenExpiry \in Int
    /\ pc \in [Calls -> {"idle", "lock", "fetch", "post", "ok", "err"}]
    /\ since \in [Calls -> Nat]
    /\ token \in [Calls -> Token \cup {None}]
    /\ created \in SUBSET Calls
    /\ received \in SUBSET [by : Calls, asked : Nat, expiresIn : Nat]

\* The mutex is held exactly during a token exchange, whichever way it ends.
LockDiscipline == \A c \in Calls : mu = c <=> pc[c] = "fetch"

\* A token is good for as long as the request that carries it may still be
\* under way: tokenExpiryBuffer is large enough, and counted from the right
\* moment.
TokenFreshOnArrival ==
    \A c \in Calls :
        pc[c] = "post" /\ token[c] # None => now < token[c].expires

\* The client never asks for a token while one it got is good: calls that
\* arrive together share one exchange.
OneTokenPerLifetime ==
    \A t, u \in received : t # u =>
        \/ Expiry(t.asked, t.expiresIn) <= u.asked
        \/ Expiry(u.asked, u.expiresIn) <= t.asked

\* What the caller sees of a call.
CallStatus(c) ==
    CASE pc[c] = "idle" -> "idle"
      [] pc[c] = "ok" -> "done"
      [] pc[c] = "err" -> "failed"
      [] OTHER -> "pending"

Statuses == [c \in Calls |-> CallStatus(c)]

Calendar == INSTANCE RemoteCalendar WITH status <- Statuses, created <- created

\* The client keeps RemoteCalendar's promise, with the cache, the expired tokens
\* and the answers that get lost: success means that the event is in the
\* calendar, once, and only an error leaves it open (google.go:76-129).
KeepsCalendarPromise == Calendar!Spec

\* Every call returns: nobody waits forever behind a token exchange.
EveryCallReturns == \A c \in Calls : pc[c] = "lock" ~> pc[c] \in {"ok", "err"}
=============================================================================
