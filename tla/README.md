# A TLA+ model of calendar_assistent

calendar_assistent takes a picture, a document or a text over HTTP, asks an LLM
which event it announces, and creates that event with one of three calendar
providers: an `.ics` file in S3 that people subscribe to (webcal), the Google
Calendar API, or an invitation sent by SMTP.  This directory specifies how the
parts of the program behave, checks the specifications with TLC, and proves the
most important properties with TLAPS.  All line numbers refer to `src/`.

## 1. The system

| component | state it keeps | operations | talks to |
|---|---|---|---|
| HTTP server (`internal/server`) | none between requests | two POST routes, `/healthz`, authentication, validation, status codes, `Shutdown` | processor |
| processor (`internal/processor`) | none | `ProcessArtifact` | LLM client, calendar provider |
| main (`cmd/calendar-assistent`) | life of the process | start, wait for a signal or a listener error, drain for 15 s, exit | all |
| LLM client (`internal/llm`) | none | `ExtractEvent` | a chat completion API, 120 s timeout |
| webcal provider (`internal/calendar/webcal`) | a mutex | `CreateEvent`: download, parse, prune, append, serialise, upload | S3 storage, codec |
| S3 storage (`webcal/s3storage.go`) | none; the object is in the bucket | `Download`, `Upload` | S3, 30 s timeout |
| codec (`webcal/ics.go`, `smtp/ical.go`, `icsutil`) | none | parse, unfold, prune, make a VEVENT, escape, make a UID, fold, serialise | |
| Google client (`internal/calendar/google`) | mutex, cached token and its expiry | `CreateEvent`, `getAccessToken` | token issuer, Calendar API, 30 s timeout each |
| SMTP provider (`internal/calendar/smtp`) | credentials | `CreateEvent`: one SMTP session, PLAIN or LOGIN authentication | a mail server, no deadline |
| configuration (`internal/config`), factory (`internal/calendar/calendar.go`) | none | load, defaults, validate, choose the provider | |
| mocks, chart, Dockerfile | | test doubles and deployment | |

Every HTTP request has a goroutine of its own.  Requests meet in three places:
the mutex and the object of the webcal provider, the mutex and the token cache
of the Google client, and the drain of `main`.  Two replicas, or the old and
the new pod of a rolling update, meet in the object only.

What is hard here, and what has to hold:

* **webcal**: a read-modify-write of one object under a mutex that reaches no
  further than the process; answers that get lost, PUTs that arrive late,
  processes that die in between.  An acknowledged event must stay until it
  expires, nothing but expired events may leave, everything expired must leave,
  the file must stay readable, no error return may keep the mutex.
* **codec**: every line is folded and unfolded again for each later event.
  Lines must fit, runes must stay whole, clients must read what was written and
  get the texts of the event back, UIDs must never change.
* **Google**: a cached token must still be good when the request that carries
  it arrives; calls that find the cache empty together must share an exchange; a
  call creates at most one event, and success means one.
* **SMTP**: commands in order on every error path and for every LOGIN challenge,
  nothing confidential before an offered STARTTLS, connections closed, success
  and error that mean what they say.
* **LLM client**: an LLM may answer anything.  Half an answer must not become an
  event, an answer of the form asked for must not be refused.
* **server, processor, main**: what the status code says about the calendar,
  no work before authentication, nobody cut off by a drain that had time left,
  an exit that always comes.
* **configuration**: what validation lets through must be enough for the
  factory and the clients, for every combination of providers, and must not ask
  for more; defaults must not overwrite what was set.

`PROJECT.json` lists the hazards one by one, each at its line, with the
properties that watch over it.

## 2. The modules

| module | models | theorems |
|---|---|---|
| `CalendarFeed` | abstract: what a published feed promises | |
| `Webcal` | webcal provider and S3 storage, any number of replicas; implements `RemoteCalendar`, and `CalendarFeed` with one writer | `WebcalProofs` |
| `RemoteCalendar` | abstract: what a client of a calendar that others write to can promise | |
| `GoogleCalendar` | Google client in explicit time; implements `RemoteCalendar` | `GoogleCalendarProofs` |
| `MailSubmission` | abstract: what a call that sends a mail can promise | |
| `SmtpSession` | one `CreateEvent` of the SMTP provider against a mail server; implements `MailSubmission` | `SmtpSessionProofs` |
| `IcsLine` | one content line going through `FoldLine` and `splitLines` | `IcsLineProofs` |
| `IcsText` | which lines there are: escaping, UIDs, addresses; extends `IcsLine` | `IcsTextProofs` |
| `LlmClient` | one `ExtractEvent`: the request, the answer, what is made of it | `LlmClientProofs` |
| `Startup` | `config.Load`, the LLM factory, the provider factory and the `New` of each provider | `StartupProofs` |
| `Service` | main, server and processor over any provider that implements `CalendarFeed` | `ServiceProofs` |
| `MCWebcal`, `MCGoogleCalendar`, `MCIcsLine`, `MCLlmClient`, `MCStartup`, `MCService` | instances for TLC | |

`Service` instantiates `CalendarFeed` (its provider takes steps of that
specification), and `Webcal` is shown to implement it, so what `Service` says
of an answer holds of the webcal provider where the refinement holds: with one
replica and a store that drops abandoned PUTs (`SingleWriter`).  `LlmClient`
details the step that is `ExtractOK` or `ExtractFail` in `Service`, `Startup`
the step that is `StartOK` or `StartFail`.  `IcsText` gives `IcsLine` its
`Lines`.  `SmtpSession` is the module of its own runs: its only constant is a
bound.

Operators marked `mutant` stand next to the definition they vary.  No
specification uses them; each shows that a property notices a particular bug.

### CalendarFeed and Webcal

One action per step between which another goroutine, another replica, the store
or the caller can get in:

| action | code |
|---|---|
| `Call`, `Lock` | `CreateEvent` entered, `p.mu.Lock()` (webcal.go:61-62); Lock looks at no context |
| `DownloadOK`, `DownloadFail` | `Download` (s3storage.go:70-95); 404 is an empty file, anything but 200 and 404 an error |
| `ParseFail`, `Rewrite` | `parseICS`, `pruneExpired`, `newVEvent` (webcal.go:70-81), no step in between: they work on memory only |
| `PutSend`, `PutApply`, `UploadOK`, `UploadFail` | `Upload` (s3storage.go:97-119) split where the store acts: a failure can come before the PUT was sent, before it was applied, or after |
| `Cancel`, `Crash`, `Tick` | the request context ends, the process dies and restarts, time passes |

`Return` is the deferred `Unlock`.  A VEVENT is its writer, its DTSTART and its
DTEND; the object is a set of them, because nothing depends on their order.
Time 0 is Go's zero time, January 1 of year 1, which is also what a VEVENT
without DTEND parses to, and which `pruneExpired` keeps: an event that really
ends at that instant is kept for ever, too.  `FirstInstant` and `LastInstant`
are the first of year 0 and the last of year 9999, in UTC.  The LLM's dates lie
between them in their own zone, but may lie outside in UTC; `Format` then writes
what `Parse` refuses (`Legible`).  `LateCommit` says whether the store may
apply a PUT after its caller has given up.  `began` is a history variable.

`ImplementsFeed` maps the calls to the requests of `CalendarFeed`: a call is
pending from `Call` on, published when its PUT is applied, done or failed when
it returns.  The abstract step `Publish` demands that nothing but expired
VEVENTs leaves the feed, and that a failed request is not published afterwards.
That takes a single writer.  `KeepsCalendarPromise` says what is left without one,
with the same mapping to `RemoteCalendar`: several replicas and late PUTs can undo
what a call has written, but it writes at most once, and success means that it
has written.

### GoogleCalendar

The clock stands still in code that does not block, and no HTTP exchange
outlives its timeout (guard of `Tick`).  A token is what the issuer handed out,
with its real expiry; the client knows `expires_in` and when it began to ask.
`CacheHit`, `SignFail` and `FetchStart` are the three ways through
`getAccessToken` up to its HTTP request, `FetchOK`, `FetchEmpty` and `FetchFail`
its answers, `Post` the way out of it.  `PostArrive` is the API, and may come
after the client gave up.

`KeepsCalendarPromise` maps it to `RemoteCalendar`: a call is pending from
`Call` on, done or failed when it returns, and its event is created when the API
creates it.  A failed call may still create its event, even later: the caller
who retries may get two, and nothing in the code claims otherwise.

### SmtpSession

The client's place in `send` (`pc`), the state of the connection, the commands
sent (`wire`, a history variable), and the server's own state `srv` by RFC 5321.
The server may refuse any command and the connection may break at any of them.
net/smtp is modelled by what it does for this caller: EHLO before the first
command with HELO as the second try, a second EHLO after STARTTLS, PLAIN refused
without TLS except on localhost.

The deferred `w.Close()` and `client.Quit()` are the actions `Close` and `Quit`.
`w.Write` fills a buffer of 4096 bytes: `Body` can fail only if the message is
longer (`cfg.long`), which an ordinary invitation is not.  `Close` sends what is
in the buffer, all of a short message, and the final dot, and reads the server's
verdict; if the connection breaks on the way, nothing or not all of it has gone
out.  The code drops each of these errors.

`Auth`, `Answer` and `CancelAuth` are the dialogue that `client.Auth` leads with
`loginAuth` (smtp.go:306-322): the server may ask for the user name and the
password in any order, more than once, or for something else, which `loginAuth`
answers with an error and net/smtp with `*`.  net/smtp sends the `*` after an
error reply of the server as well (`pc = "abort"`), a plain 535 included, when
there is no dialogue left to cancel: this is the one command out of sequence,
named `LateCancel` and excepted by `CommandsInSequence`.  The credentials stand in `wire`
under the name of what they are, so that `CommandsInSequence` sees a password
sent to the wrong challenge.

`KeepsSubmissionPromise` maps the session to `MailSubmission`: the message is
handed over when the final dot is sent, awaited while the server waits for it
after DATA, the call done or failed when `send` returns.  It promises that the
message goes out whole at most once, and only to a server that has taken the
envelope, and that a call that fails has not ended the message, which is more
than `ErrorMeansUndelivered`.  Success is worth little: the server was waiting
for the message.  It may have been accepted or refused, or never have left, which
is why `SuccessMeansAccepted` fails.

### IcsLine and IcsText

A byte is a space (or tab), a backslash, a comma (or semicolon), the start of
another rune, or a continuation byte.  `FoldShort`, `FoldFirst`, `FoldNext`,
`FoldLast` are the paths and iterations of `FoldLine`; `ReadFirst`, `ReadNext`,
`ReadLast` those of `splitLines` when the next event is published.

`IcsText` makes the lines from texts: `EscapeText` with its four replacements in
their order, `SanitizeUID` with its cut after a number of bytes, and the address
lines of the invitation, which nothing escapes.  `TextSurvives` reads them back
as a calendar client does: unfold by RFC 5545, then take out the escapes
(`Unescape`); `Visible` is what there is apart from spaces.  In the code texts are
valid UTF-8 (`Utf8`) because `json.Unmarshal` replaces what is not, and yaml.v3
refuses it.  `NoStray` and `ShortRunes` are the parts of it that folding needs, and
that a UID cut inside a rune and a line that has lost spaces still have: a
continuation byte stands behind something, and no more than three of them in a
row, so that a rune fits into a physical line.

### LlmClient

An answer is a sequence of lines, each known by what it is good for: a fence, a
fence with JSON or with any other text behind it, a JSON text or a part of one,
blank, prose.
`PrepareFail` to `CallOK` are the exchange; `stripCodeFence` is the code's, line
for line; `ParseFail`, `EmptyTitle` and `ParseOK` are the ways out of
`parseEventJSON`.

The code takes a line for a fence by how it begins (aiproxy.go:172, 177) and drops
all of it.  So `EventIsTheAnswer` cannot say that nothing of the answer is lost: a
remark, or a second event, on the line of a fence goes unread.  On a line of its
own it makes the answer an error.

### Startup

A configuration is a function from the names of the settings to texts, "" being
Go's zero value.  `Load` expands variables in the text of the file, parses that
as YAML, decodes by type (yaml.v3 takes no quoted number, `null` sets nothing),
applies defaults and validates; `validate`, `validateCalendar` and their parts are the functions of
that name.  The value of a variable is spliced into the text before YAML sees it.  One with a
comment sign, a colon, a quote, a backslash or the like in it (`Special`) may be
cut short, changed, or be no YAML any more; the constant `Remains` says what is
left of it, plain and in double quotes.  Values of several lines, which could
bring settings of their own, are left out.

`NewClient` and `NewProvider` follow, with the credentials file each
provider reads.  Model, system prompt, endpoint, public URL and `tls` are left
out: no step depends on them.

### Service

`Accept`, `Reject`, `Process`, `ExtractFail`, `ExtractOK`, `CreateOK`,
`CreateFail` take a request through `withAuth`, the two handlers, the processor
and `handleProcessingError`; `StartOK`, `StartFail`, `Stop`, `DrainDone`,
`DrainTimeout` are `main`.  `Exit` ends with the process every handler that is
still running.  A handler that panics is answered with 500 by `withRecovery`
and runs its deferred unlock: that is `CreateFail`.

## 3. The runs

| run | what it asks | bounds |
|---|---|---|
| `webcal_safety` | `TypeOK`, `LockDiscipline`, `AckedDurable`, `OnlyExpiredRemoved`, `ExpiredRemoved`, `ImplementsFeed` for one replica | three calls, clock of two instants, one VEVENT already expired, one without end; an extraction without end, and one that the added hour ends at the zero time |
| `webcal_liveness` | `KeepsCalendarPromise`, `EveryCallReturns` | two replicas, two calls, late PUTs, an object that may be unreadable from the start |
| `webcal_two_replicas` | violated: `OnlyExpiredRemoved` | two replicas, two calls |
| `webcal_far_event` | violated: `OwnOutputParses` | one replica, two calls; an extraction that begins before `FirstInstant`, one that ends after `LastInstant` |
| `google` | `LockDiscipline`, `TokenFreshOnArrival`, `OneTokenPerLifetime`, `KeepsCalendarPromise`, `EveryCallReturns` | two calls, eight ticks, tokens of four ticks with `expires_in` 4 or 0 |
| `smtp_session` | `OfferedMeansSecured`, `ErrorMeansUndelivered`, `SessionsEnd`, `CommandsInSequence`, `KeepsSubmissionPromise` | all configurations, messages shorter and longer than the buffer, all replies, three answered challenges (`MaxAnswers`) |
| `smtp_unaccepted` | violated: `SuccessMeansAccepted` | as above, two challenges |
| `ics_line` | `TypeOK`, `FitsLimit`, `RunesWhole`, `ClientReadsLine`, `OnlySpacesLost`, `TextSurvives`, `UidStable`, `FoldAdvances`, `FoldTerminates` | texts of up to five runes of one to three bytes, or up to four with commas, backslashes and line breaks; addresses of up to four; UIDs cut after 7 bytes (`MaxSlug`); folded at 5, rewritten twice |
| `ics_preserved` | violated: `LinePreserved` | texts of up to four runes, rewritten once |
| `llm` | `EventIsTheAnswer`, `AnswerIsTaken` | every answer of up to three lines, and of up to five lines of the likelier kinds |
| `startup` | `TypeOK`, `ListsAgree`, `Equipped`, `UnusedIsOptional`, `WrittenIsEffective` | every choice of providers with one setting written in each other way; a variable that is unset, 0, set, or set to one of three texts with `#` or a quote in them; credentials complete, incomplete or not mounted |
| `service` | `TypeOK`, `CreatedIsThere`, `RejectedHasNoEffect`, `NoWorkUnauthorized`, `CleanExit`, `StopsEventually` | three requests, one shape for every way through validation |

Why the bounds are enough.  A lost update needs two writers, and the third call
of `webcal_safety` lets one wait while another fails or crashes; two instants
let a VEVENT expire between any two steps.  `OneTokenPerLifetime` speaks of two
exchanges and a call makes at most one, so two calls suffice to break it; eight
ticks hold two token lifetimes.  Three challenges are one more than LOGIN needs,
so a repeated one is among them.  A line limit of 5 lets a fold fall before,
inside and behind every kind of rune and between the two characters of an
escape, and a line of 16 bytes is folded up to four times; a slug of 7 bytes can
end before, inside and behind a rune.  `stripCodeFence` looks at the first line,
the last one, and whether there are more than two, so three lines hold all its
cases and five lines leave room for a JSON text of several lines between fences.
Each function of `config.go` looks at a setting alone or together with the
choice of the provider, so varying one setting at a time for every choice meets
each of their branches.  The theorems below are not bounded at all.  Calls are
declared symmetric only in runs without liveness properties (refinement and
action properties do not tell them apart).  Deadlock is checked in every run:
each specification has an explicit step for having nothing left to do.

### The violations

* `webcal_two_replicas`: two processes read the same object, both write, the
  second PUT is unconditional and takes out the event of the first (webcal.go:65
  against README.md:172-173).
* `webcal_far_event`: an event that, in UTC, begins before year 0 or ends after year
  9999 is written with a negative year or with five digits; from then on every call
  fails to parse the file (ics.go:116-117, 179).
* `smtp_unaccepted`: a short message is sent, and the server's verdict on it read,
  by `w.Close()`, whose error is dropped (smtp.go:181): it may have been refused, or
  nothing of it may have left; the log says "calendar invitation sent" and the
  client gets 201.
* `ics_preserved`: unfolding takes off all leading white space of a continuation
  line, not one character (ics.go:166): "next week" becomes "nextweek" when
  the fold falls before the space.

Disagreements between code and text that have no run of their own:

* With `LateCommit = TRUE` the lost update happens with one process, too: when
  the store applies a PUT after the 30 s timeout freed the mutex
  (s3storage.go:108).
* A part sent as `text/plain; charset=utf-8` is answered with 415 although
  README.md:103-107 lists `text/plain` (server.go:96).
* "The organizer field must be non-empty" (credentials.go:17): nothing checks it,
  and `resolveOrganizer` falls back to `from`.
* parseEventJSON "validates required fields" (aiproxy.go:135): only the title.
  A missing start is sent on as year 1; a missing end, which webcal and SMTP
  make an hour, goes to Google as year 1 (google.go:96).
* The chart's default `/app/secrets/s3-credentials.json` (values.yaml:84) is not
  where the chart mounts the file, `/app/secrets/s3/` (deployment.yaml:69,
  README.md:184); and with `configAsSecret: false` its config map has no section
  for webcal and SMTP (configmap.yaml).

### Fairness

* `Webcal`, `GoogleCalendar`: weak fairness of `Lock` and of the end of each
  exchange of each call.  A Go mutex is handed on when it is free, calls are
  finitely many here, so a call that waits is not overtaken for ever; the 30 s
  timeout of the HTTP clients ends every exchange one way or the other.  Nothing
  is assumed of how it ends.
* `IcsLine`: the loop of `FoldLine` goes on as long as it can.  `SmtpSession`,
  `LlmClient` and `Startup` have no fairness: their liveness would be that of
  the other side.
* `Service`: only `Shutdown` is fair, which returns when no request is left or
  when its context expires.  Handlers are not: an SMTP session has no deadline
  after dialling, so a handler may hang for ever, and the process must exit
  all the same.

## 4. The proofs

Each proof module extends its specification; TLAPS checks every step.  The
theorems hold for every value of the constants that satisfies the named
assumptions, which TLC also evaluates.

* **WebcalProofs** (`WebcalAssumption`).  `TypeCorrect`, `MutexCorrect`,
  `PruningCorrect` and the weaker refinement `WrittenAtMostOnce` hold for any
  number of replicas and late PUTs.  `Durability`,
  `NothingLost` and `FeedRefinement` assume `SingleWriter`; the two violations
  show that neither half of it can go.  `OnlyExpiredRemoved` is not inductive:
  it needs to know that what a call holds in memory is still what the object
  holds, apart from what has expired and from the call's own VEVENT.  That is
  the strengthening, and it is kept because with one replica only one call is
  in the critical section and expired VEVENTs stay expired.  `ReadsItsOwn` is
  the other side of the run `webcal_far_event`: `OwnOutputParses` holds for any
  number of replicas and late PUTs as long as no event, in UTC, begins before year
  0 or ends after year 9999.
* **GoogleCalendarProofs** (`GoogleAssumption`: the issuer reports at most the
  real lifetime, a lifetime covers more than two timeouts, the buffer at least
  one; in the code 3600 s, 60 s, 30 s).  `TokenFresh` needs that the cached
  token outlives `tokenExpiry` by the buffer; `SharedToken` that the
  window of every answer received has ended, or ends no later than the current
  `tokenExpiry`.
  `PromiseKept` shows each step to be a step of `RemoteCalendar` or a stutter.
* **SmtpSessionProofs** (`SmtpAssumption`: the bound is a number).  The invariant
  ties the client's place in `send` to the server's state (`InStep`), the return
  value to what the server accepted (`ResultInv`), and both to TLS
  (`SecureInv`).  `Sequenced` is an action property and follows from `InStep`, which
  knows where the late `*` can come;
  `Closed` needs an invariant of its own (`EndInv`): up to its authentication a
  session has sent greetings only.  `SubmissionRefined` shows each step to be a
  step of `MailSubmission` or a stutter; it needs that the
  server waits for the message after DATA only, that a good result comes from
  there, and that the dot is sent only when the result is good (`HandOverInv`).
* **IcsLineProofs** (`IcsLineAssumption`: lines begin with a property name, have
  no stray continuation byte and no rune of more than four; the limit leaves
  room for a space and a rune).  `SplitPoint` and `TrimLeft` choose what exists,
  because a set of naturals has a least element (`Least`).
  * `TypeCorrect`, `LinesFit`, `NoRuneTorn`: the invariant says that the line, the
    rest of it and each physical line have no stray continuation byte (`Whole`,
    `Physical`), which cutting at rune starts and joining keep.
  * `FoldingAdvances`, the safety half of `FoldTerminates`: no more than three
    continuation bytes stand in a row, in the line, in the rest and in what is
    left of a line that lost spaces (`RunsInv`), so a split point is never 0.
  * `ClientsReadLines`: what the physical lines unfold to, together with the rest,
    is the line (`HeldInv`).  What `FlattenSeq` computes is proved by induction
    over a set's least element (`NatInduct`, `SeqInduct` take a set where the
    library's theorems take an operator): a function with its recursive equations
    exists (`FlattenExists`), there is one only (`FlattenUnique`), and it turns
    concatenation into concatenation (`SpelledConcat`).
  * `NothingButSpacesLost`, `SpacelessStay`, `ShortStay`: each step of reading takes
    nothing out of what is held, or spaces in one place (`HeldStep`, `SpacesTaken`).
    So a line without spaces, and a line that fits, come back to the byte: to
    break `LinePreserved` takes both a fold and a space.
* **IcsTextProofs** (`IcsTextAssumption`: texts and addresses are valid UTF-8).
  `LinesAsAssumed` derives from that what `IcsLineAssumption` asks of a line, so
  the theorems about lines hold of those the service makes.  `UidsStay` follows
  from `SpacelessStay`: a slug has no spaces.  `TextsSurvive`: escaping replaces
  each element on its own (`EscapeSpelled`), reading it back is undoing it
  (`ReadingEscaped`), and taking spaces out of an escaped text leaves the escape
  of the text without some of its spaces (`TakenEscaped`), because a space is
  never part of an escape; so at every step the line is the escape of some text
  with the same visible content (`TextInv`).
* **LlmClientProofs** (`LlmAssumption`).  Trimming and stripping leave a window of
  the answer (`Window`); `NothingLeftOut` says what may have been outside the
  window, white space and a line with a fence at either end, `GoodFormTaken` that it holds the JSON text, by cases on the number of lines.
* **StartupProofs** (`StartupAssumption`).  The invariant keeps that a
  configuration in use is what `Load` made of the file and has passed validation
  (`LoadedInv`), and that a serving process holds the keys its provider asked
  for (`HeldInv`).  `FileIsEffective` speaks of what is written, except zeros and
  texts with a dollar sign, and of the values of variables, except zeros and
  `Special` ones.
* **ServiceProofs** (`ServiceAssumption`).  The invariant ties the stage of the
  handler, the status of the provider and the answer together (`StageInv`),
  keeps what was published in the feed (`FeedInv`), and says that nothing is cut
  off unless the drain ran out of time (`PhaseInv`).

Every invariant, action property and refinement of a passing run is stated by a
theorem.  The type invariants of `GoogleCalendar`, `SmtpSession` and `LlmClient` are
proved (`TypeCorrect`), which is why their runs do not repeat them.

Only model-checked: the liveness properties (`EveryCallReturns` of `Webcal` and of
`GoogleCalendar`, `StopsEventually`, `FoldTerminates`), because fairness needs
ENABLED, which TLAPS does not have; and the properties that fail.

## 5. What is not modelled

* The layout of the MIME message (built in memory, where writing cannot fail),
  the encoding of its subject, prompts, logs and error bodies; the signing of S3
  requests and of the JWT: no property is about them.
* The UID that two events with equal start and title share (ics.go:110): `Webcal`
  identifies a VEVENT with the call that wrote it, so it cannot speak of
  uniqueness.
* Carriage returns in texts: `EscapeText` leaves them in the line
  (icsutil.go:31).
* Dates of an answer or of a Google request, beyond what decodes and, in
  `Webcal`, start and end of an event.
* Variables of several lines in the configuration, and references inside a longer
  text (config.go:224): `Startup` has whole references, one line each.
* Token revocation: a revoked token stays cached until its expiry.
* The client's connection: `response` is what a handler writes.  The write
  timeout of 2 min is no longer than what the LLM alone may take.
* A display name in `smtp.from` (README.md:250) goes whole into MAIL FROM
  (smtp.go:167), and a strict server refuses every invitation: the model has it
  (`EnvelopeSender`, `Mail`), without a property of its own.
* Test doubles (`mock.go`, `mockstorage.go`) and the chart, Dockerfile and compose
  file: no state and no steps.  `replicaCount` and rolling updates are the second
  replica of `Webcal`.

## 6. What was done, and what is left

In this order, the most important first: `CalendarFeed` and `Webcal` with the
refinement and its proof; `GoogleCalendar`; `Service` over the abstract provider;
`SmtpSession`; `IcsLine`; then `Startup`, `LlmClient`, `IcsText`, the LOGIN
dialogue, `RemoteCalendar` with its refinement, and the proofs about all of them;
then `IcsTextProofs` with what `IcsLineProofs` needs for it, `FoldAdvances`,
`MailSubmission` with its refinement, and that of `Webcal` to `RemoteCalendar`.

Left:

1. `Service` over `RemoteCalendar`, which is all that several replicas of webcal
   keep, and over `MailSubmission`: there a failed request may still create its
   event, or a successful one may never have left, so of `CreatedIsThere` only
   "created at most once" or "handed over at most once" would remain.
2. Conditional PUTs (`If-Match`), should the code get them: `Webcal` with the
   object's version would then implement `CalendarFeed` for any number of
   replicas.
