------------------------------- MODULE Startup -------------------------------
(***************************************************************************)
(* How a process comes up, before it serves (main.go:19-43): config.Load   *)
(* puts environment variables into the text of the configuration file,     *)
(* decodes it, fills in defaults and validates it; llm.NewClient and       *)
(* calendar.NewProvider are made of the result, and the latter reads a     *)
(* credentials file.                                                       *)
(*                                                                         *)
(* A configuration is a function from fields to texts, and "" stands for   *)
(* the zero value of Go, of whatever type.                                 *)
(***************************************************************************)

CONSTANTS
    Texts,  \* all texts
    Files,  \* configuration files: a scalar for every field, see Scalar
    Values, \* what the environment variable of Reference may hold, one line;
            \* "" if unset
    Special, \* texts that mean something in YAML or have something in them that
             \* does: " #", ": ", quotes, a backslash, null, spaces at an end ...
    Remains, \* what YAML makes of a special text that stands in the file as it is,
             \* by its quoting; a scalar that is missing here is no YAML
    Disks   \* what is mounted: the keys found in each credentials file

\* What applyDefaults puts in place of a zero value.
DefaultValue ==
    [address |-> ":8080", readTimeout |-> "15s", writeTimeout |-> "2m",
     idleTimeout |-> "60s", maxUpload |-> "10MiB", logLevel |-> "info",
     llm |-> "mock", temperature |-> "0.2", maxTokens |-> "4096",
     calendar |-> "google", calendarId |-> "primary", timeZone |-> "UTC",
     eventTtl |-> "720h", storage |-> "s3", s3Key |-> "calendar.ics",
     smtpPort |-> "587", authMethod |-> "plain"]

Fields ==
    DOMAIN DefaultValue \cup
    {"apiKey", "baseUrl", "llmKey", "googleFile", "bucket", "region", "s3File",
     "smtpHost", "smtpTo", "smtpFrom", "smtpFile"}

\* Fields of a numeric type, and fields decoded from a string by their type.
Numbers == {"temperature", "maxTokens", "smtpPort"}
Measures == {"readTimeout", "writeTimeout", "idleTimeout", "maxUpload", "eventTtl"}

\* The text is that which YAML reads, and quoted means in double quotes.  A field
\* that is not written is an unquoted scalar without text.
Scalar == [quoted : BOOLEAN, text : Texts]

Reference == "${VAR}"
Dollar == "pa$word"    \* a literal text with a dollar sign in it
Garbage == "garbage"   \* no number, no duration, no size
Zero == "0"            \* 0, 0s, 0B, 0.5B

ASSUME StartupAssumption ==
    /\ Files \subseteq [Fields -> Scalar]
    /\ Values \subseteq Texts
    /\ {DefaultValue[f] : f \in DOMAIN DefaultValue} \cup {"", "pa"} \subseteq Texts
    /\ \A s \in DOMAIN Remains :
          s \in [quoted : BOOLEAN, text : Special] /\ Remains[s] \in Texts

VARIABLES
    file, env, disk, \* what the process finds (never change)
    pc,              \* load, client, provider, serving or exited
    cfg,             \* the configuration Load returns
    held,            \* the keys of the credentials the provider holds
    failure          \* why the process exited with code 1

vars == <<file, env, disk, pc, cfg, held, failure>>

-----------------------------------------------------------------------------
(* config.Load *)

\* os.ExpandEnv works on the text of the file ...
Expand(text) ==
    IF text = Reference THEN env ELSE IF text = Dollar THEN "pa" ELSE text

\* ... before it is taken for YAML, so that the value of a variable is YAML, too.
Spliced(f) == file[f].text = Reference /\ env \in Special

AsExpanded(f) == [quoted |-> file[f].quoted, text |-> env]

Parses(f) == Spliced(f) => AsExpanded(f) \in DOMAIN Remains

Parsed(f) == IF Spliced(f) THEN Remains[AsExpanded(f)] ELSE Expand(file[f].text)

\* yaml.v3 takes no string for a number; null sets nothing, whatever the type.
\* No number, duration or size is special.
Decodes(f) ==
    /\ Parses(f)
    /\ f \in Numbers => ~file[f].quoted
    /\ f \in Measures /\ file[f].quoted => Parsed(f) # ""
    /\ f \in Numbers \cup Measures => Parsed(f) \notin {Garbage} \cup Special

Decoded(f) ==
    IF f \in Numbers \cup Measures /\ Parsed(f) = Zero THEN "" ELSE Parsed(f)

applyDefaultsEager(c) == \* mutant: a default that wins over the file
    [f \in Fields |-> IF f = "eventTtl" \/ (c[f] = "" /\ f \in DOMAIN DefaultValue)
                      THEN DefaultValue[f] ELSE c[f]]

applyDefaults(c) ==
    [f \in Fields |-> IF c[f] = "" /\ f \in DOMAIN DefaultValue
                      THEN DefaultValue[f] ELSE c[f]]

validateServer(c) == c.logLevel \in {"debug", "info", "warn", "warning", "error"}

validateLLM(c) ==
    \/ c.llm = "mock"
    \/ c.llm = "aiproxy" /\ c.baseUrl # "" /\ c.llmKey # ""

validateWebcalStorage(c) ==
    \/ c.storage = "s3" /\ c.bucket # "" /\ c.region # "" /\ c.s3File # ""
    \/ c.storage = "mock"

validateSMTP(c) ==
    /\ c.authMethod \in {"none", "plain", "login"}
    /\ c.smtpHost # "" /\ c.smtpTo # "" /\ c.smtpFrom # ""
    /\ c.authMethod # "none" => c.smtpFile # ""

validateCalendarAll(c) == \* mutant: the storage is checked for every provider
    /\ validateWebcalStorage(c)
    /\ \/ c.calendar \in {"mock", "webcal"}
       \/ c.calendar = "google" /\ c.googleFile # ""
       \/ c.calendar = "smtp" /\ validateSMTP(c)

validateCalendarOpen(c) == \* mutant: a provider the factory does not know
    \/ c.calendar = "google" /\ c.googleFile # ""
    \/ c.calendar = "webcal" /\ validateWebcalStorage(c)
    \/ c.calendar = "smtp" /\ validateSMTP(c)
    \/ c.calendar \notin {"google", "webcal", "smtp"}

validateCalendar(c) ==
    \/ c.calendar = "google" /\ c.googleFile # ""
    \/ c.calendar = "webcal" /\ validateWebcalStorage(c)
    \/ c.calendar = "smtp" /\ validateSMTP(c)
    \/ c.calendar = "mock"

validate(c) == validateServer(c) /\ validateLLM(c) /\ validateCalendar(c)

-----------------------------------------------------------------------------
Init ==
    /\ file \in Files
    /\ env \in Values
    /\ disk \in Disks
    /\ pc = "load"
    /\ cfg = [f \in Fields |-> ""]
    /\ held = {}
    /\ failure = "none"

Exit(why) ==
    /\ pc' = "exited"
    /\ failure' = why
    /\ UNCHANGED <<file, env, disk, cfg, held>>

Loaded == applyDefaults([f \in Fields |-> Decoded(f)])

\* The file does not decode or does not pass validation.  One that cannot be
\* read ends like one that does not decode.
LoadFail ==
    /\ pc = "load"
    /\ ~((\A f \in Fields : Decodes(f)) /\ validate(Loaded))
    /\ Exit("config")

LoadUnvalidated == \* mutant: what decodes is in effect
    /\ pc = "load"
    /\ \A f \in Fields : Decodes(f)
    /\ cfg' = Loaded
    /\ pc' = "client"
    /\ UNCHANGED <<file, env, disk, held, failure>>

Load ==
    /\ pc = "load"
    /\ \A f \in Fields : Decodes(f)
    /\ validate(Loaded)
    /\ cfg' = Loaded
    /\ pc' = "client"
    /\ UNCHANGED <<file, env, disk, held, failure>>

\* Both clients are made without looking at anything but the configuration.
NewClient ==
    /\ pc = "client"
    /\ IF cfg.llm \in {"mock", "aiproxy"}
       THEN pc' = "provider" /\ UNCHANGED <<file, env, disk, cfg, held, failure>>
       ELSE Exit("unsupported")

Serve(keys) ==
    /\ pc' = "serving"
    /\ held' = keys
    /\ UNCHANGED <<file, env, disk, cfg, failure>>

ReadCredentialsUnchecked(path, keys) == \* mutant: an empty key goes unnoticed
    IF path \in DOMAIN disk THEN Serve(disk[path]) ELSE Exit("credentials")

\* The file must be readable, be JSON, and have a text for every key.
ReadCredentials(path, keys) ==
    IF path \in DOMAIN disk /\ keys \subseteq disk[path]
    THEN Serve(disk[path])
    ELSE Exit("credentials")

googleNew == ReadCredentials(cfg.googleFile, {"client_email", "private_key"})

webcalNew ==
    CASE cfg.storage = "s3" ->
           ReadCredentials(cfg.s3File, {"accessKeyId", "secretAccessKey"})
      [] cfg.storage = "mock" -> Serve({})
      [] OTHER -> Exit("unsupported")

smtpNew ==
    IF cfg.authMethod = "none"
    THEN Serve({})
    ELSE ReadCredentials(cfg.smtpFile, {"username", "password"})

NewProvider ==
    /\ pc = "provider"
    /\ CASE cfg.calendar = "google" -> googleNew
         [] cfg.calendar = "webcal" -> webcalNew
         [] cfg.calendar = "smtp" -> smtpNew
         [] cfg.calendar = "mock" -> Serve({})
         [] OTHER -> Exit("unsupported")

\* The process serves, or is gone.
Up ==
    /\ pc \in {"serving", "exited"}
    /\ UNCHANGED vars

Next == LoadFail \/ Load \/ NewClient \/ NewProvider \/ Up

Spec == Init /\ [][Next]_vars

-----------------------------------------------------------------------------
(* Properties. *)

\* The type invariant; a process that has exited says why, and a configuration
\* in use is valid with its defaults in (config.go:230-236).
TypeOK ==
    /\ file \in [Fields -> Scalar] /\ env \in Texts
    /\ pc \in {"load", "client", "provider", "serving", "exited"}
    /\ cfg \in [Fields -> Texts]
    /\ failure \in {"none", "config", "credentials", "unsupported"}
    /\ failure # "none" <=> pc = "exited"
    /\ pc \in {"client", "provider", "serving"} => validate(cfg)

\* Validation, the two factories, webcal.New and the SMTP authentication each
\* have a list of their own of what is supported, and the lists agree: the
\* "unsupported" branches behind validation are never taken (llm.go:34,
\* calendar.go:29, webcal.go:49).
ListsAgree == failure # "unsupported"

\* A process that serves has all that its LLM client and its provider are
\* going to use: no request fails for want of configuration.  SMTP credentials
\* are there exactly when authenticate will want them (smtp.go:152-164).
Equipped ==
    pc = "serving" =>
        /\ cfg.llm = "aiproxy" => cfg.baseUrl # "" /\ cfg.llmKey # ""
        /\ cfg.calendar = "google" =>
              {"client_email", "private_key"} \subseteq held /\ cfg.calendarId # ""
        /\ cfg.calendar = "webcal" /\ cfg.storage = "s3" =>
              /\ {"accessKeyId", "secretAccessKey"} \subseteq held
              /\ cfg.bucket # "" /\ cfg.region # "" /\ cfg.s3Key # ""
        /\ cfg.calendar = "smtp" =>
              /\ cfg.smtpHost # "" /\ cfg.smtpTo # "" /\ cfg.smtpFrom # ""
              /\ \/ cfg.authMethod = "none"
                 \/ /\ cfg.authMethod \in {"plain", "login"}
                    /\ {"username", "password"} \subseteq held

\* The fields the chosen providers look at.
Used(c) ==
    {"logLevel", "llm", "calendar"}
    \cup (IF c.llm = "aiproxy" THEN {"baseUrl", "llmKey"} ELSE {})
    \cup CASE c.calendar = "google" -> {"googleFile"}
           [] c.calendar = "webcal" ->
                {"storage"} \cup (IF c.storage = "s3"
                                  THEN {"bucket", "region", "s3File"} ELSE {})
           [] c.calendar = "smtp" ->
                {"smtpHost", "smtpTo", "smtpFrom", "authMethod"} \cup
                (IF c.authMethod = "none" THEN {} ELSE {"smtpFile"})
           [] OTHER -> {}

\* What the chosen providers do not look at may be left out: no section is
\* required for the sake of another provider, and "For open relay [...] omit
\* the credentials file" (README.md:269).
UnusedIsOptional ==
    pc = "serving" =>
        \A f \in Fields \ Used(cfg) :
            validate(applyDefaults([cfg EXCEPT ![f] = ""]))

\* What somebody wrote into the file is what is in effect, unless it is a zero
\* (config.go:240-292 takes it for "not set") or has a dollar sign in it
\* (config.go:224 takes it for a variable).  A variable that holds something is
\* in effect where it is referred to, unless it is a zero or means something in
\* YAML: then it may be cut short, changed or no YAML at all, for config.go:224
\* puts it in before the file is parsed.
WrittenIsEffective ==
    pc \in {"client", "provider", "serving"} =>
        \A f \in Fields :
            LET text == file[f].text
                zeros == {""} \cup (IF f \in Numbers \cup Measures THEN {Zero} ELSE {})
            IN  /\ text \notin zeros \cup {Reference, Dollar} => cfg[f] = text
                /\ text = Reference /\ env \notin zeros \cup Special => cfg[f] = env
=============================================================================
