---------------------------- MODULE StartupProofs ----------------------------
(***************************************************************************)
(* Proofs about Startup for every configuration file, every value of the   *)
(* environment and every set of mounted credentials files.                 *)
(***************************************************************************)
EXTENDS Startup, TLAPS

-----------------------------------------------------------------------------
(* What Load makes of a file. *)

LEMMA LoadedType ==
    ASSUME file \in [Fields -> Scalar], env \in Texts, \A f \in Fields : Decodes(f)
    PROVE  Loaded \in [Fields -> Texts]
<1>1. ASSUME NEW f \in Fields
      PROVE  Decoded(f) \in Texts
  <2>1. Expand(file[f].text) \in Texts
    BY StartupAssumption DEF Expand, Scalar
  <2>2. Spliced(f) => Remains[AsExpanded(f)] \in Texts
    BY StartupAssumption DEF Decodes, Parses
  <2> QED
    BY StartupAssumption, <2>1, <2>2 DEF Decoded, Parsed
<1>2. \A f \in DOMAIN DefaultValue : DefaultValue[f] \in Texts
  BY StartupAssumption
<1> QED
  BY <1>1, <1>2 DEF Loaded, applyDefaults

LEMMA NumericDefaulted == Numbers \cup Measures \subseteq Fields
BY DEF Numbers, Measures, Fields, DefaultValue

\* A default takes the place of a zero and of nothing else.
LEMMA DefaultsKeep ==
    ASSUME NEW f \in Fields, Decoded(f) # ""
    PROVE  Loaded[f] = Decoded(f)
BY DEF Loaded, applyDefaults

-----------------------------------------------------------------------------
(* The invariant: from Load on, cfg is what was loaded, and it is valid. *)

LoadedInv ==
    pc \in {"client", "provider", "serving"} => cfg = Loaded /\ validate(cfg)

HeldInv ==
    pc = "serving" =>
        /\ cfg.calendar = "google" => {"client_email", "private_key"} \subseteq held
        /\ cfg.calendar = "webcal" /\ cfg.storage = "s3" =>
              {"accessKeyId", "secretAccessKey"} \subseteq held
        /\ cfg.calendar = "smtp" /\ cfg.authMethod # "none" =>
              {"username", "password"} \subseteq held

Inv == TypeOK /\ LoadedInv /\ HeldInv /\ ListsAgree

LEMMA InvInit == Init => Inv
BY StartupAssumption
   DEF Init, Inv, TypeOK, LoadedInv, HeldInv, ListsAgree

LEMMA InvStep == Inv /\ [Next]_vars => Inv'
<1> SUFFICES ASSUME Inv, [Next]_vars PROVE Inv'
  OBVIOUS
<1>1. CASE LoadFail
  BY <1>1 DEF LoadFail, Exit, Inv, TypeOK, LoadedInv, HeldInv, ListsAgree
<1>2. CASE Load
  <2>1. Loaded \in [Fields -> Texts]
    BY <1>2, LoadedType DEF Load, Inv, TypeOK
  <2>2. Loaded' = Loaded /\ cfg' = Loaded /\ validate(Loaded)
    BY <1>2 DEF Load, Loaded, applyDefaults, Decoded, Parsed, Spliced, AsExpanded, Expand
  <2>3. validate(cfg')
    BY <2>2
  <2> QED
    BY <1>2, <2>1, <2>2, <2>3
       DEF Load, Inv, TypeOK, LoadedInv, HeldInv, ListsAgree
<1>3. CASE NewClient
  <2>1. cfg.llm \in {"mock", "aiproxy"}
    BY <1>3 DEF NewClient, Inv, LoadedInv, validate, validateLLM
  <2>2. Loaded' = Loaded /\ UNCHANGED <<file, env, disk, cfg, held, failure>>
        /\ pc' = "provider" /\ pc = "client"
    BY <1>3, <2>1 DEF NewClient, Loaded, applyDefaults, Decoded, Parsed, Spliced,
                       AsExpanded, Expand
  <2> QED
    BY <2>2 DEF Inv, TypeOK, LoadedInv, HeldInv, ListsAgree, validate,
                validateServer, validateLLM, validateCalendar,
                validateWebcalStorage, validateSMTP
<1>4. CASE NewProvider
  <2>1. /\ pc = "provider"
        /\ validate(cfg)
    BY <1>4 DEF NewProvider, Inv, LoadedInv
  <2>2. cfg.calendar \in {"google", "webcal", "smtp", "mock"}
        /\ (cfg.calendar = "webcal" => cfg.storage \in {"s3", "mock"})
    BY <2>1 DEF validate, validateCalendar, validateWebcalStorage
  <2>3. \/ Exit("credentials")
        \/ \E keys : Serve(keys) /\ HeldInv'
    <3>1. CASE cfg.calendar = "google"
      BY <1>4, <3>1
         DEF NewProvider, googleNew, ReadCredentials, Serve, HeldInv
    <3>2. CASE cfg.calendar = "webcal"
      BY <1>4, <2>2, <3>2
         DEF NewProvider, webcalNew, ReadCredentials, Serve, HeldInv
    <3>3. CASE cfg.calendar = "smtp"
      BY <1>4, <3>3
         DEF NewProvider, smtpNew, ReadCredentials, Serve, HeldInv
    <3>4. CASE cfg.calendar = "mock"
      BY <1>4, <3>4 DEF NewProvider, Serve, HeldInv
    <3> QED
      BY <2>2, <3>1, <3>2, <3>3, <3>4
  <2>4. UNCHANGED <<file, env, disk, cfg>>
    BY <2>3 DEF Exit, Serve
  <2>5. Loaded' = Loaded
    BY <2>4 DEF Loaded, applyDefaults, Decoded, Parsed, Spliced, AsExpanded, Expand
  <2>6. validate(cfg')
    BY <2>1, <2>4
  <2> QED
    BY <2>1, <2>3, <2>4, <2>5, <2>6
       DEF Exit, Serve, Inv, TypeOK, LoadedInv, HeldInv, ListsAgree
<1>5. CASE UNCHANGED vars
  BY <1>5 DEF vars, Inv, TypeOK, LoadedInv, HeldInv, ListsAgree, Loaded,
              applyDefaults, Decoded, Parsed, Spliced, AsExpanded, Expand
<1> QED
  BY <1>1, <1>2, <1>3, <1>4, <1>5 DEF Next, Up

LEMMA InvAlways == Spec => []Inv
BY InvInit, InvStep, PTL DEF Spec

-----------------------------------------------------------------------------
\* The type invariant: nothing but a valid configuration, with its defaults in, is
\* ever in use (config.go:230-236).
THEOREM TypeCorrect == Spec => []TypeOK
BY InvAlways, PTL DEF Inv

\* No configuration that passes validation reaches an "unsupported" branch
\* behind it (llm.go:34, calendar.go:29, webcal.go:49).
THEOREM FactoriesAgree == Spec => []ListsAgree
BY InvAlways, PTL DEF Inv

\* Whatever the file, the environment and the mounts: a process that serves
\* has what its providers are going to use.
THEOREM ServingIsEquipped == Spec => []Equipped
<1>1. Inv => Equipped
  <2> SUFFICES ASSUME Inv, pc = "serving" PROVE Equipped
    BY DEF Equipped
  <2>1. cfg = Loaded /\ validate(cfg)
    BY DEF Inv, LoadedInv
  <2>2. cfg.calendarId # "" /\ cfg.s3Key # ""
    BY <2>1 DEF Loaded, applyDefaults, Fields, DefaultValue
  <2> QED
    BY <2>1, <2>2 DEF Inv, HeldInv, Equipped, validate, validateLLM,
                      validateCalendar, validateWebcalStorage, validateSMTP
<1> QED
  BY <1>1, InvAlways, PTL

\* No text in the file is overruled by a default (config.go:240-292), nor is the
\* value of a variable, unless YAML takes it for more than a text (config.go:224).
THEOREM FileIsEffective == Spec => []WrittenIsEffective
<1>1. Inv => WrittenIsEffective
  <2> SUFFICES ASSUME Inv, pc \in {"client", "provider", "serving"}
               PROVE  WrittenIsEffective
    BY DEF WrittenIsEffective
  <2>1. cfg = Loaded
    BY DEF Inv, LoadedInv
  <2> DEFINE zeros(f) == {""} \cup (IF f \in Numbers \cup Measures THEN {Zero} ELSE {})
  <2>2. ASSUME NEW f \in Fields, file[f].text \notin zeros(f) \cup {Reference, Dollar}
        PROVE  cfg[f] = file[f].text
    <3>1. Decoded(f) = file[f].text /\ Decoded(f) # ""
      BY <2>2 DEF Decoded, Parsed, Spliced, Expand
    <3> QED
      BY <2>1, <3>1, DefaultsKeep
  <2>3. ASSUME NEW f \in Fields, file[f].text = Reference,
               env \notin zeros(f) \cup Special
        PROVE  cfg[f] = env
    <3>1. Decoded(f) = env /\ Decoded(f) # ""
      BY <2>3 DEF Decoded, Parsed, Spliced, Expand
    <3> QED
      BY <2>1, <3>1, DefaultsKeep
  <2> QED
    BY <2>2, <2>3 DEF WrittenIsEffective
<1> QED
  BY <1>1, InvAlways, PTL

\* A section that the chosen providers do not use may be left out.
THEOREM SectionsIndependent == Spec => []UnusedIsOptional
<1>1. Inv => UnusedIsOptional
  <2> SUFFICES ASSUME Inv, pc = "serving", NEW f \in Fields \ Used(cfg)
               PROVE  validate(applyDefaults([cfg EXCEPT ![f] = ""]))
    BY DEF UnusedIsOptional
  <2> DEFINE c == applyDefaults([cfg EXCEPT ![f] = ""])
  <2>1. validate(cfg) /\ cfg \in [Fields -> Texts]
    BY DEF Inv, LoadedInv, TypeOK
  <2>2. \A g \in Fields : g # f /\ cfg[g] # "" => c[g] = cfg[g]
    BY <2>1 DEF applyDefaults
  <2>3. \A g \in Used(cfg) : g \in Fields /\ cfg[g] # "" => c[g] = cfg[g]
    BY <2>2
  <2> HIDE DEF c
  <2>4. {"logLevel", "llm", "calendar", "baseUrl", "llmKey", "googleFile", "storage",
         "bucket", "region", "s3File", "smtpHost", "smtpTo", "smtpFrom",
         "authMethod", "smtpFile"} \subseteq Fields
    BY DEF Fields, DefaultValue
  <2>5. validateServer(c)
    BY <2>1, <2>3, <2>4 DEF validate, validateServer, Used
  <2>6. validateLLM(c)
    BY <2>1, <2>3, <2>4 DEF validate, validateLLM, Used
  <2>7. c.calendar = cfg.calendar
    BY <2>1, <2>3, <2>4 DEF validate, validateCalendar, Used
  <2>8. validateCalendar(c)
    <3>1. CASE cfg.calendar = "google"
      BY <2>1, <2>3, <2>4, <2>7, <3>1 DEF validate, validateCalendar, Used
    <3>2. CASE cfg.calendar = "webcal"
      BY <2>1, <2>3, <2>4, <2>7, <3>2
         DEF validate, validateCalendar, validateWebcalStorage, Used
    <3>3. CASE cfg.calendar = "smtp"
      BY <2>1, <2>3, <2>4, <2>7, <3>3
         DEF validate, validateCalendar, validateSMTP, Used
    <3>4. CASE cfg.calendar = "mock"
      BY <2>7, <3>4 DEF validateCalendar
    <3> QED
      BY <2>1, <3>1, <3>2, <3>3, <3>4 DEF validate, validateCalendar
  <2> QED
    BY <2>5, <2>6, <2>8 DEF c, validate
<1> QED
  BY <1>1, InvAlways, PTL
=============================================================================
