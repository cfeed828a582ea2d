----------------------------- MODULE MCStartup -----------------------------
(* Instances of Startup for TLC. *)
EXTENDS Startup, TLC

MCTexts == STRING

Plain(t) == [quoted |-> FALSE, text |-> t]
Quoted(t) == [quoted |-> TRUE, text |-> t]

\* Every field written, the way config.example.yaml writes it.
Filled ==
    [f \in Fields |->
        CASE f = "googleFile" -> Quoted("google.json")
          [] f = "s3File"     -> Quoted("s3.json")
          [] f = "smtpFile"   -> Quoted("smtp.json")
          [] f \in Numbers    -> Plain("7")
          [] f \in Measures   -> Quoted("9")
          [] f = "logLevel"   -> Quoted("debug")
          [] f \in {"llm", "calendar", "storage", "authMethod"} -> Plain("")
          [] OTHER            -> Quoted("set")]

\* Every provider with every storage and every way to authenticate ...
Chosen ==
    {[Filled EXCEPT !["llm"] = Plain(l), !["calendar"] = Plain(p[1]),
                    !["storage"] = Plain(p[2]), !["authMethod"] = Plain(p[3])] :
        l \in {"", "aiproxy"},
        p \in {<<"", "", "">>, <<"webcal", "", "">>, <<"webcal", "mock", "">>,
               <<"smtp", "", "">>, <<"smtp", "", "none">>, <<"mock", "mock", "login">>}}

\* ... with one field written in any other way.
MCFiles ==
    Chosen \cup
    {[c EXCEPT ![f] = w] :
        c \in Chosen, f \in Fields,
        w \in {Plain(""), Quoted(""), Plain(Zero), Quoted("7"), Plain(Garbage),
               Plain(Reference), Quoted(Reference), Plain(Dollar)}}

\* A comment is cut off unless it is quoted, or is all there is; a lone double
\* quote leaves no YAML behind.
MCSpecial == {"value #rest", "# rest", "\"value"}

MCRemains ==
    (Plain("value #rest") :> "value") @@ (Quoted("value #rest") :> "value #rest") @@
    (Plain("# rest") :> "") @@ (Quoted("# rest") :> "# rest")

MCValues == {"", Zero, "value"} \cup MCSpecial

Complete ==
    ("google.json" :> {"client_email", "private_key"}) @@
    ("s3.json" :> {"accessKeyId", "secretAccessKey"}) @@
    ("smtp.json" :> {"username", "password", "organizer"})

\* All there; one key missing in each; nothing mounted.
MCDisks ==
    {Complete,
     [p \in DOMAIN Complete |-> Complete[p] \ {"private_key", "accessKeyId", "password"}],
     [p \in {} |-> {}]}
=============================================================================
