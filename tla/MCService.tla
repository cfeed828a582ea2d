----------------------------- MODULE MCService -----------------------------
(* Instances of Service for TLC. *)
EXTENDS Service

CT(media) == [media |-> media, params |-> FALSE]

\* One request for each way through validation.
MCShapes ==
    {[route |-> "text", keyGood |-> TRUE, body |-> "given",
      type |-> CT(""), suffix |-> "other"],
     [route |-> "text", keyGood |-> TRUE, body |-> "empty",
      type |-> CT(""), suffix |-> "other"],
     [route |-> "artifact", keyGood |-> TRUE, body |-> "given",
      type |-> CT(OctetStream), suffix |-> "pdf"],
     [route |-> "artifact", keyGood |-> TRUE, body |-> "given",
      type |-> [media |-> "text/plain", params |-> TRUE], suffix |-> "txt"],
     [route |-> "artifact", keyGood |-> FALSE, body |-> "given",
      type |-> CT("image/png"), suffix |-> "png"]}
=============================================================================
