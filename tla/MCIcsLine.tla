----------------------------- MODULE MCIcsLine -----------------------------
(* Instances of IcsText and IcsLine for TLC. *)
EXTENDS IcsText

\* One to n of the given runes: no event without title, no line for no text.
Strings(runes, n) == {FlattenSeq(w) : w \in BoundedSeq(runes, n) \ {<<>>}}

Letters == {<<Start>>, <<Start, Continuation>>, <<Start, Continuation, Continuation>>}
Special == {<<Backslash>>, <<Comma>>, <<Newline>>}

MCTexts ==
    Strings(Letters \cup {<<Space>>}, 5) \cup Strings(Letters \cup {<<Space>>} \cup Special, 4)
MCAddresses == Strings(Letters \cup {<<Space>>, <<Comma>>}, 4)
MCShortTexts == Strings(Letters \cup {<<Space>>}, 4)
=============================================================================
