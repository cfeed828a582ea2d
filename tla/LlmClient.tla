----------------------------- MODULE LlmClient -----------------------------
(***************************************************************************)
(* One ExtractEvent of the LLM client (internal/llm/aiproxy.go): a request *)
(* to a chat completion API, and what is made of the LLM's answer.  The    *)
(* LLM is told to "respond with valid JSON only" (prompts/default.txt) and *)
(* may answer anything.                                                    *)
(*                                                                         *)
(* An answer is a sequence of lines, of which counts what each is good     *)
(* for, and the value its JSON text has if it is one.                      *)
(***************************************************************************)
EXTENDS Naturals, Sequences

CONSTANT Contents \* what the LLM may answer: sequences of lines

Fence == "fence"    \* a code fence, ``` or ```json, alone on its line
Inline == "inline"  \* a code fence with a JSON text behind it, ```{...}
Remark == "remark"  \* a code fence with any other text behind it, ```Here it is:
Whole == "whole"    \* a JSON text
Open == "open"      \* the first line of a longer JSON text, some more, the last
Inner == "inner"
Close == "close"
Joined == "joined"  \* the last line of a JSON text and a code fence behind it
Blank == "blank"    \* white space
Prose == "prose"
Lines == {Fence, Inline, Remark, Whole, Open, Inner, Close, Joined, Blank, Prose}

\* What json.Unmarshal makes of the JSON text: an EventData with a title, one
\* without (null is one, too), or an error, for a date that is no RFC 3339
\* date for instance.
Values == {"event", "untitled", "mismatch"}

ASSUME LlmAssumption == Contents \subseteq Seq(Lines)

Choice == [lines : Contents, value : Values]

VARIABLES
    mimeType, \* of the upload: text or image (never changes)
    pc,       \* prepare, call, parse or returned
    request,  \* the content parts of the user message
    choices,  \* of the response; only the first one is ever looked at
    content,  \* the lines that callAPI returns
    result    \* none, event or err

vars == <<mimeType, pc, request, choices, content, result>>

-----------------------------------------------------------------------------
(* The text of an answer. *)

\* strings.TrimSpace takes the blank lines off both ends of s.
Trimmed(s, t) ==
    \E i \in 1..Len(s) + 1, k \in 0..Len(s) :
        /\ t = SubSeq(s, i, k)
        /\ \A j \in DOMAIN s : j < i \/ j > k => s[j] = Blank
        /\ i <= k => s[i] # Blank /\ s[k] # Blank

\* A line counts as a fence whatever stands behind the marker.
Fenced(line) == line \in {Fence, Inline, Remark}

stripCodeFenceLong(s) == \* mutant: no fence is taken off a single line of JSON
    IF s = <<>> \/ ~Fenced(s[1]) THEN s
    ELSE LET rest == IF Len(s) > 3 THEN Tail(s) ELSE s
         IN  IF Fenced(rest[Len(rest)]) THEN SubSeq(rest, 1, Len(rest) - 1) ELSE rest

stripCodeFenceBlind(s) == \* mutant: takes the last line for the closing fence
    IF s = <<>> \/ ~Fenced(s[1]) THEN s
    ELSE LET rest == IF Len(s) > 2 THEN Tail(s) ELSE s
         IN  SubSeq(rest, 1, Len(rest) - 1)

\* Of one line or two none is dropped at the front.
stripCodeFence(s) ==
    IF s = <<>> \/ ~Fenced(s[1]) THEN s
    ELSE LET rest == IF Len(s) > 2 THEN Tail(s) ELSE s
         IN  IF Fenced(rest[Len(rest)]) THEN SubSeq(rest, 1, Len(rest) - 1) ELSE rest

\* s holds one JSON text, from line i to line k, ...
JsonAt(s, i, k) ==
    \/ i = k /\ s[i] = Whole
    \/ /\ i < k /\ s[i] = Open /\ s[k] = Close
       /\ \A j \in i+1 .. k-1 : s[j] \in {Inner, Blank}

\* ... and nothing else: json.Unmarshal finds no syntax error.
JsonText(s) ==
    \E i, k \in DOMAIN s :
        /\ JsonAt(s, i, k)
        /\ \A j \in DOMAIN s : j < i \/ j > k => s[j] = Blank

-----------------------------------------------------------------------------
Init ==
    /\ mimeType \in {"text", "image"}
    /\ pc = "prepare"
    /\ request = <<>>
    /\ choices = <<>>
    /\ content = <<>>
    /\ result = "none"

Return(r) ==
    /\ pc' = "returned"
    /\ result' = r

\* The upload cannot be read.
PrepareFail ==
    /\ pc = "prepare"
    /\ Return("err")
    /\ UNCHANGED <<mimeType, request, choices, content>>

\* A PDF goes as an image, too.
Prepare ==
    /\ pc = "prepare"
    /\ request' = IF mimeType = "text" THEN <<"text">> ELSE <<"image_url", "text">>
    /\ pc' = "call"
    /\ UNCHANGED <<mimeType, choices, content, result>>

\* No connection, the timeout, a cancelled context, a status but 200, a body
\* that does not decode, or no choices in it.
CallFail ==
    /\ pc = "call"
    /\ Return("err")
    /\ UNCHANGED <<mimeType, request, choices, content>>

CallOK(first) ==
    /\ pc = "call"
    /\ choices' = <<first>>
    /\ Trimmed(first.lines, content')
    /\ pc' = "parse"
    /\ UNCHANGED <<mimeType, request, result>>

Decoded == JsonText(stripCodeFence(content)) /\ choices[1].value # "mismatch"

ParseFail ==
    /\ pc = "parse"
    /\ ~Decoded
    /\ Return("err")
    /\ UNCHANGED <<mimeType, request, choices, content>>

\* Rule 4 of the prompt: no event in the upload means an empty title.
EmptyTitle ==
    /\ pc = "parse"
    /\ Decoded
    /\ choices[1].value = "untitled"
    /\ Return("err")
    /\ UNCHANGED <<mimeType, request, choices, content>>

\* Nothing but the title is required: a missing start is year 1.
ParseOK ==
    /\ pc = "parse"
    /\ Decoded
    /\ choices[1].value = "event"
    /\ Return("event")
    /\ UNCHANGED <<mimeType, request, choices, content>>

Returned ==
    /\ pc = "returned"
    /\ UNCHANGED vars

Next ==
    \/ PrepareFail \/ Prepare
    \/ CallFail
    \/ \E first \in Choice : CallOK(first)
    \/ ParseFail \/ EmptyTitle \/ ParseOK
    \/ Returned

Spec == Init /\ [][Next]_vars

-----------------------------------------------------------------------------
(* Properties. *)

\* The type invariant: ExtractEvent returns either an event or an error.
TypeOK ==
    /\ mimeType \in {"text", "image"}
    /\ pc \in {"prepare", "call", "parse", "returned"}
    /\ request \in {<<>>, <<"text">>, <<"image_url", "text">>}
    /\ choices \in Seq(Choice)
    /\ content \in Seq(Lines)
    /\ result \in {"none", "event", "err"}
    /\ pc = "returned" <=> result # "none"

\* An event is one whole JSON text of the answer, and what is left out of the
\* answer for it is white space and no more than one line on either side, which
\* begins with a code fence.  So an answer cut off by maxTokens gives no entry,
\* nor one with a text, or another event, on a line of its own.  What stands on
\* the line of a fence goes with it, unread, be it a remark or another event
\* (aiproxy.go:136-183).
EventIsTheAnswer ==
    result = "event" =>
        /\ choices # <<>> /\ choices[1].value = "event"
        /\ LET s == choices[1].lines
           IN  \E i, k \in DOMAIN s :
                 /\ JsonAt(s, i, k)
                 /\ \A j \in DOMAIN s : j < i \/ j > k => s[j] = Blank \/ Fenced(s[j])
                 /\ \A j, l \in DOMAIN s :
                       Fenced(s[j]) /\ Fenced(s[l]) /\ j < l => j < i /\ k < l

\* An event that the LLM gives as it was told to, or between two code fences
\* as LLMs like to (aiproxy.go:135, llm_test.go:90), is not refused.
AnswerIsTaken ==
    pc = "returned" /\ choices # <<>> =>
        LET s == choices[1].lines
            fenced == \E i, k \in DOMAIN s :
                        /\ i < k /\ s[i] = Fence /\ s[k] = Fence
                        /\ JsonText(SubSeq(s, i + 1, k - 1))
                        /\ \A j \in DOMAIN s : j < i \/ j > k => s[j] = Blank
        IN  choices[1].value = "event" /\ (JsonText(s) \/ fenced) => result = "event"
=============================================================================
