------------------------------ MODULE IcsText ------------------------------
(***************************************************************************)
(* Which content lines newVEvent makes of the texts of an event            *)
(* (ics.go:106-125, icsutil.go:14-33), which ones the SMTP provider makes  *)
(* for its invitation (ical.go:45-79), and what becomes of them in the     *)
(* hands of IcsLine.                                                       *)
(*                                                                         *)
(* Start is also the n of an escaped line break, the dash that SanitizeUID *)
(* puts in place of punctuation, and each fixed part of a line.  Runes of  *)
(* several bytes are letters.                                              *)
(***************************************************************************)
EXTENDS IcsLine

CONSTANTS
    Texts,     \* titles and descriptions, valid UTF-8
    Addresses, \* configured organizers and attendees, valid UTF-8
    MaxSlug    \* 40 in the code

Glyphs == Bytes \cup {Newline}

\* In UTF-8 a continuation byte follows the first byte of its rune, or another,
\* and there are no more than three of them.
Utf8(s) ==
    /\ \A i \in DOMAIN s :
          s[i] = Continuation => i > 1 /\ s[i - 1] \in {Start, Continuation}
    /\ ShortRunes(s)

\* strings.ReplaceAll, with a sequence for a byte.
Replaced(s, byte, by) ==
    FlattenSeq([i \in DOMAIN s |-> IF s[i] = byte THEN by ELSE <<s[i]>>])

EscapeTextLate(s) == \* mutant: the escape character is escaped last
    Replaced(
        Replaced(Replaced(s, Comma, <<Backslash, Comma>>),
                   Newline, <<Backslash, Start>>),
        Backslash, <<Backslash, Backslash>>)

EscapeText(s) ==
    Replaced(
        Replaced(Replaced(s, Backslash, <<Backslash, Backslash>>),
                   Comma, <<Backslash, Comma>>),
        Newline, <<Backslash, Start>>)

SanitizeUIDSpaced(s) == \* mutant: replaces what needs escaping and no more
    LET dashed == [i \in DOMAIN s |->
                      IF s[i] \in {Backslash, Comma, Newline} THEN Start ELSE s[i]]
    IN  SubSeq(dashed, 1, IF Len(s) > MaxSlug THEN MaxSlug ELSE Len(s))

\* The cut counts bytes and may fall inside a rune.
SanitizeUID(s) ==
    LET dashed == [i \in DOMAIN s |->
                      IF s[i] \in {Space, Backslash, Comma, Newline} THEN Start
                      ELSE s[i]]
    IN  SubSeq(dashed, 1, IF Len(s) > MaxSlug THEN MaxSlug ELSE Len(s))

\* SUMMARY, DESCRIPTION or LOCATION.
TextLine(t) ==
    [kind |-> "text", text |-> t, line |-> <<Start>> \o EscapeText(t)]

\* UID:<start>-<slug>@calendar-assistent, with "event" for an empty slug.
UidLine(t) ==
    LET slug == IF SanitizeUID(t) = <<>> THEN <<Start>> ELSE SanitizeUID(t)
    IN  [kind |-> "uid", text |-> t, line |-> <<Start>> \o slug \o <<Start>>]

\* ORGANIZER or ATTENDEE: the address as it is.  Whether mailto: was configured
\* or put in front by ensureMailto, it is part of what is fixed.
AddressLine(a) == [kind |-> "address", text |-> a, line |-> <<Start>> \o a]

NewLines == {TextLine(t) : t \in Texts} \cup {UidLine(t) : t \in Texts}

\* The invitation has a summary and a UID, too: the same lines with more added.
InvitationLines == NewLines \cup {AddressLine(a) : a \in Addresses}

\* The lines that IcsLine is about are made of such texts and addresses.
ASSUME IcsTextAssumption ==
    /\ Texts \subseteq Seq(Glyphs) /\ Addresses \subseteq Seq(Bytes)
    /\ \A s \in Texts \cup Addresses : Utf8(s)
    /\ MaxSlug \in Nat
    /\ Lines \subseteq InvitationLines

-----------------------------------------------------------------------------
(* Properties. *)

\* How a client takes the escapes out of a text (RFC 5545 3.3.11): r is what
\* it has read so far, and whether a backslash went before this byte.
ReadByte(r, byte) ==
    IF r.escaped
    THEN [text |-> Append(r.text, IF byte = Start THEN Newline ELSE byte),
          escaped |-> FALSE]
    ELSE IF byte = Backslash THEN [r EXCEPT !.escaped = TRUE]
    ELSE [r EXCEPT !.text = Append(@, byte)]

NothingRead == [text |-> <<>>, escaped |-> FALSE]

Reading(s) ==
    LET read[i \in 0..Len(s)] ==
            IF i = 0 THEN NothingRead ELSE ReadByte(read[i - 1], s[i])
    IN  read[Len(s)]

Unescape(s) == Reading(s).text

\* A subscriber sees the title and the description that the LLM gave: exactly
\* as long as the event is the last one published, and without some of its
\* spaces after that, but with every line break, comma and backslash in place.
TextSurvives ==
    LET read == Unescape(Tail(ClientReads))
    IN  pc = "stored" /\ original.kind = "text" =>
            /\ round = 0 => read = original.text
            /\ Visible(read) = Visible(original.text)

\* Rewriting the file never changes a UID: clients keep taking the event for
\* the one they have (ics.go:110), and a retry of its request, too.
UidStable == pc # "read" /\ original.kind = "uid" => line = original.line
=============================================================================
