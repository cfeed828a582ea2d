------------------------------ MODULE IcsLine ------------------------------
(***************************************************************************)
(* The life of one content line of a VEVENT in the published .ics: every   *)
(* CreateEvent call folds it (icsutil.FoldLine, called by serializeICS)    *)
(* and the next call unfolds it again (splitLines, called by parseICS), so *)
(* a line is rewritten once for every later event.  A line of an           *)
(* invitation by mail is folded once.  Both loops are modelled iteration   *)
(* by iteration.  IcsText says which lines there are.                      *)
(*                                                                         *)
(* A line is a sequence of bytes, and of a byte counts only whether it is  *)
(* a space (or tab), a backslash, a comma (or semicolon), a byte that      *)
(* starts another rune, or a continuation byte.                            *)
(***************************************************************************)
EXTENDS Naturals, Sequences, SequencesExt

CONSTANTS
    Lines,         \* the content lines there are: [kind, text, line]
    MaxLineLength, \* 75 in the code
    Rounds         \* bound: how often the file is rewritten

Space == "space"
Backslash == "backslash"
Comma == "comma"
Start == "start"
Continuation == "continuation"
Bytes == {Space, Backslash, Comma, Start, Continuation}

Newline == "newline" \* occurs in texts, but not in lines

\* A line with the title, the description or the location, one with the UID,
\* and one with an address, which only an invitation has.
Kinds == {"text", "uid", "address"}

\* A continuation byte follows the byte that starts its rune, or another one.
NoStray(s) ==
    \A i \in DOMAIN s : s[i] = Continuation => i > 1 /\ s[i - 1] # Space

\* A rune has no more than four bytes.
ShortRunes(s) ==
    \A i \in 4..Len(s) : \E j \in i-3..i : s[j] # Continuation

ASSUME IcsLineAssumption ==
    /\ Lines \subseteq
          [kind : Kinds, text : Seq(Bytes \cup {Newline}), line : Seq(Bytes)]
    /\ \A l \in Lines : Len(l.line) > 0 /\ l.line[1] = Start
                      /\ NoStray(l.line) /\ ShortRunes(l.line)
    /\ MaxLineLength \in Nat
    /\ MaxLineLength >= 5 \* the space and a rune of four bytes
    /\ Rounds \in Nat

VARIABLES
    original, \* the line newVEvent made, and of what
    line,     \* the line in raw: what the service takes the line to be
    b,        \* what FoldLine has still to write
    out,      \* the physical lines in the file; a folded one starts with Space
    pc,       \* fold, chunk, stored or read
    round     \* how often the line has been read back

vars == <<original, line, b, out, pc, round>>

-----------------------------------------------------------------------------
RuneStart(byte) == byte # Continuation

SplitAtMax(s, max) == max \* mutant: splits inside a rune

\* The longest prefix of at most max bytes that is followed by a rune start.
SplitPoint(s, max) ==
    CHOOSE k \in 0..max :
        /\ k = 0 \/ RuneStart(s[k + 1])
        /\ \A j \in k+1..max : ~RuneStart(s[j + 1])

Drop(s, n) == SubSeq(s, n + 1, Len(s))

TrimLeft(s) ==
    Drop(s, CHOOSE n \in 0..Len(s) :
                /\ \A i \in 1..n : s[i] = Space
                /\ n = Len(s) \/ s[n + 1] # Space)

-----------------------------------------------------------------------------
Init ==
    /\ original \in Lines
    /\ line = original.line
    /\ b = <<>>
    /\ out = <<>>
    /\ pc = "fold"
    /\ round = 0

FoldShort ==
    /\ pc = "fold"
    /\ Len(line) <= MaxLineLength
    /\ out' = <<line>>
    /\ pc' = "stored"
    /\ UNCHANGED <<original, line, b, round>>

FoldFirst ==
    /\ pc = "fold"
    /\ Len(line) > MaxLineLength
    /\ LET end == SplitPoint(line, MaxLineLength)
       IN  /\ out' = <<SubSeq(line, 1, end)>>
           /\ b' = Drop(line, end)
    /\ pc' = "chunk"
    /\ UNCHANGED <<original, line, round>>

FoldNextSkip == \* mutant: drops the byte it splits at
    /\ pc = "chunk"
    /\ Len(b) > MaxLineLength - 1
    /\ LET chunk == SplitPoint(b, MaxLineLength - 1)
       IN  /\ out' = Append(out, <<Space>> \o SubSeq(b, 1, chunk))
           /\ b' = Drop(b, chunk + 1)
    /\ UNCHANGED <<original, line, pc, round>>

FoldNextEager == \* mutant: cuts when the rest just fits
    /\ pc = "chunk"
    /\ Len(b) >= MaxLineLength - 1
    /\ LET chunk == SplitPoint(b \o <<Start>>, MaxLineLength - 1)
       IN  /\ out' = Append(out, <<Space>> \o SubSeq(b, 1, chunk))
           /\ b' = Drop(b, chunk)
    /\ UNCHANGED <<original, line, pc, round>>

FoldNextStuck == \* mutant: does not advance
    /\ pc = "chunk"
    /\ Len(b) > MaxLineLength - 1
    /\ LET chunk == SplitPoint(b, MaxLineLength - 1)
       IN  out' = <<out[1], <<Space>> \o SubSeq(b, 1, chunk)>>
    /\ UNCHANGED <<original, line, b, pc, round>>

\* The space counts as one of the bytes of the physical line.
FoldNext ==
    /\ pc = "chunk"
    /\ Len(b) > MaxLineLength - 1
    /\ LET chunk == SplitPoint(b, MaxLineLength - 1)
       IN  /\ out' = Append(out, <<Space>> \o SubSeq(b, 1, chunk))
           /\ b' = Drop(b, chunk)
    /\ UNCHANGED <<original, line, pc, round>>

FoldLastFull == \* mutant: forgets that the space counts
    /\ pc = "chunk"
    /\ Len(b) <= MaxLineLength
    /\ out' = Append(out, <<Space>> \o b)
    /\ b' = <<>>
    /\ pc' = "stored"
    /\ UNCHANGED <<original, line, round>>

FoldLast ==
    /\ pc = "chunk"
    /\ Len(b) <= MaxLineLength - 1
    /\ out' = Append(out, <<Space>> \o b)
    /\ b' = <<>>
    /\ pc' = "stored"
    /\ UNCHANGED <<original, line, round>>

\* A mail is sent and forgotten.
Rewritten == original.kind # "address" /\ round < Rounds

\* The next CreateEvent call reads the file and is going to write it.
ReadFirst ==
    /\ pc = "stored"
    /\ Rewritten
    /\ line' = out[1]
    /\ out' = Tail(out)
    /\ pc' = "read"
    /\ round' = round + 1
    /\ UNCHANGED <<original, b>>

\* splitLines takes all the spaces off a continuation line.
ReadNext ==
    /\ pc = "read"
    /\ out # <<>>
    /\ line' = line \o TrimLeft(out[1])
    /\ out' = Tail(out)
    /\ UNCHANGED <<original, b, pc, round>>

ReadLast ==
    /\ pc = "read"
    /\ out = <<>>
    /\ pc' = "fold"
    /\ UNCHANGED <<original, line, b, out, round>>

Done ==
    /\ pc = "stored"
    /\ ~Rewritten
    /\ UNCHANGED vars

Next ==
    \/ FoldShort \/ FoldFirst \/ FoldNext \/ FoldLast
    \/ ReadFirst \/ ReadNext \/ ReadLast
    \/ Done

Spec == Init /\ [][Next]_vars

\* FoldLine is a loop: it goes on as long as it can.
FairSpec == Spec /\ WF_vars(FoldShort \/ FoldFirst \/ FoldNext \/ FoldLast)

-----------------------------------------------------------------------------
(* Properties. *)

\* The type invariant.  FoldLine has something left to write exactly while it
\* is in its loop, so it never writes a physical line that is a lone space.
TypeOK ==
    /\ original.line \in Seq(Bytes)
    /\ line \in Seq(Bytes)
    /\ b \in Seq(Bytes)
    /\ out \in Seq(Seq(Bytes))
    /\ pc \in {"fold", "chunk", "stored", "read"}
    /\ round \in 0..Rounds
    /\ pc = "chunk" <=> b # <<>>

\* No physical line is longer than MaxLineLength (RFC 5545 3.1, icsutil.go:35).
FitsLimit == \A i \in DOMAIN out : Len(out[i]) <= MaxLineLength

\* No rune is split between physical lines (icsutil.go:36), however often the
\* line has lost spaces, and even in a UID that ends in the middle of a rune.
RunesWhole ==
    \A i \in DOMAIN out :
        Len(out[i]) > 1 /\ out[i][1] = Space => RuneStart(out[i][2])

\* What a calendar client reads, which unfolds by RFC 5545: one space goes
\* with each line break.
ClientReads ==
    FlattenSeq([i \in DOMAIN out |-> IF i = 1 THEN out[i] ELSE Drop(out[i], 1)])

\* A client reads the line that was written.
ClientReadsLine == pc = "stored" => ClientReads = line

\* What there is apart from spaces.
Visible(s) ==
    FlattenSeq([i \in DOMAIN s |-> IF s[i] = Space THEN <<>> ELSE <<s[i]>>])

\* However often the file is rewritten, a line loses nothing but spaces.
OnlySpacesLost == pc # "read" => Visible(line) = Visible(original.line)

\* A line stays what it was: raw holds the "original property lines"
\* (ics.go:21), and splitLines "unfolds continuation lines" (ics.go:155).
LinePreserved == pc # "read" => line = original.line

\* Each physical line takes something of the line with it: no rune is too long
\* to be folded, so the loop never writes the same rest again (icsutil.go:51-63).
FoldAdvances ==
    [][/\ pc = "fold" /\ pc' = "chunk" => Len(b') < Len(line)
       /\ pc = "chunk" => Len(b') < Len(b)]_vars

\* FoldLine terminates.
FoldTerminates == pc = "fold" ~> pc = "stored"
=============================================================================
