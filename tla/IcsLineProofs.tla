--------------------------- MODULE IcsLineProofs ---------------------------
(***************************************************************************)
(* Proofs about IcsLine, for lines and rewritings of any number, with a    *)
(* MaxLineLength that leaves room for the space.                           *)
(***************************************************************************)
EXTENDS IcsLine, SequenceTheorems, WellFoundedInduction, TLAPS

-----------------------------------------------------------------------------
(* The loops of FoldLine and of strings.TrimLeft stop somewhere: a set of  *)
(* naturals has a least element.                                           *)

LEMMA Least ==
    ASSUME NEW T, T \subseteq Nat, T # {}
    PROVE  \E m \in T : \A n \in T : m <= n
<1>1. PICK m \in T : \A n \in T : ~(<<n, m>> \in OpToRel(<, Nat))
  BY NatLessThanWellFounded, WFMin
<1>2. ASSUME NEW n \in T PROVE m <= n
  <2>1. m \in Nat /\ n \in Nat
    OBVIOUS
  <2>2. ~(n < m)
    BY <1>1, <2>1 DEF OpToRel
  <2> QED
    BY <2>1, <2>2
<1> QED
  BY <1>2

\* A split point is where a rune starts, or the very beginning.
LEMMA SplitPointFacts ==
    ASSUME NEW s, NEW max \in Nat
    PROVE  /\ SplitPoint(s, max) \in 0..max
           /\ SplitPoint(s, max) = 0 \/ RuneStart(s[SplitPoint(s, max) + 1])
           /\ \A j \in SplitPoint(s, max) + 1 .. max : ~RuneStart(s[j + 1])
<1> DEFINE T == {d \in 0..max : d = max \/ RuneStart(s[max - d + 1])}
<1>1. T \subseteq Nat /\ max \in T
  OBVIOUS
<1>2. PICK d \in T : \A n \in T : d <= n
  <2> HIDE DEF T
  <2> QED
    BY <1>1, Least
<1>3. d \in 0..max /\ (d = max \/ RuneStart(s[max - d + 1]))
  OBVIOUS
<1>4. PICK k \in 0..max : k = max - d
  BY <1>3
<1>5. k = 0 \/ RuneStart(s[k + 1])
  <2>1. CASE d = max
    BY <1>3, <1>4, <2>1
  <2>2. CASE RuneStart(s[max - d + 1])
    BY <1>4, <2>2
  <2> QED
    BY <1>3, <2>1, <2>2
<1>6. ASSUME NEW j \in k+1..max PROVE ~RuneStart(s[j + 1])
  <2>1. PICK n \in 0..max : n = max - j
    BY <1>4
  <2>2. n < d /\ max - n = j
    BY <1>3, <1>4, <2>1
  <2>3. n \notin T
    <3> HIDE DEF T
    <3> QED
      BY <1>1, <1>2, <1>3, <2>2
  <2> QED
    BY <2>1, <2>2, <2>3
<1>7. \E p \in 0..max :
         /\ p = 0 \/ RuneStart(s[p + 1])
         /\ \A j \in p+1..max : ~RuneStart(s[j + 1])
  BY <1>4, <1>5, <1>6
<1> QED
  BY <1>7 DEF SplitPoint

\* What is trimmed are spaces, and what stays does not begin with one.
LEMMA TrimPoint ==
    ASSUME NEW s \in Seq(Bytes)
    PROVE  \E n \in 0..Len(s) :
              /\ TrimLeft(s) = Drop(s, n)
              /\ \A i \in 1..n : s[i] = Space
              /\ n = Len(s) \/ s[n + 1] # Space
<1> DEFINE T == {n \in 0..Len(s) : n = Len(s) \/ s[n + 1] # Space}
<1>0. Len(s) \in Nat
  OBVIOUS
<1>1. T \subseteq Nat /\ Len(s) \in T
  BY <1>0
<1>2. PICK m \in T : \A n \in T : m <= n
  <2> HIDE DEF T
  <2> QED
    BY <1>1, Least
<1>3. ASSUME NEW i \in 1..m PROVE s[i] = Space
  <2>1. PICK n \in 0..Len(s) : n = i - 1
    BY <1>0, <1>2
  <2>2. n < m /\ n + 1 = i /\ n # Len(s) /\ m \in Nat
    BY <1>0, <1>2, <2>1
  <2>3. n \notin T
    <3> HIDE DEF T
    <3> QED
      BY <1>2, <2>1, <2>2
  <2> QED
    BY <2>1, <2>2, <2>3
<1>4. \E n \in 0..Len(s) :
         /\ \A i \in 1..n : s[i] = Space
         /\ n = Len(s) \/ s[n + 1] # Space
  BY <1>2, <1>3
<1> QED
  BY <1>4 DEF TrimLeft

-----------------------------------------------------------------------------
(* Cutting between runes and joining again leaves no rune torn.            *)

\* A line, or a part of one, that is made of whole runes.
Whole(s) == s \in Seq(Bytes) /\ NoStray(s)

LEMMA WholeFacts ==
    ASSUME NEW s, Whole(s)
    PROVE  /\ s \in Seq(Bytes) /\ Len(s) \in Nat /\ DOMAIN s = 1..Len(s)
           /\ \A i \in 1..Len(s) :
                 s[i] = Continuation => i > 1 /\ s[i - 1] # Space
BY DEF Whole, NoStray

LEMMA PrefixWhole ==
    ASSUME NEW s, Whole(s), NEW k \in 0..Len(s)
    PROVE  Whole(SubSeq(s, 1, k)) /\ Len(SubSeq(s, 1, k)) = k
<1>1. /\ s \in Seq(Bytes) /\ Len(s) \in Nat
      /\ \A i \in 1..Len(s) : s[i] \in Bytes
      /\ \A i \in 1..Len(s) : s[i] = Continuation => i > 1 /\ s[i - 1] # Space
  BY WholeFacts
<1>2. \A i \in 1..k : s[i] \in Bytes
  BY <1>1
<1>3. /\ SubSeq(s, 1, k) \in Seq(Bytes)
      /\ Len(SubSeq(s, 1, k)) = k
      /\ \A i \in 1..k : SubSeq(s, 1, k)[i] = s[i]
  BY <1>1, <1>2, SubSeqProperties
<1> QED
  BY <1>1, <1>3 DEF Whole, NoStray

LEMMA DropWhole ==
    ASSUME NEW s, Whole(s), NEW k \in 0..Len(s),
           k = 0 \/ k = Len(s) \/ RuneStart(s[k + 1])
    PROVE  Whole(Drop(s, k)) /\ Len(Drop(s, k)) = Len(s) - k
<1>1. /\ s \in Seq(Bytes) /\ Len(s) \in Nat
      /\ \A i \in 1..Len(s) : s[i] \in Bytes
      /\ \A i \in 1..Len(s) : s[i] = Continuation => i > 1 /\ s[i - 1] # Space
  BY WholeFacts
<1>2. \A i \in k+1..Len(s) : s[i] \in Bytes
  BY <1>1
<1>3. /\ Drop(s, k) \in Seq(Bytes)
      /\ Len(Drop(s, k)) = Len(s) - k
      /\ \A i \in 1..Len(s) - k : Drop(s, k)[i] = s[k + i]
  BY <1>1, <1>2, SubSeqProperties DEF Drop
<1>4. ASSUME NEW i \in 1..Len(s) - k, Drop(s, k)[i] = Continuation
      PROVE  i > 1 /\ Drop(s, k)[i - 1] # Space
  <2>1. s[k + i] = Continuation /\ k + i \in 1..Len(s)
    BY <1>1, <1>3, <1>4
  <2>2. k + i > 1 /\ s[k + i - 1] # Space
    BY <1>1, <2>1
  <2>3. i # 1
    <3>1. ASSUME i = 1, k # 0 PROVE FALSE
      BY <1>1, <2>1, <3>1 DEF RuneStart
    <3> QED
      BY <2>2, <3>1
  <2>4. i - 1 \in 1..Len(s) - k /\ k + (i - 1) = k + i - 1
    BY <1>1, <2>3
  <2> QED
    BY <1>3, <2>2, <2>3, <2>4
<1> QED
  BY <1>1, <1>3, <1>4 DEF Whole, NoStray

LEMMA ConcatWhole ==
    ASSUME NEW s, NEW t, Whole(s), Whole(t)
    PROVE  Whole(s \o t) /\ Len(s \o t) = Len(s) + Len(t)
<1>1. /\ s \in Seq(Bytes) /\ Len(s) \in Nat
      /\ \A i \in 1..Len(s) : s[i] = Continuation => i > 1 /\ s[i - 1] # Space
  BY WholeFacts
<1>2. /\ t \in Seq(Bytes) /\ Len(t) \in Nat
      /\ \A i \in 1..Len(t) : t[i] = Continuation => i > 1 /\ t[i - 1] # Space
  BY WholeFacts
<1>3. PICK r : r = s \o t
  OBVIOUS
<1>4. /\ r \in Seq(Bytes)
      /\ Len(r) = Len(s) + Len(t)
      /\ \A i \in 1 .. Len(s) + Len(t) :
            r[i] = IF i <= Len(s) THEN s[i] ELSE t[i - Len(s)]
  BY <1>1, <1>2, <1>3, ConcatProperties
<1>5. ASSUME NEW i \in 1 .. Len(s) + Len(t), r[i] = Continuation
      PROVE  i > 1 /\ r[i - 1] # Space
  <2>1. CASE i <= Len(s)
    <3>1. i \in 1..Len(s) /\ s[i] = Continuation
      BY <1>1, <1>2, <1>4, <1>5, <2>1
    <3>2. i > 1 /\ s[i - 1] # Space
      BY <1>1, <3>1
    <3>3. i - 1 \in 1 .. Len(s) + Len(t) /\ i - 1 <= Len(s)
      BY <1>1, <1>2, <3>1, <3>2
    <3> QED
      BY <1>4, <3>2, <3>3
  <2>2. CASE i > Len(s)
    <3>1. i - Len(s) \in 1..Len(t) /\ t[i - Len(s)] = Continuation
      BY <1>1, <1>2, <1>4, <1>5, <2>2
    <3>2. i - Len(s) > 1 /\ t[i - Len(s) - 1] # Space
      BY <1>2, <3>1
    <3>3. i > 1 /\ i - 1 \in 1 .. Len(s) + Len(t) /\ ~(i - 1 <= Len(s))
          /\ i - 1 - Len(s) = i - Len(s) - 1
      BY <1>1, <1>2, <3>2
    <3> QED
      BY <1>4, <3>2, <3>3
  <2> QED
    BY <1>1, <1>2, <2>1, <2>2
<1>6. Whole(r)
  BY <1>4, <1>5 DEF Whole, NoStray
<1> QED
  BY <1>3, <1>4, <1>6

LEMMA SpaceWhole == Whole(<<Space>>) /\ Len(<<Space>>) = 1
BY DEF Whole, NoStray, Space, Continuation, Bytes

LEMMA TrimWhole ==
    ASSUME NEW s, Whole(s)
    PROVE  Whole(TrimLeft(s))
<1>1. PICK n \in 0..Len(s) : /\ TrimLeft(s) = Drop(s, n)
                             /\ \A i \in 1..n : s[i] = Space
  BY TrimPoint DEF Whole
<1>2. n = 0 \/ n = Len(s) \/ RuneStart(s[n + 1])
  <2> SUFFICES ASSUME n # 0, n # Len(s) PROVE s[n + 1] # Continuation
    BY DEF RuneStart
  <2>1. Len(s) \in Nat /\ n \in 1..n /\ n + 1 \in 1..Len(s) /\ (n + 1) - 1 = n
    BY WholeFacts
  <2>2. s[n] = Space
    BY <1>1, <2>1
  <2> QED
    BY <2>1, <2>2, WholeFacts
<1> QED
  BY <1>1, <1>2, DropWhole

-----------------------------------------------------------------------------
(* Physical lines that are whole and fit.                                  *)

Physical(o) ==
    /\ o \in Seq(Seq(Bytes))
    /\ \A i \in 1..Len(o) : Whole(o[i]) /\ Len(o[i]) <= MaxLineLength

LEMMA PhysicalOne ==
    ASSUME NEW s, Whole(s), Len(s) <= MaxLineLength
    PROVE  Physical(<<s>>) /\ <<s>> # <<>>
BY DEF Physical, Whole

LEMMA PhysicalAppend ==
    ASSUME NEW o, Physical(o), NEW s, Whole(s), Len(s) <= MaxLineLength
    PROVE  Physical(Append(o, s)) /\ Append(o, s) # <<>>
<1>1. o \in Seq(Seq(Bytes)) /\ s \in Seq(Bytes) /\ Len(o) \in Nat
  BY DEF Physical, Whole
<1>2. /\ Append(o, s) \in Seq(Seq(Bytes))
      /\ Append(o, s) # <<>>
      /\ Len(Append(o, s)) = Len(o) + 1
      /\ \A i \in 1..Len(o) : Append(o, s)[i] = o[i]
      /\ Append(o, s)[Len(o) + 1] = s
  BY <1>1, AppendProperties
<1> QED
  BY <1>1, <1>2 DEF Physical

LEMMA PhysicalTail ==
    ASSUME NEW o, Physical(o), o # <<>>
    PROVE  /\ Physical(Tail(o))
           /\ Whole(o[1])
<1>1. o \in Seq(Seq(Bytes)) /\ Len(o) \in Nat /\ Len(o) # 0
  BY DEF Physical
<1>2. /\ Tail(o) \in Seq(Seq(Bytes))
      /\ Len(Tail(o)) = Len(o) - 1
      /\ \A i \in 1..Len(Tail(o)) : Tail(o)[i] = o[i + 1]
  BY <1>1, HeadTailProperties
<1> QED
  BY <1>1, <1>2 DEF Physical

\* The space and a part of the line between two split points.
LEMMA Folded ==
    ASSUME NEW s, Whole(s), Len(s) <= MaxLineLength - 1
    PROVE  Whole(<<Space>> \o s) /\ Len(<<Space>> \o s) <= MaxLineLength
BY SpaceWhole, ConcatWhole, WholeFacts, IcsLineAssumption

-----------------------------------------------------------------------------
(* The invariant: what there is of the line is whole, in memory and in the *)
(* file, and what is in the file fits.                                     *)

Inv ==
    /\ TypeOK
    /\ Whole(line)
    /\ Whole(b)
    /\ Physical(out)
    /\ pc \in {"chunk", "stored"} => out # <<>>

LEMMA InvInit == Init => Inv
<1> SUFFICES ASSUME Init PROVE Inv
  OBVIOUS
<1>1. original.line \in Seq(Bytes) /\ NoStray(original.line)
  BY IcsLineAssumption DEF Init
<1>2. Whole(<<>>)
  BY DEF Whole, NoStray
<1>3. Physical(<<>>)
  BY DEF Physical
<1>4. 0 \in 0..Rounds
  BY IcsLineAssumption
<1> QED
  BY <1>1, <1>2, <1>3, <1>4 DEF Init, Inv, TypeOK, Whole

LEMMA FoldShortStep == Inv /\ FoldShort => Inv'
<1> SUFFICES ASSUME Inv, FoldShort PROVE Inv'
  OBVIOUS
<1>1. Physical(out') /\ out' # <<>>
  BY PhysicalOne DEF Inv, FoldShort
<1>2. out' \in Seq(Seq(Bytes)) /\ b = <<>>
  BY <1>1 DEF Physical, Inv, TypeOK, FoldShort
<1> QED
  BY <1>1, <1>2 DEF Inv, TypeOK, FoldShort

\* What FoldLine cuts off fits, and it leaves something that is whole.
LEMMA CutFacts ==
    ASSUME NEW s, Whole(s), NEW max \in Nat, Len(s) > max
    PROVE  LET k == SplitPoint(s, max)
           IN  /\ Whole(SubSeq(s, 1, k)) /\ Len(SubSeq(s, 1, k)) <= max
               /\ Whole(Drop(s, k)) /\ Drop(s, k) # <<>>
<1>1. PICK k \in 0..max : /\ k = SplitPoint(s, max)
                          /\ k = 0 \/ RuneStart(s[k + 1])
  BY SplitPointFacts
<1>2. Len(s) \in Nat /\ k \in 0..Len(s) /\ Len(s) - k > 0 /\ k <= max
  BY <1>1, WholeFacts
<1>3. Whole(SubSeq(s, 1, k)) /\ Len(SubSeq(s, 1, k)) = k
  BY <1>2, PrefixWhole
<1>4. Whole(Drop(s, k)) /\ Len(Drop(s, k)) = Len(s) - k
  BY <1>1, <1>2, DropWhole
<1>5. Drop(s, k) # <<>>
  BY <1>2, <1>4
<1> QED
  BY <1>1, <1>2, <1>3, <1>4, <1>5

LEMMA FoldFirstStep == Inv /\ FoldFirst => Inv'
<1> SUFFICES ASSUME Inv, FoldFirst PROVE Inv'
  OBVIOUS
<1>1. PICK k : k = SplitPoint(line, MaxLineLength)
  OBVIOUS
<1>2. /\ Whole(SubSeq(line, 1, k)) /\ Len(SubSeq(line, 1, k)) <= MaxLineLength
      /\ Whole(Drop(line, k)) /\ Drop(line, k) # <<>>
  BY <1>1, CutFacts, IcsLineAssumption DEF Inv, FoldFirst
<1>3. /\ out' = <<SubSeq(line, 1, k)>> /\ b' = Drop(line, k) /\ pc' = "chunk"
      /\ UNCHANGED <<original, line, round>>
  BY <1>1 DEF FoldFirst
<1>4. Physical(out') /\ out' # <<>>
  BY <1>2, <1>3, PhysicalOne
<1>5. out' \in Seq(Seq(Bytes)) /\ b' \in Seq(Bytes)
  BY <1>2, <1>3, <1>4 DEF Physical, Whole
<1> QED
  BY <1>2, <1>3, <1>4, <1>5 DEF Inv, TypeOK

LEMMA FoldNextStep == Inv /\ FoldNext => Inv'
<1> SUFFICES ASSUME Inv, FoldNext PROVE Inv'
  OBVIOUS
<1>1. PICK k : k = SplitPoint(b, MaxLineLength - 1)
  OBVIOUS
<1>2. /\ Whole(SubSeq(b, 1, k)) /\ Len(SubSeq(b, 1, k)) <= MaxLineLength - 1
      /\ Whole(Drop(b, k)) /\ Drop(b, k) # <<>>
  <2>1. MaxLineLength - 1 \in Nat
    BY IcsLineAssumption
  <2> QED
    BY <1>1, <2>1, CutFacts DEF Inv, FoldNext
<1>3. /\ out' = Append(out, <<Space>> \o SubSeq(b, 1, k)) /\ b' = Drop(b, k)
      /\ UNCHANGED <<original, line, pc, round>> /\ pc = "chunk"
  BY <1>1 DEF FoldNext
<1>4. Physical(out') /\ out' # <<>>
  BY <1>2, <1>3, Folded, PhysicalAppend DEF Inv
<1>5. out' \in Seq(Seq(Bytes)) /\ b' \in Seq(Bytes)
  BY <1>2, <1>3, <1>4 DEF Physical, Whole
<1> QED
  BY <1>2, <1>3, <1>4, <1>5 DEF Inv, TypeOK

LEMMA FoldLastStep == Inv /\ FoldLast => Inv'
<1> SUFFICES ASSUME Inv, FoldLast PROVE Inv'
  OBVIOUS
<1>1. Physical(out') /\ out' # <<>>
  BY Folded, PhysicalAppend DEF Inv, FoldLast
<1>2. Whole(<<>>) /\ <<>> \in Seq(Bytes)
  BY DEF Whole, NoStray
<1>3. out' \in Seq(Seq(Bytes))
  BY <1>1 DEF Physical
<1> QED
  BY <1>1, <1>2, <1>3 DEF Inv, TypeOK, FoldLast

LEMMA ReadStep == Inv /\ (ReadFirst \/ ReadNext \/ ReadLast) => Inv'
<1> SUFFICES ASSUME Inv, ReadFirst \/ ReadNext \/ ReadLast PROVE Inv'
  OBVIOUS
<1>1. CASE ReadFirst
  <2>1. Physical(out') /\ Whole(line')
    BY <1>1, PhysicalTail DEF Inv, ReadFirst
  <2>2. out' \in Seq(Seq(Bytes)) /\ line' \in Seq(Bytes)
    BY <2>1 DEF Physical, Whole
  <2>3. round' \in 0..Rounds
    BY <1>1, IcsLineAssumption DEF Inv, TypeOK, ReadFirst, Rewritten
  <2> QED
    BY <1>1, <2>1, <2>2, <2>3 DEF Inv, TypeOK, ReadFirst
<1>2. CASE ReadNext
  <2>1. Physical(out') /\ Whole(out[1])
    BY <1>2, PhysicalTail DEF Inv, ReadNext
  <2>2. Whole(line')
    BY <1>2, <2>1, TrimWhole, ConcatWhole DEF Inv, ReadNext
  <2>3. out' \in Seq(Seq(Bytes)) /\ line' \in Seq(Bytes)
    BY <2>1, <2>2 DEF Physical, Whole
  <2> QED
    BY <1>2, <2>1, <2>2, <2>3 DEF Inv, TypeOK, ReadNext
<1>3. CASE ReadLast
  BY <1>3 DEF Inv, TypeOK, ReadLast
<1> QED
  BY <1>1, <1>2, <1>3

LEMMA InvStep == Inv /\ [Next]_vars => Inv'
<1>1. Inv /\ (Done \/ UNCHANGED vars) => Inv'
  BY DEF Done, vars, Inv, TypeOK
<1> QED
  BY <1>1, FoldShortStep, FoldFirstStep, FoldNextStep, FoldLastStep, ReadStep DEF Next

LEMMA InvAlways == Spec => []Inv
BY InvInit, InvStep, PTL DEF Spec

-----------------------------------------------------------------------------
\* The type invariant: FoldLine is in its loop as long as there is something to
\* write, and writes no empty continuation line (icsutil.go:50-62).
THEOREM TypeCorrect == Spec => []TypeOK
BY InvAlways, PTL DEF Inv

\* No physical line is too long, whatever the line (icsutil.go:37-65).
THEOREM LinesFit == Spec => []FitsLimit
<1>1. Inv => FitsLimit
  BY DEF Inv, Physical, FitsLimit
<1> QED
  BY <1>1, InvAlways, PTL

\* No rune is torn, however often a line is read and written again, although
\* reading takes spaces out of it (icsutil.go:46-61, ics.go:155-172).
THEOREM NoRuneTorn == Spec => []RunesWhole
<1>1. Inv => RunesWhole
  <2> SUFFICES ASSUME Inv, NEW i \in DOMAIN out, Len(out[i]) > 1, out[i][1] = Space
               PROVE  out[i][2] # Continuation
    BY DEF RunesWhole, RuneStart
  <2>1. i \in 1..Len(out) /\ Whole(out[i])
    BY DEF Inv, Physical
  <2>2. 2 \in 1..Len(out[i]) /\ 2 - 1 = 1
    BY <2>1, WholeFacts
  <2> QED
    BY <2>1, <2>2, WholeFacts
<1> QED
  BY <1>1, InvAlways, PTL

-----------------------------------------------------------------------------
(* The loop of FoldLine advances, because a rune has at most four bytes, in *)
(* the rest of the line and in what reading puts together.                  *)

RunsOf(s) == Whole(s) /\ ShortRunes(s)

LEMMA PrefixRuns ==
    ASSUME NEW s, RunsOf(s), NEW k \in 0..Len(s)
    PROVE  RunsOf(SubSeq(s, 1, k))
<1>1. /\ Len(s) \in Nat /\ \A i \in 1..Len(s) : s[i] \in Bytes
      /\ s \in Seq(Bytes)
  BY WholeFacts DEF RunsOf
<1>2. PICK r : r = SubSeq(s, 1, k)
  OBVIOUS
<1>3. Whole(r) /\ Len(r) = k
  BY <1>2, PrefixWhole DEF RunsOf
<1>4. \A i \in 1..k : r[i] = s[i]
  BY <1>1, <1>2, SubSeqProperties
<1>5. ASSUME NEW i \in 4..k PROVE \E j \in i-3..i : r[j] # Continuation
  <2>1. i \in 4..Len(s) /\ k \in Nat
    BY <1>1
  <2>2. PICK j \in i-3..i : s[j] # Continuation
    BY <2>1 DEF RunsOf, ShortRunes
  <2>3. j \in 1..k
    BY <2>1
  <2> QED
    BY <1>4, <2>2, <2>3
<1> QED
  BY <1>2, <1>3, <1>5 DEF RunsOf, ShortRunes

LEMMA DropRuns ==
    ASSUME NEW s, RunsOf(s), NEW k \in 0..Len(s),
           k = 0 \/ k = Len(s) \/ RuneStart(s[k + 1])
    PROVE  RunsOf(Drop(s, k))
<1>1. /\ Len(s) \in Nat /\ \A i \in 1..Len(s) : s[i] \in Bytes
      /\ s \in Seq(Bytes)
  BY WholeFacts DEF RunsOf
<1>2. PICK r : r = Drop(s, k)
  OBVIOUS
<1>3. Whole(r) /\ Len(r) = Len(s) - k
  BY <1>2, DropWhole DEF RunsOf
<1>4. \A i \in 1..Len(s) - k : r[i] = s[k + i]
  BY <1>1, <1>2, SubSeqProperties DEF Drop
<1>5. ASSUME NEW i \in 4..Len(s) - k PROVE \E j \in i-3..i : r[j] # Continuation
  <2>1. k + i \in 4..Len(s) /\ k \in Nat /\ i \in Nat
    BY <1>1
  <2>2. PICK j \in (k + i)-3..(k + i) : s[j] # Continuation
    BY <2>1 DEF RunsOf, ShortRunes
  <2>3. PICK n \in i-3..i : k + n = j
    BY <2>1
  <2>4. n \in 1..Len(s) - k
    BY <1>1
  <2> QED
    BY <1>4, <2>2, <2>3, <2>4
<1> QED
  BY <1>2, <1>3, <1>5 DEF RunsOf, ShortRunes

LEMMA ConcatRuns ==
    ASSUME NEW s, NEW t, RunsOf(s), RunsOf(t)
    PROVE  RunsOf(s \o t)
<1>1. s \in Seq(Bytes) /\ t \in Seq(Bytes) /\ Len(s) \in Nat /\ Len(t) \in Nat
  BY WholeFacts DEF RunsOf
<1>2. PICK r : r = s \o t
  OBVIOUS
<1>3. Whole(r) /\ Len(r) = Len(s) + Len(t)
  BY <1>2, ConcatWhole DEF RunsOf
<1>4. \A i \in 1 .. Len(s) + Len(t) : r[i] = IF i <= Len(s) THEN s[i] ELSE t[i - Len(s)]
  BY <1>1, <1>2, ConcatProperties
<1>5. ASSUME NEW i \in 4 .. Len(s) + Len(t)
      PROVE  \E j \in i-3..i : r[j] # Continuation
  <2>1. CASE i <= Len(s)
    <3>1. PICK j \in i-3..i : s[j] # Continuation
      BY <1>1, <2>1 DEF RunsOf, ShortRunes
    <3>2. j \in 1 .. Len(s) + Len(t) /\ j <= Len(s)
      BY <1>1, <2>1
    <3> QED
      BY <1>4, <3>1, <3>2
  <2>2. CASE Len(s) < i /\ i - 3 <= Len(s) + 1
    <3>1. PICK j \in i-3..i : j = Len(s) + 1
      BY <1>1, <2>2
    <3>2. j \in 1 .. Len(s) + Len(t) /\ ~(j <= Len(s)) /\ j - Len(s) = 1 /\ 1 \in 1..Len(t)
      BY <1>1, <2>2, <3>1
    <3>3. t[1] # Continuation
      BY <3>2, WholeFacts DEF RunsOf
    <3>4. r[j] = t[1]
      BY <1>4, <3>2
    <3> QED
      BY <3>3, <3>4
  <2>3. CASE Len(s) + 1 < i - 3
    <3>0. i - Len(s) \in 4..Len(t)
      BY <1>1, <2>3
    <3>1. PICK n \in 4..Len(t) : n = i - Len(s)
      BY <3>0
    <3>2. PICK m \in n-3..n : t[m] # Continuation
      BY <3>1 DEF RunsOf, ShortRunes
    <3>3. PICK j \in i-3..i : j - Len(s) = m
      BY <1>1, <3>1
    <3>4. j \in 1 .. Len(s) + Len(t) /\ ~(j <= Len(s))
      BY <1>1, <2>3
    <3>5. r[j] = t[m]
      BY <1>4, <3>3, <3>4
    <3> QED
      BY <3>2, <3>5
  <2> QED
    BY <1>1, <2>1, <2>2, <2>3
<1> QED
  BY <1>2, <1>3, <1>5 DEF RunsOf, ShortRunes

LEMMA TrimRuns ==
    ASSUME NEW s, RunsOf(s)
    PROVE  RunsOf(TrimLeft(s))
<1>1. PICK n \in 0..Len(s) : /\ TrimLeft(s) = Drop(s, n)
                             /\ \A i \in 1..n : s[i] = Space
  BY TrimPoint DEF RunsOf, Whole
<1>2. n = 0 \/ n = Len(s) \/ RuneStart(s[n + 1])
  <2> SUFFICES ASSUME n # 0, n # Len(s) PROVE s[n + 1] # Continuation
    BY DEF RuneStart
  <2>1. Len(s) \in Nat /\ n \in 1..n /\ n + 1 \in 1..Len(s) /\ (n + 1) - 1 = n
    BY WholeFacts DEF RunsOf
  <2>2. s[n] = Space
    BY <1>1, <2>1
  <2> QED
    BY <2>1, <2>2, WholeFacts DEF RunsOf
<1> QED
  BY <1>1, <1>2, DropRuns

LEMMA SpaceRuns == RunsOf(<<Space>>)
BY SpaceWhole DEF RunsOf, ShortRunes

\* Of a rest that does not fit, FoldLine takes something, and leaves something.
LEMMA CutAdvances ==
    ASSUME NEW s, RunsOf(s), NEW max \in Nat, max >= 4, Len(s) > max
    PROVE  LET k == SplitPoint(s, max)
           IN  /\ RunsOf(SubSeq(s, 1, k)) /\ RunsOf(Drop(s, k))
               /\ Len(Drop(s, k)) < Len(s)
<1>1. PICK k \in 0..max : /\ k = SplitPoint(s, max)
                          /\ k = 0 \/ RuneStart(s[k + 1])
                          /\ \A j \in k+1..max : ~RuneStart(s[j + 1])
  BY SplitPointFacts
<1>2. Len(s) \in Nat /\ k \in 0..Len(s) /\ max + 1 \in 4..Len(s)
  BY <1>1, WholeFacts DEF RunsOf
<1>3. k # 0
  <2>1. PICK j \in (max + 1)-3..max + 1 : s[j] # Continuation
    BY <1>2 DEF RunsOf, ShortRunes
  <2>2. PICK n \in 1..max : n + 1 = j
    OBVIOUS
  <2>3. RuneStart(s[n + 1])
    BY <2>1, <2>2 DEF RuneStart
  <2>4. k = 0 => n \in k+1..max
    OBVIOUS
  <2> QED
    BY <1>1, <2>3, <2>4
<1>4. RunsOf(SubSeq(s, 1, k)) /\ RunsOf(Drop(s, k))
  BY <1>1, <1>2, PrefixRuns, DropRuns
<1>5. Len(Drop(s, k)) = Len(s) - k
  BY <1>1, <1>2, DropWhole DEF RunsOf
<1> QED
  BY <1>1, <1>2, <1>3, <1>4, <1>5

RunsInv ==
    /\ Inv
    /\ ShortRunes(line) /\ ShortRunes(b)
    /\ \A i \in 1..Len(out) : ShortRunes(out[i])

LEMMA RunsInit == Init => RunsInv
<1>1. Init => ShortRunes(line)
  BY IcsLineAssumption DEF Init
<1> QED
  BY <1>1, InvInit DEF Init, RunsInv, ShortRunes

LEMMA RunsOne ==
    ASSUME NEW s, RunsOf(s)
    PROVE  \A i \in 1..Len(<<s>>) : ShortRunes(<<s>>[i])
<1>1. Len(<<s>>) = 1 /\ <<s>>[1] = s
  OBVIOUS
<1>2. \A i \in 1..Len(<<s>>) : i = 1
  BY <1>1
<1> QED
  BY <1>1, <1>2 DEF RunsOf

\* One more physical line is as good as the others.
LEMMA RunsAppend ==
    ASSUME NEW o, Physical(o), \A i \in 1..Len(o) : ShortRunes(o[i]), NEW s, RunsOf(s)
    PROVE  \A i \in 1..Len(Append(o, s)) : ShortRunes(Append(o, s)[i])
<1>1. o \in Seq(Seq(Bytes)) /\ s \in Seq(Bytes) /\ Len(o) \in Nat
  BY DEF Physical, RunsOf, Whole
<1>2. /\ Len(Append(o, s)) = Len(o) + 1
      /\ \A i \in 1..Len(o) : Append(o, s)[i] = o[i]
      /\ Append(o, s)[Len(o) + 1] = s
  BY <1>1, AppendProperties
<1> QED
  BY <1>1, <1>2 DEF RunsOf

\* The first physical line, and the others.
LEMMA RunsSplit ==
    ASSUME NEW o, Physical(o), o # <<>>, \A i \in 1..Len(o) : ShortRunes(o[i])
    PROVE  RunsOf(o[1]) /\ \A i \in 1..Len(Tail(o)) : ShortRunes(Tail(o)[i])
<1>1. o \in Seq(Seq(Bytes)) /\ Len(o) \in Nat /\ Len(o) # 0
  BY DEF Physical
<1>2. /\ Len(Tail(o)) = Len(o) - 1
      /\ \A i \in 1..Len(Tail(o)) : Tail(o)[i] = o[i + 1]
  BY <1>1, HeadTailProperties
<1>3. Whole(o[1])
  BY PhysicalTail
<1> QED
  BY <1>1, <1>2, <1>3 DEF RunsOf

LEMMA RunsFold ==
    RunsInv /\ (FoldShort \/ FoldFirst \/ FoldNext \/ FoldLast) =>
        RunsInv' /\ (pc' = "chunk" => Len(b') < Len(IF pc = "fold" THEN line ELSE b))
<1> SUFFICES ASSUME RunsInv, FoldShort \/ FoldFirst \/ FoldNext \/ FoldLast
             PROVE  /\ RunsInv'
                    /\ pc' = "chunk" => Len(b') < Len(IF pc = "fold" THEN line ELSE b)
  OBVIOUS
<1>1. Inv'
  BY FoldShortStep, FoldFirstStep, FoldNextStep, FoldLastStep DEF RunsInv
<1>2. /\ RunsOf(line) /\ RunsOf(b) /\ Physical(out)
      /\ \A i \in 1..Len(out) : ShortRunes(out[i])
      /\ MaxLineLength \in Nat /\ MaxLineLength - 1 \in Nat /\ MaxLineLength - 1 >= 4
  BY IcsLineAssumption DEF RunsInv, Inv, RunsOf
<1>3. CASE FoldShort
  <2>1. out' = <<line>> /\ pc' = "stored" /\ line' = line /\ b' = b
    BY <1>3 DEF FoldShort
  <2>2. \A i \in 1..Len(out') : ShortRunes(out'[i])
    BY <1>2, <2>1, RunsOne
  <2> QED
    BY <1>1, <1>2, <2>1, <2>2 DEF RunsInv, RunsOf
<1>4. CASE FoldFirst
  <2>1. PICK k : k = SplitPoint(line, MaxLineLength)
    OBVIOUS
  <2>2. /\ RunsOf(SubSeq(line, 1, k)) /\ RunsOf(Drop(line, k))
        /\ Len(Drop(line, k)) < Len(line)
    BY <1>2, <1>4, <2>1, CutAdvances DEF FoldFirst
  <2>3. /\ out' = <<SubSeq(line, 1, k)>> /\ b' = Drop(line, k) /\ pc = "fold"
        /\ line' = line
    BY <1>4, <2>1 DEF FoldFirst
  <2>4. \A i \in 1..Len(out') : ShortRunes(out'[i])
    BY <2>2, <2>3, RunsOne
  <2>5. ShortRunes(line') /\ ShortRunes(b')
    BY <1>2, <2>2, <2>3 DEF RunsOf
  <2> QED
    BY <1>1, <2>2, <2>3, <2>4, <2>5 DEF RunsInv
<1>5. CASE FoldNext
  <2>1. PICK k : k = SplitPoint(b, MaxLineLength - 1)
    OBVIOUS
  <2>2. /\ RunsOf(SubSeq(b, 1, k)) /\ RunsOf(Drop(b, k))
        /\ Len(Drop(b, k)) < Len(b)
    BY <1>2, <1>5, <2>1, CutAdvances DEF FoldNext
  <2>3. /\ out' = Append(out, <<Space>> \o SubSeq(b, 1, k)) /\ b' = Drop(b, k)
        /\ pc = "chunk" /\ line' = line
    BY <1>5, <2>1 DEF FoldNext
  <2>4. RunsOf(<<Space>> \o SubSeq(b, 1, k))
    BY <2>2, SpaceRuns, ConcatRuns
  <2>5. \A i \in 1..Len(out') : ShortRunes(out'[i])
    BY <1>2, <2>3, <2>4, RunsAppend
  <2> QED
    BY <1>1, <1>2, <2>2, <2>3, <2>5 DEF RunsInv, RunsOf
<1>6. CASE FoldLast
  <2>1. out' = Append(out, <<Space>> \o b) /\ b' = <<>> /\ pc' = "stored" /\ line' = line
    BY <1>6 DEF FoldLast
  <2>2. RunsOf(<<Space>> \o b)
    BY <1>2, SpaceRuns, ConcatRuns
  <2>3. \A i \in 1..Len(out') : ShortRunes(out'[i])
    BY <1>2, <2>1, <2>2, RunsAppend
  <2>4. ShortRunes(line')
    BY <1>2, <2>1 DEF RunsOf
  <2>5. ShortRunes(<<>>)
    BY DEF ShortRunes
  <2> QED
    BY <1>1, <2>1, <2>3, <2>4, <2>5 DEF RunsInv
<1> QED
  BY <1>3, <1>4, <1>5, <1>6

LEMMA RunsRead ==
    RunsInv /\ (ReadFirst \/ ReadNext \/ ReadLast) => RunsInv' /\ pc' # "chunk"
<1> SUFFICES ASSUME RunsInv, ReadFirst \/ ReadNext \/ ReadLast
             PROVE  RunsInv' /\ pc' # "chunk"
  OBVIOUS
<1>1. Inv'
  BY ReadStep DEF RunsInv
<1>2. /\ RunsOf(line) /\ ShortRunes(b) /\ Physical(out)
      /\ \A i \in 1..Len(out) : ShortRunes(out[i])
  BY DEF RunsInv, Inv, RunsOf
<1>3. CASE ReadFirst
  <2>1. /\ pc = "stored" /\ pc' = "read" /\ line' = out[1] /\ out' = Tail(out) /\ b' = b
    BY <1>3 DEF ReadFirst
  <2>2. RunsOf(out[1]) /\ \A i \in 1..Len(Tail(out)) : ShortRunes(Tail(out)[i])
    BY <1>2, <2>1, RunsSplit DEF RunsInv, Inv
  <2> QED
    BY <1>1, <1>2, <2>1, <2>2 DEF RunsInv, RunsOf
<1>4. CASE ReadNext
  <2>1. /\ pc' = "read" /\ out # <<>> /\ line' = line \o TrimLeft(out[1])
        /\ out' = Tail(out) /\ b' = b
    BY <1>4 DEF ReadNext
  <2>2. RunsOf(out[1]) /\ \A i \in 1..Len(Tail(out)) : ShortRunes(Tail(out)[i])
    BY <1>2, <2>1, RunsSplit
  <2>3. RunsOf(line \o TrimLeft(out[1]))
    BY <1>2, <2>2, TrimRuns, ConcatRuns
  <2> QED
    BY <1>1, <1>2, <2>1, <2>2, <2>3 DEF RunsInv, RunsOf
<1>5. CASE ReadLast
  BY <1>1, <1>2, <1>5 DEF ReadLast, RunsInv, RunsOf
<1> QED
  BY <1>3, <1>4, <1>5

\* FoldLine cannot write the same rest for ever, whatever the line and however
\* often it was written before (icsutil.go:44-62): FoldTerminates but for the
\* fairness of the loop.
THEOREM FoldingAdvances == Spec => FoldAdvances
<1> DEFINE A == /\ pc = "fold" /\ pc' = "chunk" => Len(b') < Len(line)
                /\ pc = "chunk" => Len(b') < Len(b)
<1>1. RunsInv /\ [Next]_vars => RunsInv' /\ [A]_vars
  <2> SUFFICES ASSUME RunsInv, [Next]_vars PROVE RunsInv' /\ [A]_vars
    OBVIOUS
  <2>1. CASE FoldShort \/ FoldFirst \/ FoldNext \/ FoldLast
    <3>1. RunsInv' /\ (pc' = "chunk" => Len(b') < Len(IF pc = "fold" THEN line ELSE b))
      BY <2>1, RunsFold
    <3>2. ASSUME pc = "chunk", pc' # "chunk" PROVE Len(b') < Len(b)
      <4>1. b' = <<>>
        BY <2>1, <3>2 DEF FoldShort, FoldFirst, FoldNext, FoldLast
      <4>2. Len(b) \in Nat /\ Len(b) # 0
        BY <3>2, EmptySeq DEF RunsInv, Inv, TypeOK
      <4> QED
        BY <4>1, <4>2
    <3> QED
      BY <3>1, <3>2
  <2>2. CASE ReadFirst \/ ReadNext \/ ReadLast
    <3>1. pc # "chunk" /\ pc' # "chunk"
      BY <2>2, RunsRead DEF ReadFirst, ReadNext, ReadLast
    <3> QED
      BY <2>2, <3>1, RunsRead
  <2>3. CASE Done \/ UNCHANGED vars
    BY <2>3, InvStep DEF Done, vars, RunsInv
  <2> QED
    BY <2>1, <2>2, <2>3 DEF Next
<1> QED
  BY <1>1, RunsInit, PTL DEF Spec, FoldAdvances

-----------------------------------------------------------------------------
(* Induction over a set, which the provers can follow: it has no least        *)
(* element outside.                                                        *)

\* What holds of no element and of one more is what holds of all.
LEMMA NatInduct ==
    ASSUME NEW P, 0 \in P, \A n \in Nat : n \in P => n + 1 \in P
    PROVE  Nat \subseteq P
<1> SUFFICES ASSUME NEW z \in Nat, z \notin P PROVE FALSE
  OBVIOUS
<1> DEFINE T == {n \in Nat : n \notin P}
<1>1. PICK m \in T : \A n \in T : m <= n
  <2>1. T \subseteq Nat /\ z \in T
    OBVIOUS
  <2> HIDE DEF T
  <2> QED
    BY <2>1, Least
<1>2. m \in Nat /\ m # 0 /\ m \notin P
  OBVIOUS
<1>3. PICK k \in Nat : k + 1 = m
  BY <1>2
<1>4. k \notin T
  <2> HIDE DEF T
  <2> QED
    BY <1>1, <1>2, <1>3
<1> QED
  BY <1>2, <1>3, <1>4

\* What holds of the empty sequence and of one more element holds of every one.
LEMMA SeqInduct ==
    ASSUME NEW S, NEW P, <<>> \in P,
           \A s \in Seq(S) : \A e \in S : s \in P => Append(s, e) \in P
    PROVE  Seq(S) \subseteq P
<1> DEFINE Q == {n \in Nat : \A s \in Seq(S) : Len(s) = n => s \in P}
<1>1. 0 \in Q
  <2>1. ASSUME NEW s \in Seq(S), Len(s) = 0 PROVE s = <<>>
    BY <2>1, EmptySeq
  <2> QED
    BY <2>1
<1>2. ASSUME NEW n \in Nat, n \in Q PROVE n + 1 \in Q
  <2> SUFFICES ASSUME NEW s \in Seq(S), Len(s) = n + 1 PROVE s \in P
    OBVIOUS
  <2>1. PICK r \in Seq(S), e \in S : s = Append(r, e)
    <3>1. s # <<>>
      BY EmptySeq
    <3> QED
      BY <3>1, SequenceEmptyOrAppend
  <2>2. Len(r) = n
    <3>1. Len(Append(r, e)) = Len(r) + 1 /\ Len(r) \in Nat
      BY AppendProperties, LenProperties
    <3> QED
      BY <2>1, <3>1
  <2> QED
    BY <1>2, <2>1, <2>2
<1>3. Nat \subseteq Q
  <2> HIDE DEF Q
  <2> QED
    BY <1>1, <1>2, NatInduct
<1> QED
  <2> SUFFICES ASSUME NEW s \in Seq(S) PROVE s \in P
    OBVIOUS
  <2>1. Len(s) \in Nat
    BY LenProperties
  <2> QED
    BY <1>3, <2>1

-----------------------------------------------------------------------------
(* FlattenSeq, of which the recursive function must first be shown to exist. *)

\* What FlattenSeq computes: f[i] joins the first i of ss.
Flatten(f, ss, n) ==
    f = [i \in 1..n |-> IF i = 1 THEN ss[i] ELSE f[i - 1] \o ss[i]]

LEMMA FlattenExists ==
    ASSUME NEW ss, NEW n \in Nat
    PROVE  \E f : Flatten(f, ss, n)
<1> DEFINE P == {k \in Nat : \E f : Flatten(f, ss, k)}
<1>1. 0 \in P
  <2>1. Flatten([i \in 1..0 |-> 0], ss, 0)
    BY DEF Flatten
  <2> QED
    BY <2>1
<1>2. ASSUME NEW k \in Nat, k \in P PROVE k + 1 \in P
  <2>1. PICK f : Flatten(f, ss, k)
    BY <1>2
  <2> DEFINE g == [i \in 1..k+1 |-> IF i <= k THEN f[i]
                                    ELSE IF i = 1 THEN ss[i] ELSE f[i - 1] \o ss[i]]
  <2>2. ASSUME NEW i \in 1..k+1
        PROVE  g[i] = IF i = 1 THEN ss[i] ELSE g[i - 1] \o ss[i]
    <3>1. CASE i <= k
      <4>0. i \in 1..k
        BY <3>1
      <4>1. f[i] = IF i = 1 THEN ss[i] ELSE f[i - 1] \o ss[i]
        BY <2>1, <4>0 DEF Flatten
      <4>2. i # 1 => g[i - 1] = f[i - 1]
        BY <3>1
      <4> QED
        BY <3>1, <4>1, <4>2
    <3>2. CASE ~(i <= k)
      <4>1. i # 1 => i - 1 \in 1..k+1 /\ i - 1 <= k
        BY <3>2
      <4> QED
        BY <3>2, <4>1
    <3> QED
      BY <3>1, <3>2
  <2>3. Flatten(g, ss, k + 1)
    BY <2>2 DEF Flatten
  <2> HIDE DEF g
  <2> QED
    BY <2>3
<1> HIDE DEF P
<1>3. Nat \subseteq P
  BY <1>1, <1>2, NatInduct
<1> QED
  BY <1>3 DEF P

\* There is one such function, and it looks at the elements before i only.
LEMMA FlattenUnique ==
    ASSUME NEW ss, NEW tt, NEW f, NEW g, NEW m \in Nat, NEW n \in Nat,
           Flatten(f, ss, m), Flatten(g, tt, n), m <= n,
           \A i \in 1..m : ss[i] = tt[i]
    PROVE  \A i \in 1..m : f[i] = g[i]
<1> DEFINE P == {k \in Nat : k + 1 <= m => f[k + 1] = g[k + 1]}
<1>1. 0 \in P
  BY DEF Flatten
<1>2. ASSUME NEW k \in Nat, k \in P PROVE k + 1 \in P
  <2> SUFFICES ASSUME k + 1 + 1 <= m PROVE f[k + 1 + 1] = g[k + 1 + 1]
    OBVIOUS
  <2>1. f[k + 1] = g[k + 1]
    BY <1>2
  <2>2. PICK i \in 1..m : i = k + 1 + 1 /\ i # 1 /\ i - 1 = k + 1 /\ i \in 1..n
    OBVIOUS
  <2>3. f[i] = f[i - 1] \o ss[i] /\ g[i] = g[i - 1] \o tt[i]
    BY <2>2 DEF Flatten
  <2> QED
    BY <2>1, <2>2, <2>3
<1>3. Nat \subseteq P
  <2> HIDE DEF P
  <2> QED
    BY <1>1, <1>2, NatInduct
<1> QED
  <2> SUFFICES ASSUME NEW i \in 1..m PROVE f[i] = g[i]
    OBVIOUS
  <2>1. PICK k \in Nat : k + 1 = i
    OBVIOUS
  <2> QED
    BY <1>3, <2>1

LEMMA FlattenIs ==
    ASSUME NEW ss, NEW n \in Nat, Len(ss) = n, n # 0
    PROVE  \E f : Flatten(f, ss, n) /\ FlattenSeq(ss) = f[n]
<1>1. \E f : f = [i \in 1..n |-> IF i = 1 THEN ss[i] ELSE f[i - 1] \o ss[i]]
  BY FlattenExists DEF Flatten
<1> DEFINE f == CHOOSE f : f = [i \in 1..n |-> IF i = 1 THEN ss[i] ELSE f[i - 1] \o ss[i]]
<1>2. f = [i \in 1..n |-> IF i = 1 THEN ss[i] ELSE f[i - 1] \o ss[i]]
  BY <1>1
<1>3. FlattenSeq(ss) = f[n]
  BY DEF FlattenSeq
<1> HIDE DEF f
<1> QED
  BY <1>2, <1>3 DEF Flatten

\* Appending to what is flattened appends to the result.
LEMMA FlattenAppend ==
    ASSUME NEW S, NEW ss \in Seq(Seq(S)), NEW x \in Seq(S), FlattenSeq(ss) \in Seq(S)
    PROVE  FlattenSeq(Append(ss, x)) = FlattenSeq(ss) \o x
<1>1. PICK n \in Nat : n = Len(ss)
  BY LenProperties
<1>2. PICK tt : tt = Append(ss, x)
  OBVIOUS
<1>3. Len(tt) = n + 1 /\ tt[n + 1] = x /\ \A i \in 1..n : tt[i] = ss[i]
  BY <1>1, <1>2, AppendProperties
<1>4. PICK g : Flatten(g, tt, n + 1) /\ FlattenSeq(tt) = g[n + 1]
  BY <1>3, FlattenIs
<1>5. CASE n = 0
  <2>1. FlattenSeq(tt) = x
    BY <1>3, <1>4, <1>5 DEF Flatten
  <2>2. FlattenSeq(ss) = <<>>
    BY <1>1, <1>5, EmptySeq DEF FlattenSeq
  <2> QED
    BY <1>2, <2>1, <2>2, ConcatEmptySeq
<1>6. CASE n # 0
  <2>1. PICK f : Flatten(f, ss, n) /\ FlattenSeq(ss) = f[n]
    BY <1>1, <1>6, FlattenIs
  <2>2. f[n] = g[n]
    BY <1>3, <1>4, <1>6, <2>1, FlattenUnique
  <2>3. g[n + 1] = g[n] \o tt[n + 1]
    <3>1. n + 1 \in 1..n + 1 /\ n + 1 # 1 /\ (n + 1) - 1 = n
      BY <1>6
    <3> QED
      BY <1>4, <3>1 DEF Flatten
  <2> QED
    BY <1>2, <1>3, <1>4, <2>1, <2>2, <2>3
<1> QED
  BY <1>5, <1>6

LEMMA FlattenEmpty == FlattenSeq(<<>>) = <<>>
BY DEF FlattenSeq

\* What is flattened is a sequence over the same set.
LEMMA FlattenType ==
    ASSUME NEW S, NEW ss \in Seq(Seq(S))
    PROVE  FlattenSeq(ss) \in Seq(S)
<1> DEFINE P == {s \in Seq(Seq(S)) : FlattenSeq(s) \in Seq(S)}
<1>1. <<>> \in P
  BY FlattenEmpty, EmptySeq
<1>2. ASSUME NEW s \in Seq(Seq(S)), NEW e \in Seq(S), s \in P
      PROVE  Append(s, e) \in P
  <2>1. FlattenSeq(Append(s, e)) = FlattenSeq(s) \o e
    BY <1>2, FlattenAppend
  <2> QED
    BY <1>2, <2>1, ConcatProperties, AppendProperties
<1>3. Seq(Seq(S)) \subseteq P
  <2> HIDE DEF P
  <2> QED
    BY <1>1, <1>2, SeqInduct
<1> QED
  BY <1>3

-----------------------------------------------------------------------------
(* A sequence that is spelled element by element, such as a text with its  *)
(* escapes or a line without its spaces.                                   *)

\* s with m[x] in the place of each element x.
Spelled(s, m) == FlattenSeq([i \in DOMAIN s |-> m[s[i]]])

LEMMA SpelledFacts ==
    ASSUME NEW S, NEW T, NEW m \in [S -> Seq(T)], NEW s \in Seq(S)
    PROVE  /\ [i \in DOMAIN s |-> m[s[i]]] \in Seq(Seq(T))
           /\ Spelled(s, m) \in Seq(T)
<1>1. Len(s) \in Nat /\ DOMAIN s = 1..Len(s) /\ \A i \in 1..Len(s) : s[i] \in S
  BY LenProperties, ElementOfSeq
<1>2. [i \in DOMAIN s |-> m[s[i]]] \in [1..Len(s) -> Seq(T)]
  BY <1>1
<1>3. [i \in DOMAIN s |-> m[s[i]]] \in Seq(Seq(T))
  BY <1>1, <1>2, SeqDef
<1> QED
  BY <1>3, FlattenType DEF Spelled

LEMMA SpelledEmpty ==
    ASSUME NEW m
    PROVE  Spelled(<<>>, m) = <<>>
<1>1. [i \in DOMAIN <<>> |-> m[<<>>[i]]] = <<>>
  OBVIOUS
<1> QED
  BY <1>1, FlattenEmpty DEF Spelled

LEMMA SpelledAppend ==
    ASSUME NEW S, NEW T, NEW m \in [S -> Seq(T)], NEW s \in Seq(S), NEW e \in S
    PROVE  Spelled(Append(s, e), m) = Spelled(s, m) \o m[e]
<1>1. PICK n \in Nat : n = Len(s)
  BY LenProperties
<1>2. PICK r : r = Append(s, e)
  OBVIOUS
<1>3. r \in Seq(S) /\ Len(r) = n + 1 /\ r[n + 1] = e /\ \A i \in 1..n : r[i] = s[i]
  BY <1>1, <1>2, AppendProperties
<1>4. PICK ss : ss = [i \in DOMAIN s |-> m[s[i]]]
  OBVIOUS
<1>5. PICK rr : rr = [i \in DOMAIN r |-> m[r[i]]]
  OBVIOUS
<1>6. DOMAIN s = 1..n /\ DOMAIN r = 1..n+1
  BY <1>1, <1>3, LenProperties
<1>7. ss \in Seq(Seq(T)) /\ Len(ss) = n /\ \A i \in 1..n : ss[i] = m[s[i]]
  <2>1. ss \in Seq(Seq(T))
    BY <1>4, SpelledFacts
  <2>2. DOMAIN ss = 1..n /\ \A i \in 1..n : ss[i] = m[s[i]]
    BY <1>4, <1>6
  <2> QED
    BY <2>1, <2>2, LenProperties
<1>8. rr \in Seq(Seq(T)) /\ Len(rr) = n + 1 /\ \A i \in 1..n+1 : rr[i] = m[r[i]]
  <2>1. rr \in Seq(Seq(T))
    BY <1>3, <1>5, SpelledFacts
  <2>2. DOMAIN rr = 1..n+1 /\ \A i \in 1..n+1 : rr[i] = m[r[i]]
    BY <1>5, <1>6
  <2> QED
    BY <2>1, <2>2, LenProperties
<1>9. rr = Append(ss, m[e])
  <2>1. m[e] \in Seq(T)
    OBVIOUS
  <2>2. PICK aa : aa = Append(ss, m[e])
    OBVIOUS
  <2>3. aa \in Seq(Seq(T)) /\ Len(aa) = n + 1 /\ aa[n + 1] = m[e]
        /\ \A i \in 1..n : aa[i] = ss[i]
    BY <1>7, <2>1, <2>2, AppendProperties
  <2>4. ASSUME NEW i \in 1..n+1 PROVE rr[i] = aa[i]
    <3>1. CASE i \in 1..n
      <4>1. r[i] = s[i] /\ ss[i] = m[s[i]] /\ aa[i] = ss[i]
        BY <1>3, <1>7, <2>3, <3>1
      <4> QED
        BY <1>8, <4>1
    <3>2. CASE i = n + 1
      BY <1>3, <1>8, <2>3, <3>2
    <3> QED
      BY <3>1, <3>2
  <2> QED
    BY <1>8, <2>2, <2>3, <2>4, SeqEqual
<1>10. m[e] \in Seq(T) /\ FlattenSeq(ss) \in Seq(T)
  BY <1>7, FlattenType
<1>11. FlattenSeq(rr) = FlattenSeq(ss) \o m[e]
  BY <1>7, <1>9, <1>10, FlattenAppend
<1>12. Spelled(s, m) = FlattenSeq(ss) /\ Spelled(r, m) = FlattenSeq(rr)
  BY <1>4, <1>5 DEF Spelled
<1> QED
  BY <1>2, <1>11, <1>12

LEMMA SpelledOne ==
    ASSUME NEW S, NEW T, NEW m \in [S -> Seq(T)], NEW e \in S
    PROVE  Spelled(<<e>>, m) = m[e]
<1>1. <<e>> = Append(<<>>, e) /\ <<>> \in Seq(S) /\ m[e] \in Seq(T)
  OBVIOUS
<1>2. Spelled(Append(<<>>, e), m) = Spelled(<<>>, m) \o m[e]
  BY <1>1, SpelledAppend
<1>3. <<>> \o m[e] = m[e]
  BY <1>1, ConcatEmptySeq
<1> QED
  BY <1>1, <1>2, <1>3, SpelledEmpty

\* Two parts are spelled one after the other.
LEMMA SpelledConcat ==
    ASSUME NEW S, NEW T, NEW m \in [S -> Seq(T)], NEW s \in Seq(S), NEW t \in Seq(S)
    PROVE  Spelled(s \o t, m) = Spelled(s, m) \o Spelled(t, m)
<1> DEFINE P == {u \in Seq(S) : Spelled(s \o u, m) = Spelled(s, m) \o Spelled(u, m)}
<1>1. <<>> \in P
  <2>1. Spelled(s, m) \in Seq(T) /\ <<>> \in Seq(S)
    BY SpelledFacts, EmptySeq
  <2>2. s \o <<>> = s /\ Spelled(s, m) \o <<>> = Spelled(s, m)
    BY <2>1, ConcatEmptySeq
  <2> QED
    BY <2>1, <2>2, SpelledEmpty
<1>2. ASSUME NEW u \in Seq(S), NEW e \in S, u \in P
      PROVE  Append(u, e) \in P
  <2>1. Append(u, e) \in Seq(S) /\ s \o u \in Seq(S)
    BY AppendProperties, ConcatProperties
  <2>2. s \o Append(u, e) = Append(s \o u, e)
    <3>1. <<e>> \in Seq(S)
      OBVIOUS
    <3> QED
      BY <2>1, <3>1, AppendIsConcat, ConcatAssociative
  <2>3. Spelled(s \o Append(u, e), m) = (Spelled(s, m) \o Spelled(u, m)) \o m[e]
    BY <1>2, <2>1, <2>2, SpelledAppend
  <2>4. Spelled(Append(u, e), m) = Spelled(u, m) \o m[e]
    BY SpelledAppend
  <2>5. (Spelled(s, m) \o Spelled(u, m)) \o m[e] = Spelled(s, m) \o (Spelled(u, m) \o m[e])
    <3>1. /\ Spelled(s, m) \in Seq(T)
          /\ Spelled(u, m) \in Seq(T)
          /\ m[e] \in Seq(T)
      BY SpelledFacts
    <3> QED
      BY <3>1, ConcatAssociative
  <2> QED
    BY <2>1, <2>3, <2>4, <2>5
<1>3. Seq(S) \subseteq P
  <2> HIDE DEF P
  <2> QED
    BY <1>1, <1>2, SeqInduct
<1> QED
  BY <1>3

LEMMA FlattenSpelled ==
    ASSUME NEW S, NEW ss \in Seq(Seq(S)), NEW m, m = [x \in Seq(S) |-> x]
    PROVE  Spelled(ss, m) = FlattenSeq(ss)
<1>1. Len(ss) \in Nat /\ DOMAIN ss = 1..Len(ss) /\ \A i \in 1..Len(ss) : ss[i] \in Seq(S)
  BY LenProperties, ElementOfSeq
<1>2. ss = [i \in DOMAIN ss |-> ss[i]]
  OBVIOUS
<1>3. [i \in DOMAIN ss |-> m[ss[i]]] = [i \in DOMAIN ss |-> ss[i]]
  BY <1>1
<1> QED
  BY <1>2, <1>3 DEF Spelled

\* A nonempty sequence is its head and its tail.
LEMMA HeadAndTail ==
    ASSUME NEW S, NEW s \in Seq(S), s # <<>>
    PROVE  /\ s[1] \in S /\ <<s[1]>> \in Seq(S) /\ Tail(s) \in Seq(S)
           /\ s = <<s[1]>> \o Tail(s)
<1>1. Len(s) \in Nat \ {0}
  BY EmptySeq
<1>2. s[1] \in S /\ Tail(s) \in Seq(S) /\ Len(Tail(s)) = Len(s) - 1
      /\ \A i \in 1..Len(Tail(s)) : Tail(s)[i] = s[i + 1]
  BY <1>1, ElementOfSeq, HeadTailProperties
<1>3. <<s[1]>> \in Seq(S) /\ Len(<<s[1]>>) = 1 /\ <<s[1]>>[1] = s[1]
  BY <1>2
<1>4. PICK h : h = <<s[1]>>
  OBVIOUS
<1>5. PICK t : t = Tail(s)
  OBVIOUS
<1>6. h \o t \in Seq(S) /\ Len(h \o t) = Len(s)
      /\ \A i \in 1..Len(s) : (h \o t)[i] = IF i <= 1 THEN h[i] ELSE t[i - 1]
  <2>1. h \in Seq(S) /\ t \in Seq(S) /\ Len(h) = 1 /\ Len(h) + Len(t) = Len(s)
    BY <1>1, <1>2, <1>3, <1>4, <1>5
  <2>2. /\ h \o t \in Seq(S) /\ Len(h \o t) = Len(h) + Len(t)
        /\ \A i \in 1 .. Len(h) + Len(t) :
              (h \o t)[i] = IF i <= Len(h) THEN h[i] ELSE t[i - Len(h)]
    BY <2>1, ConcatProperties
  <2> QED
    BY <2>1, <2>2
<1>7. ASSUME NEW i \in 1..Len(s) PROVE (h \o t)[i] = s[i]
  <2>1. CASE i = 1
    BY <1>3, <1>4, <1>6, <2>1
  <2>2. CASE i # 1
    <3>1. i - 1 \in 1..Len(t) /\ (i - 1) + 1 = i /\ ~(i <= 1)
      BY <1>1, <1>2, <1>5, <2>2
    <3> QED
      BY <1>2, <1>5, <1>6, <3>1
  <2> QED
    BY <2>1, <2>2
<1>8. h \o t = s
  BY <1>6, <1>7, SeqEqual
<1> QED
  BY <1>2, <1>3, <1>4, <1>5, <1>8

-----------------------------------------------------------------------------
(* What a client reads of physical lines. *)

\* What a client takes of a continuation line, of some of them (Rest), and of
\* all that was written (Written); Continued lines start with the space of the fold.
Unfold == [p \in Seq(Bytes) |-> Drop(p, 1)]
Rest(o) == Spelled(o, Unfold)
Written(o) == o[1] \o Rest(Tail(o))
Continued(o) == \A i \in 1..Len(o) : o[i] # <<>> /\ o[i][1] = Space

LEMMA DropType ==
    ASSUME NEW s \in Seq(Bytes), NEW n \in Nat
    PROVE  Drop(s, n) \in Seq(Bytes)
<1>1. \A i \in n+1..Len(s) : s[i] \in Bytes
  BY LenProperties, ElementOfSeq
<1>2. Len(s) \in Int /\ n + 1 \in Int
  BY LenProperties
<1> QED
  BY <1>1, <1>2, SubSeqProperties DEF Drop

\* What FoldLine cuts off and what it keeps are the sequence (icsutil.go:48-49, 61-62).
LEMMA CutJoin ==
    ASSUME NEW s \in Seq(Bytes), NEW k \in 0..Len(s)
    PROVE  /\ SubSeq(s, 1, k) \in Seq(Bytes)
           /\ Drop(s, k) \in Seq(Bytes)
           /\ SubSeq(s, 1, k) \o Drop(s, k) = s
<1>1. Len(s) \in Nat /\ 1 \in 1..Len(s)+1 /\ k \in 1-1..Len(s) /\ Len(s) \in k..Len(s)
  BY LenProperties
<1>2. SubSeq(s, 1, k) \o SubSeq(s, k + 1, Len(s)) = SubSeq(s, 1, Len(s))
  BY <1>1, ConcatAdjacentSubSeq
<1>3. \A i \in 1..k : s[i] \in Bytes
  BY <1>1, ElementOfSeq
<1>4. SubSeq(s, 1, k) \in Seq(Bytes)
  BY <1>1, <1>3, SubSeqProperties
<1>5. Drop(s, k) \in Seq(Bytes)
  BY DropType
<1>6. SubSeq(s, 1, Len(s)) = s
  BY SubSeqFull
<1> QED
  BY <1>2, <1>4, <1>5, <1>6 DEF Drop

LEMMA UnfoldType == Unfold \in [Seq(Bytes) -> Seq(Bytes)]
BY DropType DEF Unfold

\* The space in front is what unfolding takes away.
LEMMA UnfoldContinuation ==
    ASSUME NEW c \in Seq(Bytes)
    PROVE  /\ <<Space>> \o c \in Seq(Bytes)
           /\ <<Space>> \o c # <<>>
           /\ (<<Space>> \o c)[1] = Space
           /\ Unfold[<<Space>> \o c] = c
<1>1. PICK r : r = <<Space>> \o c
  OBVIOUS
<1>2. <<Space>> \in Seq(Bytes) /\ Len(<<Space>>) = 1
  BY DEF Bytes
<1>3. /\ r \in Seq(Bytes) /\ Len(r) = 1 + Len(c) /\ Len(c) \in Nat
      /\ \A i \in 1..1 + Len(c) : r[i] = IF i <= 1 THEN <<Space>>[i] ELSE c[i - 1]
  BY <1>1, <1>2, ConcatProperties, LenProperties
<1>4. r[1] = Space /\ r # <<>>
  BY <1>3
<1>5. /\ Drop(r, 1) \in Seq(Bytes) /\ Len(Drop(r, 1)) = Len(c)
      /\ \A i \in 1..Len(c) : Drop(r, 1)[i] = r[i + 1]
  <2>1. \A i \in 2..Len(r) : r[i] \in Bytes
    BY <1>3, ElementOfSeq
  <2>2. Len(r) - 2 + 1 = Len(c) /\ (2 <= Len(r) \/ Len(c) = 0) /\ 2 \in Int /\ Len(r) \in Int
    BY <1>3
  <2>3. /\ SubSeq(r, 2, Len(r)) \in Seq(Bytes)
        /\ Len(SubSeq(r, 2, Len(r))) = IF 2 <= Len(r) THEN Len(r) - 2 + 1 ELSE 0
        /\ \A i \in 1..Len(r) - 2 + 1 : SubSeq(r, 2, Len(r))[i] = r[2 + i - 1]
    BY <2>1, <2>2, SubSeqProperties
  <2>4. Drop(r, 1) = SubSeq(r, 2, Len(r))
    BY DEF Drop
  <2>5. \A i \in 1..Len(c) : 2 + i - 1 = i + 1
    OBVIOUS
  <2> QED
    BY <1>3, <2>2, <2>3, <2>4, <2>5
<1>6. ASSUME NEW i \in 1..Len(c) PROVE Drop(r, 1)[i] = c[i]
  <2>1. i + 1 \in 1..1 + Len(c) /\ ~(i + 1 <= 1) /\ (i + 1) - 1 = i
    BY <1>3
  <2> QED
    BY <1>3, <1>5, <2>1
<1>7. Drop(r, 1) = c
  BY <1>5, <1>6, SeqEqual
<1> QED
  BY <1>1, <1>3, <1>4, <1>7 DEF Unfold

\* Continuation lines are read one after the other.
LEMMA RestFacts ==
    /\ Rest(<<>>) = <<>>
    /\ \A o \in Seq(Seq(Bytes)) :
          /\ Rest(o) \in Seq(Bytes)
          /\ \A c \in Seq(Bytes) : Rest(Append(o, <<Space>> \o c)) = Rest(o) \o c
          /\ o # <<>> => Rest(o) = Drop(o[1], 1) \o Rest(Tail(o))
<1>1. Rest(<<>>) = <<>>
  BY SpelledEmpty DEF Rest
<1>2. ASSUME NEW o \in Seq(Seq(Bytes)) PROVE Rest(o) \in Seq(Bytes)
  BY UnfoldType, SpelledFacts DEF Rest
<1>3. ASSUME NEW o \in Seq(Seq(Bytes)), NEW c \in Seq(Bytes)
      PROVE  Rest(Append(o, <<Space>> \o c)) = Rest(o) \o c
  <2>1. PICK r \in Seq(Bytes) : r = <<Space>> \o c /\ Unfold[r] = c
    BY UnfoldContinuation
  <2>2. Rest(Append(o, r)) = Rest(o) \o Unfold[r]
    BY <2>1, UnfoldType, SpelledAppend DEF Rest
  <2> QED
    BY <2>1, <2>2
<1>4. ASSUME NEW o \in Seq(Seq(Bytes)), o # <<>>
      PROVE  Rest(o) = Drop(o[1], 1) \o Rest(Tail(o))
  <2>1. /\ o[1] \in Seq(Bytes) /\ <<o[1]>> \in Seq(Seq(Bytes))
        /\ Tail(o) \in Seq(Seq(Bytes)) /\ o = <<o[1]>> \o Tail(o)
    BY <1>4, HeadAndTail
  <2>2. Rest(<<o[1]>> \o Tail(o)) = Rest(<<o[1]>>) \o Rest(Tail(o))
    BY <2>1, UnfoldType, SpelledConcat DEF Rest
  <2>3. Rest(<<o[1]>>) = Unfold[o[1]]
    BY <2>1, UnfoldType, SpelledOne DEF Rest
  <2>4. Unfold[o[1]] = Drop(o[1], 1)
    BY <2>1 DEF Unfold
  <2> QED
    BY <2>1, <2>2, <2>3, <2>4
<1> QED
  BY <1>1, <1>2, <1>3, <1>4

\* ClientReads joins the first line and the rest.
LEMMA ReadsWritten ==
    ASSUME out \in Seq(Seq(Bytes)), out # <<>>
    PROVE  ClientReads = Written(out)
<1> DEFINE joined == [i \in DOMAIN out |-> IF i = 1 THEN out[i] ELSE Drop(out[i], 1)]
           dropped == [i \in DOMAIN Tail(out) |-> Unfold[Tail(out)[i]]]
<1>1. /\ out[1] \in Seq(Bytes) /\ <<out[1]>> \in Seq(Seq(Bytes))
      /\ Tail(out) \in Seq(Seq(Bytes))
  BY HeadAndTail
<1>2. PICK n \in Nat : Len(out) = n + 1
  <2>1. Len(out) \in Nat \ {0}
    BY EmptySeq
  <2>2. Len(out) - 1 \in Nat /\ Len(out) = (Len(out) - 1) + 1
    BY <2>1
  <2> QED
    BY <2>2
<1>3. /\ DOMAIN out = 1..n+1 /\ DOMAIN Tail(out) = 1..n
      /\ \A i \in 1..n : Tail(out)[i] = out[i + 1]
  <2>1. Len(Tail(out)) = n /\ \A i \in 1..n : Tail(out)[i] = out[i + 1]
    BY <1>2, HeadTailProperties
  <2> QED
    BY <1>1, <1>2, <2>1, LenProperties
<1>4. \A i \in 1..n+1 : out[i] \in Seq(Bytes)
  BY <1>2, ElementOfSeq
<1>5. joined \in Seq(Seq(Bytes)) /\ Len(joined) = n + 1
  <2>1. \A i \in 1..n+1 : joined[i] \in Seq(Bytes)
    BY <1>3, <1>4, DropType
  <2>2. joined \in [1..n+1 -> Seq(Bytes)]
    BY <1>3, <2>1
  <2>3. joined \in Seq(Seq(Bytes))
    BY <2>2, SeqDef
  <2> HIDE DEF joined
  <2> QED
    BY <2>2, <2>3, LenProperties
<1>6. dropped \in Seq(Seq(Bytes)) /\ Len(dropped) = n
  <2>1. dropped \in Seq(Seq(Bytes))
    BY <1>1, UnfoldType, SpelledFacts
  <2>2. DOMAIN dropped = 1..n
    BY <1>3
  <2> HIDE DEF dropped
  <2> QED
    BY <2>1, <2>2, LenProperties
<1>7. /\ \A i \in 1..n+1 : joined[i] = IF i = 1 THEN out[i] ELSE Drop(out[i], 1)
      /\ \A i \in 1..n : dropped[i] = Drop(out[i + 1], 1)
  <2>1. \A i \in 1..n : Unfold[out[i + 1]] = Drop(out[i + 1], 1)
    BY <1>4 DEF Unfold
  <2> QED
    BY <1>3, <2>1
<1> HIDE DEF joined, dropped
<1>8. joined # <<>> /\ joined[1] = out[1] /\ Tail(joined) = dropped
  <2>1. joined # <<>> /\ joined[1] = out[1]
    BY <1>5, <1>7, EmptySeq
  <2>2. /\ Tail(joined) \in Seq(Seq(Bytes)) /\ Len(Tail(joined)) = n
        /\ \A i \in 1..n : Tail(joined)[i] = joined[i + 1]
    BY <1>5, <2>1, HeadTailProperties
  <2>3. ASSUME NEW i \in 1..n PROVE Tail(joined)[i] = dropped[i]
    <3>1. i + 1 \in 1..n+1 /\ i + 1 # 1
      OBVIOUS
    <3> QED
      BY <1>7, <2>2, <3>1
  <2> QED
    BY <1>6, <2>1, <2>2, <2>3, SeqEqual
<1>9. joined = <<out[1]>> \o dropped
  BY <1>5, <1>8, HeadAndTail
<1>10. PICK m : m = [x \in Seq(Bytes) |-> x]
  OBVIOUS
<1>11. m \in [Seq(Bytes) -> Seq(Bytes)]
  BY <1>10
<1>12. FlattenSeq(joined) = FlattenSeq(<<out[1]>>) \o FlattenSeq(dropped)
  <2>1. Spelled(<<out[1]>> \o dropped, m) = Spelled(<<out[1]>>, m) \o Spelled(dropped, m)
    BY <1>1, <1>6, <1>11, SpelledConcat
  <2> QED
    BY <1>1, <1>5, <1>6, <1>9, <1>10, <2>1, FlattenSpelled
<1>13. FlattenSeq(<<out[1]>>) = out[1]
  <2>1. Spelled(<<out[1]>>, m) = m[out[1]]
    BY <1>1, <1>11, SpelledOne
  <2> QED
    BY <1>1, <1>10, <2>1, FlattenSpelled
<1>14. FlattenSeq(dropped) = Rest(Tail(out))
  BY DEF dropped, Rest, Spelled
<1>15. ClientReads = FlattenSeq(joined)
  BY DEF ClientReads, joined
<1> QED
  BY <1>12, <1>13, <1>14, <1>15 DEF Written

-----------------------------------------------------------------------------
(* What there is of a line while it is written and read. *)

\* What there is of the line: while it is read, the part that is not yet read
\* counts as a client would read it.
Held == IF pc = "read" THEN line \o Rest(out) ELSE line

\* What was written and what is left to write are the line.
HeldInv ==
    /\ Inv
    /\ pc \in {"chunk", "stored"} => Continued(Tail(out))
    /\ pc = "read" => Continued(out)
    /\ pc = "chunk" => Written(out) \o b = line
    /\ pc = "stored" => Written(out) = line

\* One step takes nothing out, or spaces in one place.
SpacesTaken ==
    \E p, q \in Seq(Bytes), k \in Seq({Space}) :
        Held = (p \o k) \o q /\ Held' = p \o q

LEMMA ByteConcat ==
    \A s, t, u \in Seq(Bytes) : (s \o t) \o u = s \o (t \o u)
BY ConcatAssociative

LEMMA WrittenFirst ==
    ASSUME NEW s \in Seq(Bytes)
    PROVE  Written(<<s>>) = s /\ Continued(Tail(<<s>>))
<1>1. Tail(<<s>>) = <<>> /\ <<s>>[1] = s
  OBVIOUS
<1>2. s \o <<>> = s
  BY ConcatEmptySeq
<1> QED
  BY <1>1, <1>2, RestFacts DEF Written, Continued

\* A continuation line adds to what a client reads all but its space.
LEMMA WrittenNext ==
    ASSUME NEW o \in Seq(Seq(Bytes)), o # <<>>, NEW c \in Seq(Bytes),
           Continued(Tail(o))
    PROVE  /\ Written(Append(o, <<Space>> \o c)) = Written(o) \o c
           /\ Written(o) \in Seq(Bytes)
           /\ Continued(Tail(Append(o, <<Space>> \o c)))
<1>1. PICK r \in Seq(Bytes) : r = <<Space>> \o c /\ r # <<>> /\ r[1] = Space
  BY UnfoldContinuation
<1>2. Tail(Append(o, r)) = Append(Tail(o), r)
  BY <1>1, HeadTailAppend
<1>3. Tail(o) \in Seq(Seq(Bytes)) /\ o[1] \in Seq(Bytes)
  BY HeadAndTail
<1>4. Append(o, r)[1] = o[1]
  <2>1. Len(o) \in Nat \ {0}
    BY EmptySeq
  <2> QED
    BY <1>1, <2>1, AppendProperties
<1>5. Rest(Append(Tail(o), r)) = Rest(Tail(o)) \o c /\ Rest(Tail(o)) \in Seq(Bytes)
  BY <1>1, <1>3, RestFacts
<1>6. o[1] \o (Rest(Tail(o)) \o c) = (o[1] \o Rest(Tail(o))) \o c
  <2>1. PICK h \in Seq(Bytes), t \in Seq(Bytes) : h = o[1] /\ t = Rest(Tail(o))
    BY <1>3, <1>5
  <2>2. (h \o t) \o c = h \o (t \o c)
    BY ConcatAssociative
  <2> QED
    BY <2>1, <2>2
<1>7. o[1] \o Rest(Tail(o)) \in Seq(Bytes)
  BY <1>3, <1>5, ConcatProperties
<1>8. Continued(Append(Tail(o), r))
  <2>1. /\ Len(Append(Tail(o), r)) = Len(Tail(o)) + 1 /\ Len(Tail(o)) \in Nat
        /\ \A i \in 1..Len(Tail(o)) : Append(Tail(o), r)[i] = Tail(o)[i]
        /\ Append(Tail(o), r)[Len(Tail(o)) + 1] = r
    BY <1>1, <1>3, AppendProperties, LenProperties
  <2> QED
    BY <1>1, <2>1 DEF Continued
<1> QED
  BY <1>1, <1>2, <1>4, <1>5, <1>6, <1>7, <1>8 DEF Written

LEMMA ContinuedTail ==
    ASSUME NEW o \in Seq(Seq(Bytes)), o # <<>>, Continued(o)
    PROVE  Continued(Tail(o)) /\ o[1] # <<>> /\ o[1][1] = Space
<1>1. /\ Len(o) \in Nat \ {0} /\ Len(Tail(o)) = Len(o) - 1
      /\ \A i \in 1..Len(Tail(o)) : Tail(o)[i] = o[i + 1]
  BY EmptySeq, HeadTailProperties
<1> QED
  BY <1>1 DEF Continued

LEMMA HeldInit == Init => HeldInv /\ Held = original.line
BY InvInit DEF Init, HeldInv, Held

\* Folding takes nothing out (icsutil.go:37-65).
LEMMA HeldFold ==
    HeldInv /\ (FoldShort \/ FoldFirst \/ FoldNext \/ FoldLast) =>
        HeldInv' /\ original' = original /\ Held' = Held
<1> SUFFICES ASSUME HeldInv, FoldShort \/ FoldFirst \/ FoldNext \/ FoldLast
             PROVE  HeldInv' /\ original' = original /\ Held' = Held
  OBVIOUS
<1>1. /\ line \in Seq(Bytes) /\ b \in Seq(Bytes) /\ out \in Seq(Seq(Bytes))
      /\ MaxLineLength - 1 \in Nat /\ MaxLineLength \in Nat
      /\ pc \in {"chunk", "stored"} => out # <<>>
  BY IcsLineAssumption DEF HeldInv, Inv, TypeOK
<1>2. Inv'
  BY FoldShortStep, FoldFirstStep, FoldNextStep, FoldLastStep DEF HeldInv
<1>3. CASE FoldShort
  <2>1. Written(out') = line' /\ Continued(Tail(out'))
    BY <1>1, <1>3, WrittenFirst DEF FoldShort
  <2> QED
    BY <1>2, <1>3, <2>1 DEF FoldShort, HeldInv, Held
<1>4. CASE FoldFirst
  <2>1. PICK k \in 0..MaxLineLength : k = SplitPoint(line, MaxLineLength)
    BY <1>1, SplitPointFacts
  <2>2. k \in 0..Len(line)
    BY <1>1, <1>4, <2>1, LenProperties DEF FoldFirst
  <2>3. /\ SubSeq(line, 1, k) \in Seq(Bytes)
        /\ SubSeq(line, 1, k) \o Drop(line, k) = line
    BY <1>1, <2>2, CutJoin
  <2>4. /\ out' = <<SubSeq(line, 1, k)>> /\ b' = Drop(line, k)
        /\ pc = "fold" /\ pc' = "chunk" /\ line' = line /\ original' = original
    BY <1>4, <2>1 DEF FoldFirst
  <2>5. Written(out') \o b' = line' /\ Continued(Tail(out'))
    BY <2>3, <2>4, WrittenFirst
  <2> QED
    BY <1>2, <2>4, <2>5 DEF HeldInv, Held
<1>5. CASE FoldNext
  <2>1. PICK k \in 0..MaxLineLength - 1 : k = SplitPoint(b, MaxLineLength - 1)
    BY <1>1, SplitPointFacts
  <2>2. k \in 0..Len(b)
    BY <1>1, <1>5, <2>1, LenProperties DEF FoldNext
  <2>3. PICK c \in Seq(Bytes), d \in Seq(Bytes) :
            c = SubSeq(b, 1, k) /\ d = Drop(b, k) /\ c \o d = b
    BY <1>1, <2>2, CutJoin
  <2>4. /\ out' = Append(out, <<Space>> \o c) /\ b' = d
        /\ pc = "chunk" /\ pc' = "chunk" /\ line' = line /\ original' = original
    BY <1>5, <2>1, <2>3 DEF FoldNext
  <2>5. /\ Written(out') = Written(out) \o c /\ Written(out) \in Seq(Bytes)
        /\ Continued(Tail(out'))
    BY <1>1, <2>4, WrittenNext DEF HeldInv
  <2>6. (Written(out) \o c) \o d = Written(out) \o (c \o d)
    BY <2>5, ConcatAssociative
  <2>7. Written(out) \o b = line
    BY <2>4 DEF HeldInv
  <2>8. Written(out') \o b' = line'
    BY <2>3, <2>4, <2>5, <2>6, <2>7
  <2> QED
    BY <1>2, <2>4, <2>5, <2>8 DEF HeldInv, Held
<1>6. CASE FoldLast
  <2>1. /\ out' = Append(out, <<Space>> \o b)
        /\ pc = "chunk" /\ pc' = "stored" /\ line' = line /\ original' = original
    BY <1>6 DEF FoldLast
  <2>2. Written(out') = Written(out) \o b /\ Continued(Tail(out'))
    BY <1>1, <2>1, WrittenNext DEF HeldInv
  <2> QED
    BY <1>2, <2>1, <2>2 DEF HeldInv, Held
<1> QED
  BY <1>3, <1>4, <1>5, <1>6

\* Trimming takes the space of the fold and those that follow it.
LEMMA TrimmedSpaces ==
    ASSUME NEW s \in Seq(Bytes), s # <<>>, s[1] = Space
    PROVE  /\ TrimLeft(s) \in Seq(Bytes)
           /\ \E k \in Seq({Space}) : Drop(s, 1) = k \o TrimLeft(s)
<1>1. PICK n \in 0..Len(s) : /\ TrimLeft(s) = Drop(s, n)
                             /\ \A i \in 1..n : s[i] = Space
                             /\ n = Len(s) \/ s[n + 1] # Space
  BY TrimPoint
<1>2. Len(s) \in Nat \ {0}
  BY EmptySeq
<1>3. n # 0
  BY <1>1, <1>2
<1>4. SubSeq(s, 2, n) \o SubSeq(s, n + 1, Len(s)) = SubSeq(s, 2, Len(s))
  <2>1. 2 \in 1..Len(s)+1 /\ n \in 2-1..Len(s) /\ Len(s) \in n..Len(s)
    BY <1>2, <1>3
  <2> QED
    BY <2>1, ConcatAdjacentSubSeq
<1>5. SubSeq(s, 2, n) \in Seq({Space})
  <2>1. \A i \in 2..n : s[i] \in {Space}
    BY <1>1
  <2>2. n \in Int /\ 2 \in Int
    BY <1>2
  <2> QED
    BY <2>1, <2>2, SubSeqProperties
<1>6. TrimLeft(s) \in Seq(Bytes)
  BY <1>1, <1>2, DropType
<1>7. Drop(s, 1) = SubSeq(s, 2, Len(s)) /\ TrimLeft(s) = SubSeq(s, n + 1, Len(s))
  BY <1>1 DEF Drop
<1> QED
  BY <1>4, <1>5, <1>6, <1>7

LEMMA SpacesType == ASSUME NEW k \in Seq({Space}) PROVE k \in Seq(Bytes)
<1>1. {Space} \subseteq Bytes
  BY DEF Bytes
<1> QED
  BY <1>1, SeqMonotonic

\* Reading takes spaces out at most, where a line was folded (ics.go:155-172).
LEMMA HeldRead ==
    HeldInv /\ (ReadFirst \/ ReadNext \/ ReadLast) =>
        HeldInv' /\ original' = original /\ (Held' = Held \/ SpacesTaken)
<1> SUFFICES ASSUME HeldInv, ReadFirst \/ ReadNext \/ ReadLast
             PROVE  HeldInv' /\ original' = original /\ (Held' = Held \/ SpacesTaken)
  OBVIOUS
<1>1. /\ line \in Seq(Bytes) /\ out \in Seq(Seq(Bytes))
      /\ pc \in {"chunk", "stored"} => out # <<>>
  BY DEF HeldInv, Inv, TypeOK
<1>2. Inv'
  BY ReadStep DEF HeldInv
<1>3. CASE ReadFirst
  <2>1. /\ pc = "stored" /\ pc' = "read" /\ line' = out[1] /\ out' = Tail(out)
        /\ original' = original
    BY <1>3 DEF ReadFirst
  <2>2. Continued(Tail(out)) /\ Written(out) = line
    BY <2>1 DEF HeldInv
  <2>3. Held = line /\ Held' = out[1] \o Rest(Tail(out))
    BY <2>1 DEF Held
  <2> QED
    BY <1>2, <2>1, <2>2, <2>3 DEF HeldInv, Written
<1>4. CASE ReadNext
  <2>1. /\ pc = "read" /\ pc' = "read" /\ out # <<>> /\ line' = line \o TrimLeft(out[1])
        /\ out' = Tail(out) /\ original' = original
    BY <1>4 DEF ReadNext
  <2>2. Continued(out)
    BY <2>1 DEF HeldInv
  <2>3. /\ out[1] \in Seq(Bytes) /\ Tail(out) \in Seq(Seq(Bytes))
        /\ Continued(Tail(out)) /\ out[1] # <<>> /\ out[1][1] = Space
    BY <1>1, <2>1, <2>2, ContinuedTail, HeadAndTail
  <2>4. PICK t \in Seq(Bytes), k \in Seq({Space}) :
            t = TrimLeft(out[1]) /\ Drop(out[1], 1) = k \o t
    BY <2>3, TrimmedSpaces
  <2>5. PICK r \in Seq(Bytes) : r = Rest(Tail(out)) /\ Rest(out) = Drop(out[1], 1) \o r
    BY <1>1, <2>1, <2>3, RestFacts
  <2>6. Held = line \o ((k \o t) \o r) /\ Held' = (line \o t) \o r
    BY <2>1, <2>4, <2>5 DEF Held
  <2>7. /\ line \o ((k \o t) \o r) = (line \o k) \o (t \o r)
        /\ (line \o t) \o r = line \o (t \o r)
        /\ t \o r \in Seq(Bytes)
    <3>1. k \in Seq(Bytes)
      BY SpacesType
    <3>2. (k \o t) \o r = k \o (t \o r)
      BY <3>1, ConcatAssociative
    <3>3. t \o r \in Seq(Bytes)
      BY ConcatProperties
    <3>4. line \o (k \o (t \o r)) = (line \o k) \o (t \o r)
      <4>1. PICK tr \in Seq(Bytes) : tr = t \o r
        BY <3>3
      <4>2. (line \o k) \o tr = line \o (k \o tr)
        BY <1>1, <3>1, ByteConcat
      <4> QED
        BY <4>1, <4>2
    <3>5. (line \o t) \o r = line \o (t \o r)
      BY <1>1, ConcatAssociative
    <3> QED
      BY <3>2, <3>3, <3>4, <3>5
  <2>8. SpacesTaken
    BY <1>1, <2>6, <2>7 DEF SpacesTaken
  <2> QED
    BY <1>2, <2>1, <2>3, <2>8 DEF HeldInv
<1>5. CASE ReadLast
  <2>1. /\ pc = "read" /\ pc' = "fold" /\ line' = line /\ out = <<>>
        /\ original' = original
    BY <1>5 DEF ReadLast
  <2>2. Held = line \o <<>> /\ Held' = line
    BY <2>1, RestFacts DEF Held
  <2>3. line \o <<>> = line
    BY <1>1, ConcatEmptySeq
  <2> QED
    BY <1>2, <2>1, <2>2, <2>3 DEF HeldInv
<1> QED
  BY <1>3, <1>4, <1>5

\* Whatever the service does with a line, it takes nothing but spaces out.
LEMMA HeldStep ==
    HeldInv /\ [Next]_vars =>
        HeldInv' /\ original' = original /\ (Held' = Held \/ SpacesTaken)
<1>1. HeldInv /\ (Done \/ UNCHANGED vars) =>
          HeldInv' /\ original' = original /\ Held' = Held
  BY InvStep DEF Done, vars, HeldInv, Held
<1> QED
  BY <1>1, HeldFold, HeldRead DEF Next

LEMMA HeldAlways == Spec => []HeldInv
BY HeldInit, HeldStep, PTL DEF Spec

\* What a client unfolds is the line, however it was cut (icsutil.go:37-65).
THEOREM ClientsReadLines == Spec => []ClientReadsLine
<1>1. HeldInv => ClientReadsLine
  <2> SUFFICES ASSUME HeldInv, pc = "stored" PROVE ClientReads = line
    BY DEF ClientReadsLine
  <2>1. out \in Seq(Seq(Bytes)) /\ out # <<>> /\ Written(out) = line
    BY DEF HeldInv, Inv, TypeOK
  <2> QED
    BY <2>1, ReadsWritten
<1> QED
  BY <1>1, HeldAlways, PTL

-----------------------------------------------------------------------------
(* What there is apart from spaces. *)

\* What is seen of an element: nothing of a space.
Seen(S) == [x \in S |-> IF x = Space THEN <<>> ELSE <<x>>]

LEMMA SeenType == ASSUME NEW S PROVE Seen(S) \in [S -> Seq(S)]
BY DEF Seen

LEMMA VisibleSpelled ==
    ASSUME NEW S, NEW s \in Seq(S)
    PROVE  Visible(s) = Spelled(s, Seen(S))
<1>1. DOMAIN s = 1..Len(s) /\ \A i \in 1..Len(s) : s[i] \in S
  BY LenProperties, ElementOfSeq
<1>2. [i \in DOMAIN s |-> IF s[i] = Space THEN <<>> ELSE <<s[i]>>] =
          [i \in DOMAIN s |-> Seen(S)[s[i]]]
  BY <1>1 DEF Seen
<1> QED
  BY <1>2 DEF Visible, Spelled

\* What is visible of two parts is visible of the whole.
LEMMA VisibleConcat ==
    ASSUME NEW S, NEW s \in Seq(S), NEW t \in Seq(S)
    PROVE  Visible(s \o t) = Visible(s) \o Visible(t) /\ Visible(s) \in Seq(S)
<1>1. s \o t \in Seq(S)
  BY ConcatProperties
<1>2. Spelled(s \o t, Seen(S)) = Spelled(s, Seen(S)) \o Spelled(t, Seen(S))
  BY SeenType, SpelledConcat
<1>3. Spelled(s, Seen(S)) \in Seq(S)
  BY SeenType, SpelledFacts
<1> QED
  BY <1>1, <1>2, <1>3, VisibleSpelled

LEMMA VisibleAppend ==
    ASSUME NEW S, NEW s \in Seq(S), NEW e \in S
    PROVE  Visible(Append(s, e)) = IF e = Space THEN Visible(s) ELSE Append(Visible(s), e)
<1>1. Append(s, e) \in Seq(S)
  BY AppendProperties
<1>2. Visible(Append(s, e)) = Spelled(s, Seen(S)) \o Seen(S)[e]
  <2>1. PICK m \in [S -> Seq(S)] : m = Seen(S)
    BY SeenType
  <2>2. Spelled(Append(s, e), m) = Spelled(s, m) \o m[e]
    BY SpelledAppend
  <2> QED
    BY <1>1, <2>1, <2>2, VisibleSpelled
<1>3. Visible(s) \in Seq(S) /\ Visible(s) = Spelled(s, Seen(S))
  BY VisibleConcat, VisibleSpelled
<1>4. CASE e = Space
  BY <1>2, <1>3, <1>4, ConcatEmptySeq DEF Seen
<1>5. CASE e # Space
  BY <1>2, <1>3, <1>5, AppendIsConcat DEF Seen
<1> QED
  BY <1>4, <1>5

LEMMA VisibleEmpty == Visible(<<>>) = <<>>
<1>1. <<>> \in Seq({})
  OBVIOUS
<1> QED
  BY <1>1, VisibleSpelled, SpelledEmpty

LEMMA VisibleSpaces ==
    ASSUME NEW k \in Seq({Space})
    PROVE  Visible(k) = <<>>
<1> DEFINE P == {s \in Seq({Space}) : Visible(s) = <<>>}
<1>1. <<>> \in P
  BY VisibleEmpty
<1>2. ASSUME NEW s \in Seq({Space}), NEW e \in {Space}, s \in P
      PROVE  Append(s, e) \in P
  BY <1>2, VisibleAppend, AppendProperties
<1>3. Seq({Space}) \subseteq P
  <2> HIDE DEF P
  <2> QED
    BY <1>1, <1>2, SeqInduct
<1> QED
  BY <1>3

\* No space in it, so nothing that reading could lose.
Spaceless(s) == \A i \in 1..Len(s) : s[i] # Space

LEMMA VisibleSpaceless ==
    ASSUME NEW S, NEW s \in Seq(S), Spaceless(s)
    PROVE  Visible(s) = s
<1> DEFINE T == S \ {Space}
           P == {t \in Seq(T) : Visible(t) = t}
<1>1. <<>> \in P
  BY VisibleEmpty
<1>2. ASSUME NEW t \in Seq(T), NEW e \in T, t \in P
      PROVE  Append(t, e) \in P
  BY <1>2, VisibleAppend, AppendProperties
<1>3. Seq(T) \subseteq P
  <2> HIDE DEF P, T
  <2> QED
    BY <1>1, <1>2, SeqInduct
<1>4. s \in Seq(T)
  <2>1. Len(s) \in Nat /\ s \in [1..Len(s) -> S]
    BY LenProperties
  <2>2. s \in [1..Len(s) -> T]
    BY <2>1 DEF Spaceless
  <2> QED
    BY <2>1, <2>2, SeqDef
<1> QED
  BY <1>3, <1>4

\* Taking spaces out does not change what is visible.
LEMMA TakenVisible ==
    ASSUME NEW p \in Seq(Bytes), NEW q \in Seq(Bytes), NEW k \in Seq({Space})
    PROVE  Visible((p \o k) \o q) = Visible(p \o q)
<1>1. PICK kk \in Seq(Bytes) : kk = k
  BY SpacesType
<1>2. p \o kk \in Seq(Bytes)
  BY ConcatProperties
<1>3. Visible((p \o kk) \o q) = Visible(p \o kk) \o Visible(q)
  BY <1>2, VisibleConcat
<1>4. Visible(p \o kk) = Visible(p) \o Visible(kk) /\ Visible(p) \in Seq(Bytes)
  BY VisibleConcat
<1>5. Visible(kk) = <<>>
  BY <1>1, VisibleSpaces
<1>6. Visible(p \o kk) = Visible(p)
  BY <1>4, <1>5, ConcatEmptySeq
<1>7. Visible(p \o q) = Visible(p) \o Visible(q)
  BY VisibleConcat
<1> QED
  BY <1>1, <1>3, <1>6, <1>7

LEMMA TakenSpaceless ==
    ASSUME NEW p \in Seq(Bytes), NEW q \in Seq(Bytes), NEW k \in Seq({Space}),
           Spaceless((p \o k) \o q)
    PROVE  (p \o k) \o q = p \o q
<1>1. PICK kk \in Seq(Bytes) : kk = k
  BY SpacesType
<1>2. PICK r \in Seq(Bytes) : r = p \o kk
  BY ConcatProperties
<1>3. /\ Len(p) \in Nat /\ Len(q) \in Nat /\ Len(kk) \in Nat
      /\ Len(r) = Len(p) + Len(kk) /\ Len(r \o q) = Len(r) + Len(q)
      /\ \A i \in 1 .. Len(p) + Len(kk) :
            r[i] = IF i <= Len(p) THEN p[i] ELSE kk[i - Len(p)]
      /\ \A i \in 1 .. Len(r) + Len(q) :
            (r \o q)[i] = IF i <= Len(r) THEN r[i] ELSE q[i - Len(r)]
  BY <1>2, ConcatProperties, LenProperties
<1>4. Len(kk) = 0
  <2> SUFFICES ASSUME Len(kk) # 0 PROVE FALSE
    OBVIOUS
  <2>0. /\ Len(p) + 1 \in 1 .. Len(r) + Len(q)
        /\ Len(p) + 1 <= Len(r) /\ Len(p) + 1 \in 1 .. Len(p) + Len(kk)
    BY <1>3
  <2>1. PICK i \in 1 .. Len(r) + Len(q) :
            i = Len(p) + 1 /\ i <= Len(r) /\ i \in 1 .. Len(p) + Len(kk)
    BY <2>0
  <2>2. r[i] = kk[1]
    BY <1>3, <2>1
  <2>3. kk[1] = Space
    BY <1>1, <1>3, ElementOfSeq
  <2> QED
    BY <1>1, <1>2, <1>3, <2>1, <2>2, <2>3 DEF Spaceless
<1>5. kk = <<>>
  BY <1>4, EmptySeq
<1> QED
  BY <1>1, <1>5, ConcatEmptySeq

-----------------------------------------------------------------------------
\* Through every round, what is visible stays.
VisibleInv == HeldInv /\ Visible(Held) = Visible(original.line)

LEMMA VisibleAlways == Spec => []VisibleInv
<1>1. Init => VisibleInv
  BY HeldInit DEF VisibleInv
<1>2. VisibleInv /\ [Next]_vars => VisibleInv'
  <2> SUFFICES ASSUME VisibleInv, [Next]_vars PROVE VisibleInv'
    OBVIOUS
  <2>1. HeldInv' /\ original' = original /\ (Held' = Held \/ SpacesTaken)
    BY HeldStep DEF VisibleInv
  <2>2. CASE Held' = Held
    BY <2>1, <2>2 DEF VisibleInv
  <2>3. CASE SpacesTaken
    <3>1. Visible(Held') = Visible(Held)
      BY <2>3, TakenVisible DEF SpacesTaken
    <3> QED
      BY <2>1, <3>1 DEF VisibleInv
  <2> QED
    BY <2>1, <2>2, <2>3
<1> QED
  BY <1>1, <1>2, PTL DEF Spec

\* A line that is read and written any number of times loses nothing but spaces
\* (ics.go:155-172 trims what icsutil.go:52 and the text itself put in front).
THEOREM NothingButSpacesLost == Spec => []OnlySpacesLost
<1>1. VisibleInv => OnlySpacesLost
  BY DEF VisibleInv, OnlySpacesLost, Held
<1> QED
  BY <1>1, VisibleAlways, PTL

\* A line without spaces is kept to the byte, through every round.
SpacelessKept == Spaceless(original.line) /\ pc # "read" => line = original.line

\* Reading undoes folding for lines without spaces, as UIDs and addresses are:
\* the trimming of ics.go:166 has nothing to take (compare LinePreserved).
THEOREM SpacelessStay == Spec => []SpacelessKept
<1> DEFINE I == HeldInv /\ (Spaceless(original.line) => Held = original.line)
<1>1. Init => I
  BY HeldInit
<1>2. I /\ [Next]_vars => I'
  <2> SUFFICES ASSUME I, [Next]_vars PROVE I'
    OBVIOUS
  <2>1. HeldInv' /\ original' = original /\ (Held' = Held \/ SpacesTaken)
    BY HeldStep
  <2>2. CASE Held' = Held
    BY <2>1, <2>2
  <2>3. CASE SpacesTaken
    <3>1. Spaceless(Held) => Held' = Held
      BY <2>3, TakenSpaceless DEF SpacesTaken
    <3> QED
      BY <2>1, <3>1
  <2> QED
    BY <2>1, <2>2, <2>3
<1>3. I => SpacelessKept
  BY DEF SpacelessKept, Held
<1> QED
  BY <1>1, <1>2, <1>3, PTL DEF Spec

\* A line that needs no folding is kept to the byte, too.
ShortKept ==
    Len(original.line) <= MaxLineLength /\ pc # "read" => line = original.line

\* What LinePreserved suffers from is the fold alone: a line that fits into one
\* physical line is never cut, and nothing is trimmed that was not cut
\* (icsutil.go:39-41, ics.go:155-172).
THEOREM ShortStay == Spec => []ShortKept
<1> DEFINE Short == Len(original.line) <= MaxLineLength
           Uncut == /\ line = original.line
                    /\ pc # "chunk"
                    /\ pc = "stored" => out = <<line>>
                    /\ pc = "read" => out = <<>>
           I == Inv /\ (Short => Uncut)
<1>1. Init => I
  BY InvInit DEF Init
<1>2. I /\ [Next]_vars => I'
  <2> SUFFICES ASSUME I, [Next]_vars, Short' PROVE Uncut'
    BY InvStep
  <2>1. original' = original
    BY DEF Next, FoldShort, FoldFirst, FoldNext, FoldLast, ReadFirst, ReadNext,
           ReadLast, Done, vars
  <2>2. Uncut /\ Len(line) <= MaxLineLength /\ line \in Seq(Bytes)
    BY <2>1 DEF Inv, TypeOK
  <2>3. ~FoldFirst /\ ~FoldNext /\ ~FoldLast /\ ~ReadNext
    <3>1. Len(line) \in Nat /\ MaxLineLength \in Nat /\ ~(Len(line) > MaxLineLength)
      BY <2>2, IcsLineAssumption
    <3>2. pc # "chunk" /\ ~(pc = "read" /\ out # <<>>)
      BY <2>2
    <3> QED
      BY <3>1, <3>2 DEF FoldFirst, FoldNext, FoldLast, ReadNext
  <2>4. CASE FoldShort
    BY <2>1, <2>2, <2>4 DEF FoldShort
  <2>5. CASE ReadFirst
    <3>1. out = <<line>>
      BY <2>2, <2>5 DEF ReadFirst
    <3>2. out[1] = line /\ Tail(out) = <<>>
      BY <3>1
    <3> QED
      BY <2>1, <2>2, <2>5, <3>2 DEF ReadFirst
  <2>6. CASE ReadLast \/ Done \/ UNCHANGED vars
    BY <2>1, <2>2, <2>6 DEF ReadLast, Done, vars
  <2> QED
    BY <2>3, <2>4, <2>5, <2>6 DEF Next
<1>3. I => ShortKept
  BY DEF ShortKept
<1> QED
  BY <1>1, <1>2, <1>3, PTL DEF Spec
=============================================================================
