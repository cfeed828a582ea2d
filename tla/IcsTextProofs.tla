--------------------------- MODULE IcsTextProofs ---------------------------
(***************************************************************************)
(* Proofs about IcsText, for any texts and addresses that are valid UTF-8  *)
(* and any number of rewritings: at every step the line of a text is an    *)
(* escaped text, and the line of a UID has no spaces to lose.              *)
(***************************************************************************)
EXTENDS IcsText, IcsLineProofs

-----------------------------------------------------------------------------
(* EscapeText, whose three passes come to one. *)

\* What ReplaceAll puts for an element.
Replacing(byte, by) == [x \in Glyphs |-> IF x = byte THEN by ELSE <<x>>]

\* What EscapeText comes to for each element (icsutil.go:27-33).
Escape ==
    [x \in Glyphs |->
        IF x = Backslash THEN <<Backslash, Backslash>>
        ELSE IF x = Comma THEN <<Backslash, Comma>>
        ELSE IF x = Newline THEN <<Backslash, Start>>
        ELSE <<x>>]

\* t with every element escaped.
Escaped(t) == Spelled(t, Escape)

LEMMA EscapeType == Escape \in [Glyphs -> Seq(Bytes)]
<1> SUFFICES ASSUME NEW x \in Glyphs PROVE Escape[x] \in Seq(Bytes)
  BY DEF Escape
<1>1. \A y, z \in Bytes : <<y>> \in Seq(Bytes) /\ <<y, z>> \in Seq(Bytes)
  OBVIOUS
<1>2. Backslash \in Bytes /\ Comma \in Bytes /\ Start \in Bytes /\ (x # Newline => x \in Bytes)
  BY DEF Bytes, Glyphs
<1> QED
  BY <1>1, <1>2 DEF Escape

LEMMA GlyphFacts ==
    /\ Bytes \subseteq Glyphs /\ Space \in Bytes /\ Start \in Bytes /\ Comma \in Glyphs
    /\ Backslash \in Glyphs /\ Newline \in Glyphs /\ Start \in Glyphs /\ Space \in Glyphs
    /\ Backslash # Comma /\ Backslash # Newline /\ Backslash # Start /\ Backslash # Space
    /\ Comma # Newline /\ Comma # Start /\ Comma # Space /\ Newline # Start
    /\ Newline # Space /\ Start # Space
BY DEF Glyphs, Bytes, Space, Backslash, Comma, Start, Continuation, Newline

LEMMA Pairs ==
    \A x, y \in Glyphs : /\ <<x>> \in Seq(Glyphs) /\ <<y>> \in Seq(Glyphs)
                         /\ <<x, y>> \in Seq(Glyphs) /\ <<x, y>> = <<x>> \o <<y>>
<1> SUFFICES ASSUME NEW x \in Glyphs, NEW y \in Glyphs
             PROVE  /\ <<x>> \in Seq(Glyphs) /\ <<y>> \in Seq(Glyphs)
                    /\ <<x, y>> \in Seq(Glyphs) /\ <<x, y>> = <<x>> \o <<y>>
  OBVIOUS
<1>1. <<x>> \in Seq(Glyphs) /\ <<y>> \in Seq(Glyphs) /\ <<x, y>> \in Seq(Glyphs)
  OBVIOUS
<1>2. <<x, y>> = Append(<<x>>, y)
  OBVIOUS
<1> QED
  BY <1>1, <1>2, AppendIsConcat

LEMMA ReplacingType ==
    ASSUME NEW byte, NEW by \in Seq(Glyphs)
    PROVE  Replacing(byte, by) \in [Glyphs -> Seq(Glyphs)]
<1>1. \A x \in Glyphs : <<x>> \in Seq(Glyphs)
  BY Pairs
<1> QED
  BY <1>1 DEF Replacing

LEMMA ReplacedSpelled ==
    ASSUME NEW byte, NEW by, NEW t \in Seq(Glyphs)
    PROVE  Replaced(t, byte, by) = Spelled(t, Replacing(byte, by))
<1>1. DOMAIN t = 1..Len(t) /\ \A i \in 1..Len(t) : t[i] \in Glyphs
  BY LenProperties, ElementOfSeq
<1>2. [i \in DOMAIN t |-> IF t[i] = byte THEN by ELSE <<t[i]>>]
          = [i \in DOMAIN t |-> Replacing(byte, by)[t[i]]]
  BY <1>1 DEF Replacing
<1> QED
  BY <1>2 DEF Replaced, Spelled

LEMMA ReplacedType ==
    ASSUME NEW byte, NEW by \in Seq(Glyphs), NEW s \in Seq(Glyphs)
    PROVE  Replaced(s, byte, by) \in Seq(Glyphs)
<1>1. PICK m \in [Glyphs -> Seq(Glyphs)] : m = Replacing(byte, by)
  BY ReplacingType
<1>2. Spelled(s, m) \in Seq(Glyphs)
  BY SpelledFacts
<1> QED
  BY <1>1, <1>2, ReplacedSpelled

LEMMA ReplacedConcat ==
    ASSUME NEW byte, NEW by \in Seq(Glyphs)
    PROVE  \A s, t \in Seq(Glyphs) :
              Replaced(s \o t, byte, by) = Replaced(s, byte, by) \o Replaced(t, byte, by)
<1> SUFFICES ASSUME NEW s \in Seq(Glyphs), NEW t \in Seq(Glyphs)
             PROVE  Replaced(s \o t, byte, by) = Replaced(s, byte, by) \o Replaced(t, byte, by)
  OBVIOUS
<1>1. PICK m \in [Glyphs -> Seq(Glyphs)] : m = Replacing(byte, by)
  BY ReplacingType
<1>2. PICK st \in Seq(Glyphs) : st = s \o t
  BY ConcatProperties
<1>3. Spelled(s \o t, m) = Spelled(s, m) \o Spelled(t, m)
  BY SpelledConcat
<1> QED
  BY <1>1, <1>2, <1>3, ReplacedSpelled

LEMMA ReplacedOne ==
    ASSUME NEW byte, NEW by \in Seq(Glyphs), NEW x \in Glyphs
    PROVE  Replaced(<<x>>, byte, by) = IF x = byte THEN by ELSE <<x>>
<1>1. PICK m \in [Glyphs -> Seq(Glyphs)] : m = Replacing(byte, by)
  BY ReplacingType
<1>2. Spelled(<<x>>, m) = m[x]
  BY SpelledOne
<1>3. Replaced(<<x>>, byte, by) = Spelled(<<x>>, m)
  BY <1>1, ReplacedSpelled, Pairs
<1> QED
  BY <1>1, <1>2, <1>3 DEF Replacing

LEMMA ReplacedTwo ==
    ASSUME NEW byte, NEW by \in Seq(Glyphs), NEW x \in Glyphs, NEW y \in Glyphs,
           x # byte, y # byte
    PROVE  Replaced(<<x, y>>, byte, by) = <<x, y>>
<1>1. PICK s \in Seq(Glyphs), t \in Seq(Glyphs) : s = <<x>> /\ t = <<y>> /\ s \o t = <<x, y>>
  BY Pairs
<1>2. Replaced(s \o t, byte, by) = Replaced(s, byte, by) \o Replaced(t, byte, by)
  BY ReplacedConcat, ReplacedType
<1>3. Replaced(s, byte, by) = s
  BY <1>1, ReplacedOne
<1>4. Replaced(t, byte, by) = t
  BY <1>1, ReplacedOne
<1> QED
  BY <1>1, <1>2, <1>3, <1>4

LEMMA EscapeParts ==
    \E bb, bc, bs \in Seq(Glyphs) :
        /\ bb = <<Backslash, Backslash>> /\ bc = <<Backslash, Comma>>
        /\ bs = <<Backslash, Start>>
        /\ \A s : EscapeText(s) =
                     Replaced(Replaced(Replaced(s, Backslash, bb), Comma, bc), Newline, bs)
<1>1. /\ <<Backslash, Backslash>> \in Seq(Glyphs) /\ <<Backslash, Comma>> \in Seq(Glyphs)
      /\ <<Backslash, Start>> \in Seq(Glyphs)
  BY GlyphFacts, Pairs
<1> QED
  BY <1>1 DEF EscapeText

\* No pass of EscapeText touches what an earlier one put in: the backslash goes
\* first (icsutil.go:28-31).
LEMMA EscapeOne ==
    ASSUME NEW x \in Glyphs
    PROVE  EscapeText(<<x>>) = Escape[x]
<1>1. PICK bb \in Seq(Glyphs), bc \in Seq(Glyphs), bs \in Seq(Glyphs) :
        /\ bb = <<Backslash, Backslash>> /\ bc = <<Backslash, Comma>>
        /\ bs = <<Backslash, Start>>
        /\ \A s : EscapeText(s) =
                     Replaced(Replaced(Replaced(s, Backslash, bb), Comma, bc), Newline, bs)
  BY EscapeParts
<1>2. EscapeText(<<x>>) =
          Replaced(Replaced(Replaced(<<x>>, Backslash, bb), Comma, bc), Newline, bs)
  BY <1>1
<1>3. CASE x = Backslash
  <2>1. Replaced(<<x>>, Backslash, bb) = <<Backslash, Backslash>>
    BY <1>1, <1>3, ReplacedOne
  <2>2. Replaced(<<Backslash, Backslash>>, Comma, bc) = <<Backslash, Backslash>>
    BY GlyphFacts, ReplacedTwo
  <2>3. Replaced(<<Backslash, Backslash>>, Newline, bs) = <<Backslash, Backslash>>
    BY GlyphFacts, ReplacedTwo
  <2> QED
    BY <1>2, <1>3, <2>1, <2>2, <2>3 DEF Escape
<1>4. CASE x = Comma
  <2>1. Replaced(<<x>>, Backslash, bb) = <<x>>
    BY <1>4, GlyphFacts, ReplacedOne
  <2>2. Replaced(<<x>>, Comma, bc) = <<Backslash, Comma>>
    BY <1>1, <1>4, ReplacedOne
  <2>3. Replaced(<<Backslash, Comma>>, Newline, bs) = <<Backslash, Comma>>
    BY GlyphFacts, ReplacedTwo
  <2> QED
    BY <1>2, <1>4, <2>1, <2>2, <2>3, GlyphFacts DEF Escape
<1>5. CASE x = Newline
  <2>1. Replaced(<<x>>, Backslash, bb) = <<x>>
    BY <1>5, GlyphFacts, ReplacedOne
  <2>2. Replaced(<<x>>, Comma, bc) = <<x>>
    BY <1>5, GlyphFacts, ReplacedOne
  <2>3. Replaced(<<x>>, Newline, bs) = <<Backslash, Start>>
    BY <1>1, <1>5, ReplacedOne
  <2> QED
    BY <1>2, <1>5, <2>1, <2>2, <2>3, GlyphFacts DEF Escape
<1>6. CASE x \notin {Backslash, Comma, Newline}
  <2>1. Replaced(<<x>>, Backslash, bb) = <<x>>
    BY <1>6, ReplacedOne
  <2>2. Replaced(<<x>>, Comma, bc) = <<x>>
    BY <1>6, ReplacedOne
  <2>3. Replaced(<<x>>, Newline, bs) = <<x>>
    BY <1>6, ReplacedOne
  <2> QED
    BY <1>2, <1>6, <2>1, <2>2, <2>3 DEF Escape
<1> QED
  BY <1>3, <1>4, <1>5, <1>6

\* Two parts of a text are escaped one after the other.
LEMMA EscapeConcat ==
    ASSUME NEW s, NEW t, s \in Seq(Glyphs), t \in Seq(Glyphs)
    PROVE  EscapeText(s \o t) = EscapeText(s) \o EscapeText(t)
<1>1. PICK bb, bc, bs :
        /\ bb \in Seq(Glyphs) /\ bc \in Seq(Glyphs) /\ bs \in Seq(Glyphs)
        /\ \A r : EscapeText(r) =
                     Replaced(Replaced(Replaced(r, Backslash, bb), Comma, bc), Newline, bs)
  BY EscapeParts
<1>2. bb \in Seq(Glyphs)
  BY <1>1
<1>3. bc \in Seq(Glyphs)
  BY <1>1
<1>4. bs \in Seq(Glyphs)
  BY <1>1
<1> DEFINE s1 == Replaced(s, Backslash, bb)  t1 == Replaced(t, Backslash, bb)
           s2 == Replaced(s1, Comma, bc)     t2 == Replaced(t1, Comma, bc)
           s3 == Replaced(s2, Newline, bs)   t3 == Replaced(t2, Newline, bs)
<1>5. s1 \in Seq(Glyphs) /\ t1 \in Seq(Glyphs) /\ Replaced(s \o t, Backslash, bb) = s1 \o t1
  BY <1>2, ReplacedType, ReplacedConcat
<1> HIDE DEF s1, t1
<1>6. s2 \in Seq(Glyphs) /\ t2 \in Seq(Glyphs) /\ Replaced(s1 \o t1, Comma, bc) = s2 \o t2
  <2>1. s1 \in Seq(Glyphs) /\ t1 \in Seq(Glyphs)
    BY <1>5
  <2>2. s2 \in Seq(Glyphs) /\ t2 \in Seq(Glyphs)
    BY <1>3, <2>1, ReplacedType
  <2>3. Replaced(s1 \o t1, Comma, bc) = s2 \o t2
    BY <1>3, <2>1, ReplacedConcat
  <2> QED
    BY <2>2, <2>3
<1> HIDE DEF s2, t2
<1>7. Replaced(s2 \o t2, Newline, bs) = s3 \o t3
  <2>1. s2 \in Seq(Glyphs) /\ t2 \in Seq(Glyphs)
    BY <1>6
  <2> QED
    BY <1>4, <2>1, ReplacedConcat
<1> QED
  BY <1>1, <1>5, <1>6, <1>7 DEF s1, t1, s2, t2

LEMMA EscapeEmpty == EscapeText(<<>>) = <<>>
<1>1. ASSUME NEW byte, NEW by PROVE Replaced(<<>>, byte, by) = <<>>
  <2>1. [i \in DOMAIN <<>> |-> IF <<>>[i] = byte THEN by ELSE <<<<>>[i]>>] = <<>>
    OBVIOUS
  <2> QED
    BY <2>1, FlattenEmpty DEF Replaced
<1> QED
  BY <1>1 DEF EscapeText

\* EscapeText is Escape, element by element.
LEMMA EscapeSpelled ==
    ASSUME NEW t \in Seq(Glyphs)
    PROVE  EscapeText(t) = Escaped(t) /\ Escaped(t) \in Seq(Bytes)
<1> DEFINE P == {s \in Seq(Glyphs) : EscapeText(s) = Escaped(s)}
<1>1. <<>> \in P
  BY EscapeEmpty, SpelledEmpty DEF Escaped
<1>2. ASSUME NEW s \in Seq(Glyphs), NEW e \in Glyphs, s \in P PROVE Append(s, e) \in P
  <2>1. Append(s, e) = s \o <<e>> /\ <<e>> \in Seq(Glyphs) /\ Append(s, e) \in Seq(Glyphs)
    BY AppendIsConcat, AppendProperties
  <2>2. EscapeText(s \o <<e>>) = EscapeText(s) \o Escape[e]
    BY <2>1, EscapeConcat, EscapeOne
  <2>3. Escaped(Append(s, e)) = Escaped(s) \o Escape[e]
    BY EscapeType, SpelledAppend DEF Escaped
  <2> QED
    BY <1>2, <2>1, <2>2, <2>3
<1>3. Seq(Glyphs) \subseteq P
  <2> HIDE DEF P
  <2> QED
    BY <1>1, <1>2, SeqInduct
<1>4. Escaped(t) \in Seq(Bytes)
  BY EscapeType, SpelledFacts DEF Escaped
<1> QED
  BY <1>3, <1>4

-----------------------------------------------------------------------------
(* Unescape, byte by byte. *)

\* What Reading computes: f[i] is what is read of the first i bytes.
Reads(f, s, n) ==
    f = [i \in 0..n |-> IF i = 0 THEN NothingRead ELSE ReadByte(f[i - 1], s[i])]

LEMMA ReadsExists ==
    ASSUME NEW s, NEW n \in Nat
    PROVE  \E f : Reads(f, s, n)
<1> DEFINE P == {k \in Nat : \E f : Reads(f, s, k)}
<1>1. 0 \in P
  <2>1. Reads([i \in 0..0 |-> NothingRead], s, 0)
    BY DEF Reads
  <2> QED
    BY <2>1
<1>2. ASSUME NEW k \in Nat, k \in P PROVE k + 1 \in P
  <2>1. PICK f : Reads(f, s, k)
    BY <1>2
  <2> DEFINE g == [i \in 0..k+1 |-> IF i <= k THEN f[i] ELSE ReadByte(f[i - 1], s[i])]
  <2>2. ASSUME NEW i \in 0..k+1
        PROVE  g[i] = IF i = 0 THEN NothingRead ELSE ReadByte(g[i - 1], s[i])
    <3>1. i # 0 => i - 1 \in 0..k+1 /\ i - 1 <= k /\ g[i - 1] = f[i - 1]
      OBVIOUS
    <3>2. CASE i <= k
      <4>1. i \in 0..k
        BY <3>2
      <4>2. f[i] = IF i = 0 THEN NothingRead ELSE ReadByte(f[i - 1], s[i])
        BY <2>1, <4>1 DEF Reads
      <4> QED
        BY <3>1, <3>2, <4>2
    <3>3. CASE ~(i <= k)
      BY <3>1, <3>3
    <3> QED
      BY <3>2, <3>3
  <2>3. Reads(g, s, k + 1)
    BY <2>2 DEF Reads
  <2> HIDE DEF g
  <2> QED
    BY <2>3
<1> HIDE DEF P
<1>3. Nat \subseteq P
  BY <1>1, <1>2, NatInduct
<1> QED
  BY <1>3 DEF P

\* There is one such function, and it looks at the bytes up to i only.
LEMMA ReadsUnique ==
    ASSUME NEW s, NEW t, NEW f, NEW g, NEW m \in Nat, NEW n \in Nat,
           Reads(f, s, m), Reads(g, t, n), m <= n, \A i \in 1..m : s[i] = t[i]
    PROVE  \A i \in 0..m : f[i] = g[i]
<1> DEFINE P == {k \in Nat : k <= m => f[k] = g[k]}
<1>1. 0 \in P
  BY DEF Reads
<1>2. ASSUME NEW k \in Nat, k \in P PROVE k + 1 \in P
  <2> SUFFICES ASSUME k + 1 <= m PROVE f[k + 1] = g[k + 1]
    OBVIOUS
  <2>1. f[k] = g[k]
    BY <1>2
  <2>2. PICK i \in 1..m : i = k + 1 /\ i # 0 /\ i - 1 = k /\ i \in 0..m /\ i \in 0..n
    OBVIOUS
  <2>3. f[i] = ReadByte(f[i - 1], s[i]) /\ g[i] = ReadByte(g[i - 1], t[i])
    BY <2>2 DEF Reads
  <2> QED
    BY <2>1, <2>2, <2>3
<1>3. Nat \subseteq P
  <2> HIDE DEF P
  <2> QED
    BY <1>1, <1>2, NatInduct
<1> QED
  BY <1>3

LEMMA ReadingIs ==
    ASSUME NEW s, NEW n \in Nat, Len(s) = n
    PROVE  \E f : Reads(f, s, n) /\ Reading(s) = f[n]
<1>1. \E f : f = [i \in 0..n |-> IF i = 0 THEN NothingRead ELSE ReadByte(f[i - 1], s[i])]
  BY ReadsExists DEF Reads
<1> DEFINE f == CHOOSE f : f = [i \in 0..n |->
                                   IF i = 0 THEN NothingRead ELSE ReadByte(f[i - 1], s[i])]
<1>2. f = [i \in 0..n |-> IF i = 0 THEN NothingRead ELSE ReadByte(f[i - 1], s[i])]
  BY <1>1
<1>3. Reading(s) = f[n]
  BY DEF Reading
<1> HIDE DEF f
<1> QED
  BY <1>2, <1>3 DEF Reads

LEMMA ReadingEmpty == Reading(<<>>) = NothingRead
<1>1. PICK f : Reads(f, <<>>, 0) /\ Reading(<<>>) = f[0]
  BY ReadingIs
<1> QED
  BY <1>1 DEF Reads

\* One more byte is one more step of the reader.
LEMMA ReadingAppend ==
    ASSUME NEW s \in Seq(Bytes), NEW e \in Bytes
    PROVE  Reading(Append(s, e)) = ReadByte(Reading(s), e)
<1>1. PICK n \in Nat : n = Len(s)
  BY LenProperties
<1>2. PICK r : r = Append(s, e)
  OBVIOUS
<1>3. Len(r) = n + 1 /\ r[n + 1] = e /\ \A i \in 1..n : r[i] = s[i]
  BY <1>1, <1>2, AppendProperties
<1>4. PICK f : Reads(f, s, n) /\ Reading(s) = f[n]
  BY <1>1, ReadingIs
<1>5. PICK g : Reads(g, r, n + 1) /\ Reading(r) = g[n + 1]
  BY <1>3, ReadingIs
<1>6. f[n] = g[n]
  <2>1. PICK n1 \in Nat : n1 = n + 1 /\ n <= n1
    OBVIOUS
  <2>2. Reads(g, r, n1) /\ \A i \in 1..n : s[i] = r[i]
    BY <1>3, <1>5, <2>1
  <2> HIDE DEF Reads
  <2> QED
    BY <1>4, <2>1, <2>2, ReadsUnique
<1>7. g[n + 1] = ReadByte(g[n], r[n + 1])
  <2>1. n + 1 \in 0..n+1 /\ n + 1 # 0 /\ (n + 1) - 1 = n
    OBVIOUS
  <2> QED
    BY <1>5, <2>1 DEF Reads
<1> QED
  BY <1>2, <1>3, <1>4, <1>5, <1>6, <1>7

\* A client reads of the escaped text the text.
LEMMA ReadingEscaped ==
    ASSUME NEW t \in Seq(Glyphs)
    PROVE  Reading(Escaped(t)) = [text |-> t, escaped |-> FALSE]
<1> DEFINE P == {s \in Seq(Glyphs) : Reading(Escaped(s)) = [text |-> s, escaped |-> FALSE]}
<1>1. <<>> \in P
  BY SpelledEmpty, ReadingEmpty DEF Escaped, NothingRead
<1>2. ASSUME NEW s \in Seq(Glyphs), NEW e \in Glyphs, s \in P PROVE Append(s, e) \in P
  <2>1. PICK w \in Seq(Bytes) : w = Escaped(s)
    BY EscapeSpelled
  <2>2. Escaped(Append(s, e)) = w \o Escape[e]
    BY <2>1, EscapeType, SpelledAppend DEF Escaped
  <2>3. Reading(w) = [text |-> s, escaped |-> FALSE]
    BY <1>2, <2>1
  <2>4. ASSUME NEW x \in Bytes, Escape[e] = <<x>>, x = e, x # Backslash
        PROVE  Reading(w \o Escape[e]) = [text |-> Append(s, e), escaped |-> FALSE]
    <3>1. w \o <<x>> = Append(w, x)
      BY AppendIsConcat
    <3>2. Reading(Append(w, x)) = ReadByte([text |-> s, escaped |-> FALSE], x)
      BY <2>3, ReadingAppend
    <3>3. ReadByte([text |-> s, escaped |-> FALSE], x) = [text |-> Append(s, e), escaped |-> FALSE]
      BY <2>4 DEF ReadByte
    <3> QED
      BY <2>4, <3>1, <3>2, <3>3
  <2>5. ASSUME NEW x \in Bytes, Escape[e] = <<Backslash, x>>,
               e = IF x = Start THEN Newline ELSE x
        PROVE  Reading(w \o Escape[e]) = [text |-> Append(s, e), escaped |-> FALSE]
    <3>1. PICK v \in Seq(Bytes) : v = Append(w, Backslash)
      BY AppendProperties DEF Bytes
    <3>2. w \o <<Backslash, x>> = Append(v, x)
      <4>1. <<Backslash>> \in Seq(Bytes) /\ <<x>> \in Seq(Bytes)
            /\ <<Backslash, x>> = <<Backslash>> \o <<x>> /\ Backslash \in Bytes
        BY DEF Bytes
      <4>2. w \o (<<Backslash>> \o <<x>>) = (w \o <<Backslash>>) \o <<x>>
        BY <4>1, ByteConcat
      <4>3. w \o <<Backslash>> = v
        BY <3>1, <4>1, AppendIsConcat
      <4>4. v \o <<x>> = Append(v, x)
        BY AppendIsConcat
      <4> QED
        BY <4>1, <4>2, <4>3, <4>4
    <3>3. Reading(v) = [text |-> s, escaped |-> TRUE]
      <4>1. Reading(v) = ReadByte([text |-> s, escaped |-> FALSE], Backslash)
        BY <2>3, <3>1, ReadingAppend DEF Bytes
      <4> QED
        BY <4>1 DEF ReadByte
    <3>4. Reading(Append(v, x)) = ReadByte([text |-> s, escaped |-> TRUE], x)
      BY <3>3, ReadingAppend
    <3>5. ReadByte([text |-> s, escaped |-> TRUE], x) = [text |-> Append(s, e), escaped |-> FALSE]
      BY <2>5 DEF ReadByte
    <3> QED
      BY <2>5, <3>2, <3>4, <3>5
  <2>6. Reading(Escaped(Append(s, e))) = [text |-> Append(s, e), escaped |-> FALSE]
    <3>1. CASE e = Backslash
      BY <2>2, <2>5, <3>1, GlyphFacts DEF Escape, Bytes
    <3>2. CASE e = Comma
      BY <2>2, <2>5, <3>2, GlyphFacts DEF Escape, Bytes
    <3>3. CASE e = Newline
      BY <2>2, <2>5, <3>3, GlyphFacts DEF Escape, Bytes
    <3>4. CASE e \notin {Backslash, Comma, Newline}
      <4>1. e \in Bytes /\ Escape[e] = <<e>>
        BY <3>4 DEF Escape, Glyphs
      <4> QED
        BY <2>2, <2>4, <3>4, <4>1
    <3> QED
      BY <3>1, <3>2, <3>3, <3>4
  <2> QED
    BY <2>6, AppendProperties
<1>3. Seq(Glyphs) \subseteq P
  <2> HIDE DEF P
  <2> QED
    BY <1>1, <1>2, SeqInduct
<1> QED
  BY <1>3

-----------------------------------------------------------------------------
(* A space in an escaped text is a space of the text. *)

LEMMA SpaceSeq ==
    <<Space>> \in Seq(Bytes) /\ <<Space>> \in Seq(Glyphs) /\ Len(<<Space>>) = 1 /\ <<Space>>[1] = Space
<1>1. Space \in Bytes /\ Space \in Glyphs
  BY GlyphFacts
<1> QED
  BY <1>1

LEMMA AppendToParts ==
    ASSUME NEW S, NEW s \in Seq(S), NEW t \in Seq(S), NEW e \in S
    PROVE  \E r \in Seq(S) : Append(s \o t, e) = s \o r
<1>1. <<e>> \in Seq(S)
  OBVIOUS
<1>2. (s \o t) \o <<e>> = s \o (t \o <<e>>)
  BY <1>1, ConcatAssociative
<1>3. s \o t \in Seq(S) /\ t \o <<e>> \in Seq(S)
  BY <1>1, ConcatProperties
<1>4. Append(s \o t, e) = (s \o t) \o <<e>>
  BY <1>3, AppendIsConcat
<1> QED
  BY <1>2, <1>3, <1>4

LEMMA AppendAfterSpace ==
    ASSUME NEW u \in Seq(Glyphs), NEW v \in Seq(Glyphs), NEW e \in Glyphs
    PROVE  \E r \in Seq(Glyphs) : Append((u \o <<Space>>) \o v, e) = (u \o <<Space>>) \o r
<1>1. u \o <<Space>> \in Seq(Glyphs)
  BY SpaceSeq, ConcatProperties
<1> QED
  BY <1>1, AppendToParts

LEMMA EscapedAppend ==
    ASSUME NEW t \in Seq(Glyphs), NEW e \in Glyphs
    PROVE  Escaped(Append(t, e)) = Escaped(t) \o Escape[e]
BY EscapeType, SpelledAppend DEF Escaped

LEMMA EscapedConcat ==
    ASSUME NEW s \in Seq(Glyphs), NEW t \in Seq(Glyphs)
    PROVE  Escaped(s \o t) = Escaped(s) \o Escaped(t)
<1>1. PICK m \in [Glyphs -> Seq(Bytes)] : m = Escape
  BY EscapeType
<1>2. Spelled(s \o t, m) = Spelled(s, m) \o Spelled(t, m)
  BY SpelledConcat
<1> QED
  BY <1>1, <1>2 DEF Escaped

\* The escapes themselves are no spaces.
LEMMA EscapeSpace ==
    ASSUME NEW x \in Glyphs
    PROVE  /\ Len(Escape[x]) \in {1, 2}
           /\ x # Space => \A i \in 1..Len(Escape[x]) : Escape[x][i] # Space
           /\ x = Space => Escape[x] = <<Space>>
BY GlyphFacts DEF Escape

\* A space in the escaped text stands for a space of the text.
LEMMA EscapedSpace ==
    ASSUME NEW t \in Seq(Glyphs), NEW i \in 1..Len(Escaped(t)), Escaped(t)[i] = Space
    PROVE  \E u, v \in Seq(Glyphs) :
              /\ t = (u \o <<Space>>) \o v
              /\ Len(Escaped(u)) = i - 1
<1> DEFINE P == {s \in Seq(Glyphs) :
                    \A j \in 1..Len(Escaped(s)) : Escaped(s)[j] = Space =>
                        \E u, v \in Seq(Glyphs) :
                            s = (u \o <<Space>>) \o v /\ Len(Escaped(u)) = j - 1}
<1>1. <<>> \in P
  <2>1. Escaped(<<>>) = <<>> /\ Len(<<>>) = 0
    BY SpelledEmpty DEF Escaped
  <2> QED
    BY <2>1
<1>2. ASSUME NEW s \in Seq(Glyphs), NEW e \in Glyphs, s \in P PROVE Append(s, e) \in P
  <2>0. Append(s, e) \in Seq(Glyphs)
    BY AppendProperties
  <2> SUFFICES ASSUME NEW j \in 1..Len(Escaped(Append(s, e))), Escaped(Append(s, e))[j] = Space
               PROVE  \E u, v \in Seq(Glyphs) :
                          Append(s, e) = (u \o <<Space>>) \o v /\ Len(Escaped(u)) = j - 1
    BY <2>0
  <2>1. PICK w \in Seq(Bytes) : w = Escaped(s)
    BY EscapeSpelled
  <2>2. PICK x \in Seq(Bytes) : x = Escape[e]
    BY EscapeType
  <2>3. PICK r : r = Escaped(Append(s, e))
    OBVIOUS
  <2>4. /\ Len(w) \in Nat /\ Len(x) \in Nat /\ Len(r) = Len(w) + Len(x)
        /\ \A k \in 1 .. Len(w) + Len(x) :
              r[k] = IF k <= Len(w) THEN w[k] ELSE x[k - Len(w)]
    <3>1. r = w \o x
      BY <2>1, <2>2, <2>3, EscapedAppend
    <3> QED
      BY <3>1, ConcatProperties, LenProperties
  <2>5. j \in 1 .. Len(w) + Len(x) /\ r[j] = Space
    BY <2>3, <2>4
  <2>6. Append(s, e) = s \o <<e>> /\ <<e>> \in Seq(Glyphs)
    BY AppendIsConcat
  <2>7. CASE j <= Len(w)
    <3>1. j \in 1..Len(w) /\ w[j] = Space
      BY <2>4, <2>5, <2>7
    <3>2. PICK u \in Seq(Glyphs), v \in Seq(Glyphs) :
              s = (u \o <<Space>>) \o v /\ Len(Escaped(u)) = j - 1
      BY <1>2, <2>1, <3>1
    <3>3. PICK r1 \in Seq(Glyphs) : Append((u \o <<Space>>) \o v, e) = (u \o <<Space>>) \o r1
      BY AppendAfterSpace, Zenon
    <3> QED
      BY <3>2, <3>3
  <2>8. CASE ~(j <= Len(w))
    <3>1. j - Len(w) \in 1..Len(x) /\ x[j - Len(w)] = Space
      BY <2>4, <2>5, <2>8
    <3>2. e = Space
      BY <2>2, <3>1, EscapeSpace
    <3>3. Len(x) = 1
      BY <2>2, <3>2, EscapeSpace
    <3>4. j - 1 = Len(w)
      BY <2>4, <3>1, <3>3
    <3>5. Append(s, e) = (s \o <<Space>>) \o <<>> /\ <<>> \in Seq(Glyphs)
      <4>1. s \o <<Space>> \in Seq(Glyphs)
        BY <2>0, <2>6, <3>2
      <4> QED
        BY <2>6, <3>2, <4>1, ConcatEmptySeq
    <3> QED
      BY <2>1, <3>4, <3>5
  <2> QED
    BY <2>7, <2>8
<1>3. Seq(Glyphs) \subseteq P
  <2> HIDE DEF P
  <2> QED
    BY <1>1, <1>2, SeqInduct
<1> QED
  BY <1>3

\* A sequence can be put together in one way only of parts of given lengths.
LEMMA SameParts ==
    ASSUME NEW s \in Seq(Bytes), NEW t \in Seq(Bytes), NEW u \in Seq(Bytes), NEW v \in Seq(Bytes),
           s \o t = u \o v, Len(s) = Len(u)
    PROVE  s = u /\ t = v
<1>1. PICK n \in Nat : n = Len(s) /\ n = Len(u)
  BY LenProperties
<1>2. ASSUME NEW i \in 1..Len(s) PROVE s[i] = u[i]
  <2>1. Len(t) \in Nat /\ Len(v) \in Nat
    BY LenProperties
  <2>2. (s \o t)[i] = s[i]
    BY <1>1, <2>1, ConcatProperties
  <2>3. (u \o v)[i] = u[i]
    BY <1>1, <2>1, ConcatProperties
  <2> QED
    BY <2>2, <2>3
<1>3. s = u
  BY <1>2, SeqEqual
<1>4. t = v
  BY <1>3, ConcatSimplifications
<1> QED
  BY <1>3, <1>4

LEMMA ByteJoin ==
    ASSUME NEW s \in Seq(Bytes), NEW t \in Seq(Bytes)
    PROVE  s \o t \in Seq(Bytes) /\ Len(s \o t) = Len(s) + Len(t)
BY ConcatProperties

LEMMA SameAround ==
    ASSUME NEW s \in Seq(Bytes), NEW t \in Seq(Bytes), NEW u \in Seq(Bytes),
           NEW v \in Seq(Bytes), NEW m \in Seq(Bytes),
           (s \o m) \o t = (u \o m) \o v, Len(s) = Len(u)
    PROVE  s = u /\ t = v
<1>1. PICK a \in Seq(Bytes) : a = s \o m /\ Len(a) = Len(s) + Len(m)
  BY ByteJoin
<1>2. PICK c \in Seq(Bytes) : c = u \o m /\ Len(c) = Len(u) + Len(m)
  BY ByteJoin
<1>3. a \o t = c \o v /\ Len(a) = Len(c)
  BY <1>1, <1>2
<1>4. a = c /\ t = v
  BY <1>3, SameParts
<1>5. s \o m = u \o m /\ Len(s) = Len(u)
  BY <1>1, <1>2, <1>4
<1>6. s = u
  BY <1>5, SameParts
<1> QED
  BY <1>4, <1>6

\* What starts with the name of its property, which no trimming reaches.
Lead(t) == t # <<>> /\ t[1] = Start

\* Without that space it is still an escaped text.
LEMMA EscapedCut ==
    ASSUME NEW t \in Seq(Glyphs), Lead(t), NEW p \in Seq(Bytes), NEW q \in Seq(Bytes),
           Escaped(t) = (p \o <<Space>>) \o q
    PROVE  \E w \in Seq(Glyphs) :
              Lead(w) /\ Escaped(w) = p \o q /\ Visible(w) = Visible(t)
<1>1. PICK sp \in Seq(Bytes) : sp = <<Space>> /\ Len(sp) = 1 /\ sp[1] = Space /\ sp \in Seq(Glyphs)
  BY SpaceSeq
<1>2. PICK ps \in Seq(Bytes) : ps = p \o sp
  BY ConcatProperties
<1>3. /\ Len(p) \in Nat /\ Len(q) \in Nat /\ Len(ps) = Len(p) + 1 /\ ps[Len(p) + 1] = Space
      /\ Len(ps \o q) = Len(p) + 1 + Len(q) /\ (ps \o q)[Len(p) + 1] = Space
  <2>1. Len(p) \in Nat /\ Len(q) \in Nat
    BY LenProperties
  <2>2. /\ Len(ps) = Len(p) + Len(sp)
        /\ \A i \in 1 .. Len(p) + Len(sp) : ps[i] = IF i <= Len(p) THEN p[i] ELSE sp[i - Len(p)]
    BY <1>2, ConcatProperties
  <2>3. /\ Len(ps \o q) = Len(ps) + Len(q)
        /\ \A i \in 1 .. Len(ps) + Len(q) : (ps \o q)[i] = IF i <= Len(ps) THEN ps[i] ELSE q[i - Len(ps)]
    BY ConcatProperties
  <2>4. Len(p) + 1 \in 1 .. Len(p) + Len(sp) /\ ~(Len(p) + 1 <= Len(p)) /\ (Len(p) + 1) - Len(p) = 1
    BY <1>1, <2>1
  <2>5. ps[Len(p) + 1] = Space
    BY <1>1, <2>2, <2>4
  <2>6. Len(p) + 1 \in 1 .. Len(ps) + Len(q) /\ Len(p) + 1 <= Len(ps)
    BY <1>1, <2>1, <2>2
  <2> QED
    BY <1>1, <2>1, <2>2, <2>3, <2>5, <2>6
<1>4. PICK i \in 1..Len(Escaped(t)) : i = Len(p) + 1 /\ Escaped(t)[i] = Space
  <2>1. Len(p) + 1 \in 1..Len(Escaped(t))
    BY <1>1, <1>2, <1>3
  <2> QED
    BY <1>1, <1>2, <1>3, <2>1
<1>5. PICK u \in Seq(Glyphs), v \in Seq(Glyphs) :
          t = (u \o <<Space>>) \o v /\ Len(Escaped(u)) = i - 1
  BY <1>4, EscapedSpace
<1>6. PICK eu \in Seq(Bytes), ev \in Seq(Bytes) : eu = Escaped(u) /\ ev = Escaped(v)
  BY EscapeSpelled
<1>7. PICK us \in Seq(Glyphs) : us = u \o sp
  BY <1>1, ConcatProperties
<1>8. Escaped(t) = (eu \o sp) \o ev
  <2>1. Escaped(us \o v) = Escaped(us) \o Escaped(v)
    BY EscapedConcat
  <2>2. Escaped(u \o sp) = Escaped(u) \o Escaped(sp)
    BY <1>1, EscapedConcat
  <2>3. Escaped(sp) = sp
    <3>1. Space \in Glyphs
      BY GlyphFacts
    <3>2. Spelled(<<Space>>, Escape) = Escape[Space]
      BY <3>1, EscapeType, SpelledOne
    <3> QED
      BY <1>1, <3>1, <3>2, EscapeSpace DEF Escaped
  <2> QED
    BY <1>1, <1>5, <1>6, <1>7, <2>1, <2>2, <2>3
<1>9. eu = p /\ ev = q
  <2>1. (eu \o sp) \o ev = (p \o sp) \o q
    BY <1>1, <1>8
  <2>2. Len(eu) = Len(p)
    BY <1>3, <1>4, <1>5, <1>6
  <2> QED
    BY <2>1, <2>2, SameAround
<1>10. PICK w \in Seq(Glyphs) : w = u \o v
  BY ConcatProperties
<1>11. Escaped(w) = p \o q
  <2>1. Escaped(u \o v) = Escaped(u) \o Escaped(v)
    BY EscapedConcat
  <2> QED
    BY <1>6, <1>9, <1>10, <2>1
<1>12. Visible(w) = Visible(t)
  <2>1. Visible(us \o v) = Visible(us) \o Visible(v) /\ Visible(u \o v) = Visible(u) \o Visible(v)
        /\ Visible(u) \in Seq(Glyphs)
    BY VisibleConcat
  <2>2. Visible(us) = Visible(u)
    <3>1. us = Append(u, Space) /\ Space \in Glyphs
      BY <1>1, <1>7, GlyphFacts, AppendIsConcat
    <3> QED
      BY <3>1, VisibleAppend
  <2> QED
    BY <1>1, <1>5, <1>7, <1>10, <2>1, <2>2
<1>13. Lead(w)
  <2>1. /\ Len(u) \in Nat /\ Len(v) \in Nat
        /\ Len(us) = Len(u) + 1
        /\ \A j \in 1 .. Len(u) + 1 : us[j] = IF j <= Len(u) THEN u[j] ELSE sp[j - Len(u)]
    BY <1>1, <1>7, ConcatProperties, LenProperties
  <2>2. \A j \in 1 .. Len(us) + Len(v) : (us \o v)[j] = IF j <= Len(us) THEN us[j] ELSE v[j - Len(us)]
    BY ConcatProperties
  <2>3. 1 \in 1 .. Len(us) + Len(v) /\ 1 <= Len(us) /\ 1 \in 1 .. Len(u) + 1
    BY <2>1
  <2>4. t[1] = us[1]
    BY <1>1, <1>5, <1>7, <2>2, <2>3
  <2>5. Len(u) # 0
    <3>1. ASSUME Len(u) = 0 PROVE FALSE
      <4>1. us[1] = Space
        BY <1>1, <2>1, <2>3, <3>1
      <4> QED
        BY <2>4, <4>1, GlyphFacts DEF Lead
    <3> QED
      BY <3>1
  <2>6. u[1] = Start
    <3>1. us[1] = u[1]
      BY <2>1, <2>3, <2>5
    <3> QED
      BY <2>4, <3>1 DEF Lead
  <2>7. /\ Len(w) = Len(u) + Len(v)
        /\ \A j \in 1 .. Len(u) + Len(v) : w[j] = IF j <= Len(u) THEN u[j] ELSE v[j - Len(u)]
    BY <1>10, ConcatProperties
  <2>8. w[1] = u[1] /\ Len(w) # 0
    BY <2>1, <2>5, <2>7
  <2> QED
    BY <2>6, <2>8, EmptySeq DEF Lead
<1> QED
  BY <1>11, <1>12, <1>13

\* Nor do several spaces make a difference: what is left is an escaped text.
LEMMA TakenEscaped ==
    ASSUME NEW t \in Seq(Glyphs), Lead(t), NEW p \in Seq(Bytes), NEW q \in Seq(Bytes),
           NEW k \in Seq({Space}), Escaped(t) = (p \o k) \o q
    PROVE  \E w \in Seq(Glyphs) :
              Lead(w) /\ Escaped(w) = p \o q /\ Visible(w) = Visible(t)
<1> DEFINE P == {n \in Seq({Space}) : \A s \in Seq(Glyphs) :
                    Lead(s) /\ Escaped(s) = (p \o n) \o q =>
                        \E w \in Seq(Glyphs) :
                            Lead(w) /\ Escaped(w) = p \o q /\ Visible(w) = Visible(s)}
<1>1. <<>> \in P
  <2>1. p \o <<>> = p
    BY ConcatEmptySeq
  <2>2. ASSUME NEW s \in Seq(Glyphs), Lead(s), Escaped(s) = (p \o <<>>) \o q
        PROVE  \E w \in Seq(Glyphs) :
                  Lead(w) /\ Escaped(w) = p \o q /\ Visible(w) = Visible(s)
    BY <2>1, <2>2
  <2>3. <<>> \in Seq({Space})
    OBVIOUS
  <2> QED
    BY <2>2, <2>3
<1>2. ASSUME NEW n \in Seq({Space}), NEW e \in {Space}, n \in P PROVE Append(n, e) \in P
  <2>0. Append(n, e) \in Seq({Space})
    BY AppendProperties
  <2> SUFFICES ASSUME NEW s \in Seq(Glyphs), Lead(s), Escaped(s) = (p \o Append(n, e)) \o q
               PROVE  \E w \in Seq(Glyphs) :
                          Lead(w) /\ Escaped(w) = p \o q /\ Visible(w) = Visible(s)
    BY <2>0
  <2>1. PICK m \in Seq(Bytes) : m = n
    BY SpacesType
  <2>2. PICK sp \in Seq(Bytes) : sp = <<Space>>
    BY SpaceSeq
  <2>3. Append(n, e) = m \o sp
    BY <2>1, <2>2, AppendIsConcat
  <2>4. PICK pm \in Seq(Bytes) : pm = p \o m
    BY ConcatProperties
  <2>5. p \o (m \o sp) = pm \o sp
    BY <2>4, ByteConcat
  <2>6. Escaped(s) = (pm \o <<Space>>) \o q
    BY <2>2, <2>3, <2>5
  <2>7. PICK w \in Seq(Glyphs) :
            Lead(w) /\ Escaped(w) = pm \o q /\ Visible(w) = Visible(s)
    BY <2>6, EscapedCut
  <2>8. Escaped(w) = (p \o n) \o q
    BY <2>1, <2>4, <2>7
  <2> QED
    BY <1>2, <2>7, <2>8
<1>3. Seq({Space}) \subseteq P
  <2> HIDE DEF P
  <2> QED
    BY <1>1, <1>2, SeqInduct
<1> QED
  BY <1>3

-----------------------------------------------------------------------------
(* The lines there are. *)

\* What the line of a text is made of (ics.go:118-125).
LEMMA TextFacts ==
    ASSUME NEW l \in Lines, l.kind = "text"
    PROVE  l.text \in Seq(Glyphs) /\ l.line = <<Start>> \o EscapeText(l.text)
<1>1. l \in InvitationLines /\ \A t \in Texts : t \in Seq(Glyphs)
  BY IcsTextAssumption
<1> QED
  BY <1>1 DEF InvitationLines, NewLines, TextLine, UidLine, AddressLine

\* What stands for the title in a UID (icsutil.go:14-25, ics.go:110).
Slug(t) == IF SanitizeUID(t) = <<>> THEN <<Start>> ELSE SanitizeUID(t)

\* A slug has no spaces, and is valid UTF-8 when the title is (icsutil.go:14-25).
LEMMA SlugFacts ==
    ASSUME NEW t \in Seq(Glyphs)
    PROVE  /\ SanitizeUID(t) \in Seq(Bytes)
           /\ Spaceless(SanitizeUID(t))
           /\ Utf8(t) => RunsOf(SanitizeUID(t))
<1> DEFINE dashed == [i \in DOMAIN t |->
                         IF t[i] \in {Space, Backslash, Comma, Newline} THEN Start ELSE t[i]]
<1>1. PICK n \in Nat : n = Len(t) /\ DOMAIN t = 1..n /\ \A i \in 1..n : t[i] \in Glyphs
  BY LenProperties, ElementOfSeq
<1>2. PICK m \in 0..n : SanitizeUID(t) = SubSeq(dashed, 1, m)
  <2>1. (IF n > MaxSlug THEN MaxSlug ELSE n) \in 0..n
    BY IcsTextAssumption
  <2> QED
    BY <1>1, <2>1 DEF SanitizeUID
<1>3. \A i \in 1..n : /\ dashed[i] \in Bytes /\ dashed[i] # Space
                      /\ dashed[i] = Continuation => t[i] = Continuation
                      /\ t[i] \in {Start, Continuation} => dashed[i] = t[i]
  BY <1>1 DEF Glyphs, Bytes, Space, Backslash, Comma, Start, Continuation, Newline
<1> HIDE DEF dashed
<1>4. PICK s : s = SanitizeUID(t)
  OBVIOUS
<1>5. s \in Seq(Bytes) /\ Len(s) = m /\ \A i \in 1..m : s[i] = dashed[i]
  <2>1. \A i \in 1..m : dashed[i] \in Bytes
    BY <1>3
  <2>2. /\ SubSeq(dashed, 1, m) \in Seq(Bytes)
        /\ Len(SubSeq(dashed, 1, m)) = IF 1 <= m THEN m - 1 + 1 ELSE 0
        /\ \A i \in 1..m - 1 + 1 : SubSeq(dashed, 1, m)[i] = dashed[1 + i - 1]
    BY <2>1, SubSeqProperties
  <2>3. m \in Nat /\ \A i \in 1..m : 1 + i - 1 = i /\ i \in 1..m - 1 + 1
    OBVIOUS
  <2> QED
    BY <1>2, <1>4, <2>2, <2>3
<1>6. Spaceless(s)
  BY <1>3, <1>5 DEF Spaceless
<1>7. ASSUME Utf8(t) PROVE NoStray(s)
  <2> SUFFICES ASSUME NEW i \in 1..m, s[i] = Continuation PROVE i > 1 /\ s[i - 1] # Space
    BY <1>5, LenProperties DEF NoStray
  <2>1. i \in 1..n /\ t[i] = Continuation
    BY <1>3, <1>5
  <2>2. i > 1
    BY <1>1, <1>7, <2>1 DEF Utf8
  <2>3. i - 1 \in 1..m
    BY <2>2
  <2> QED
    BY <1>5, <1>6, <2>2, <2>3 DEF Spaceless
<1>8. ASSUME Utf8(t) PROVE ShortRunes(s)
  <2> SUFFICES ASSUME NEW i \in 4..m PROVE \E j \in i-3..i : s[j] # Continuation
    BY <1>5 DEF ShortRunes
  <2>1. i \in 4..n
    OBVIOUS
  <2>2. PICK j \in i-3..i : t[j] # Continuation
    BY <1>1, <1>8, <2>1 DEF Utf8, ShortRunes
  <2>3. j \in 1..m /\ j \in 1..n
    OBVIOUS
  <2> QED
    BY <1>3, <1>5, <2>2, <2>3
<1> QED
  BY <1>4, <1>5, <1>6, <1>7, <1>8 DEF RunsOf, Whole

LEMMA StartSeq == <<Start>> \in Seq(Bytes) /\ Spaceless(<<Start>>) /\ NoStray(<<Start>>)
<1>1. Start \in Bytes /\ Start # Space /\ Start # Continuation
  BY DEF Bytes, Start, Space, Continuation
<1> QED
  BY <1>1 DEF Spaceless, NoStray

LEMMA SpacelessConcat ==
    ASSUME NEW s \in Seq(Bytes), NEW t \in Seq(Bytes), Spaceless(s), Spaceless(t)
    PROVE  Spaceless(s \o t) /\ s \o t \in Seq(Bytes)
<1>1. /\ Len(s) \in Nat /\ Len(t) \in Nat
      /\ s \o t \in Seq(Bytes) /\ Len(s \o t) = Len(s) + Len(t)
      /\ \A i \in 1 .. Len(s) + Len(t) :
            (s \o t)[i] = IF i <= Len(s) THEN s[i] ELSE t[i - Len(s)]
  BY ConcatProperties, LenProperties
<1>2. ASSUME NEW i \in 1 .. Len(s) + Len(t) PROVE (s \o t)[i] # Space
  <2>1. CASE i <= Len(s)
    BY <1>1, <2>1 DEF Spaceless
  <2>2. CASE ~(i <= Len(s))
    <3>1. i - Len(s) \in 1..Len(t)
      BY <1>1, <2>2
    <3> QED
      BY <1>1, <2>2, <3>1 DEF Spaceless
  <2> QED
    BY <2>1, <2>2
<1> QED
  BY <1>1, <1>2 DEF Spaceless

\* A UID has no spaces (ics.go:110).
LEMMA UidFacts ==
    ASSUME NEW l \in Lines, l.kind = "uid"
    PROVE  Spaceless(l.line)
<1>1. PICK t \in Seq(Glyphs) : l = UidLine(t)
  <2>1. l \in InvitationLines /\ \A t \in Texts : t \in Seq(Glyphs)
    BY IcsTextAssumption
  <2> QED
    BY <2>1 DEF InvitationLines, NewLines, TextLine, UidLine, AddressLine
<1>2. PICK g \in Seq(Bytes) : g = Slug(t) /\ Spaceless(g)
  BY SlugFacts, StartSeq DEF Slug
<1>3. l.line = (<<Start>> \o g) \o <<Start>>
  BY <1>1, <1>2 DEF UidLine, Slug
<1> QED
  BY <1>2, <1>3, StartSeq, SpacelessConcat

-----------------------------------------------------------------------------
(* Which lines there are: what IcsLine assumes of them is what they are.    *)

\* The last d elements are continuation bytes.
Trail(s, d) == d <= Len(s) /\ \A i \in Len(s)-d+1..Len(s) : s[i] = Continuation

LEMMA TrailAppend ==
    ASSUME NEW S, NEW s \in Seq(S), NEW e \in S, NEW d \in Nat
    PROVE  Trail(Append(s, e), d + 1) <=> e = Continuation /\ Trail(s, d)
<1>1. PICK r : r = Append(s, e)
  OBVIOUS
<1>2. PICK n \in Nat : n = Len(s)
  BY LenProperties
<1>3. Len(r) = n + 1 /\ r[n + 1] = e /\ \A i \in 1..n : r[i] = s[i]
  BY <1>1, <1>2, AppendProperties
<1>4. ASSUME Trail(r, d + 1) PROVE e = Continuation /\ Trail(s, d)
  <2>1. d + 1 <= n + 1 /\ \A i \in (n + 1) - (d + 1) + 1 .. n + 1 : r[i] = Continuation
    BY <1>3, <1>4 DEF Trail
  <2>2. n + 1 \in (n + 1) - (d + 1) + 1 .. n + 1
    OBVIOUS
  <2>3. ASSUME NEW i \in n-d+1..n PROVE s[i] = Continuation
    <3>1. i \in (n + 1) - (d + 1) + 1 .. n + 1 /\ i \in 1..n
      BY <2>1
    <3> QED
      BY <1>3, <2>1, <3>1
  <2> QED
    BY <1>2, <1>3, <2>1, <2>2, <2>3 DEF Trail
<1>5. ASSUME e = Continuation, Trail(s, d) PROVE Trail(r, d + 1)
  <2>1. d <= n /\ \A i \in n-d+1..n : s[i] = Continuation
    BY <1>2, <1>5 DEF Trail
  <2>2. ASSUME NEW i \in (n + 1) - (d + 1) + 1 .. n + 1 PROVE r[i] = Continuation
    <3>1. i = n + 1 \/ (i \in n-d+1..n /\ i \in 1..n)
      BY <2>1
    <3> QED
      BY <1>3, <1>5, <2>1, <3>1
  <2> QED
    BY <1>3, <2>1, <2>2 DEF Trail
<1> QED
  BY <1>1, <1>4, <1>5

\* A continuation byte goes after the start of its rune, if that is not too long.
LEMMA RunsNext ==
    ASSUME NEW s, RunsOf(s), NEW e \in Bytes,
           e = Continuation => s # <<>> /\ s[Len(s)] # Space /\ ~Trail(s, 3)
    PROVE  RunsOf(Append(s, e))
<1>1. /\ s \in Seq(Bytes) /\ Len(s) \in Nat
      /\ \A i \in 1..Len(s) : s[i] = Continuation => i > 1 /\ s[i - 1] # Space
  BY WholeFacts DEF RunsOf
<1>2. PICK r : r = Append(s, e)
  OBVIOUS
<1>3. PICK n \in Nat : n = Len(s)
  BY <1>1
<1>4. /\ r \in Seq(Bytes) /\ Len(r) = n + 1 /\ r[n + 1] = e
      /\ \A i \in 1..n : r[i] = s[i]
  BY <1>1, <1>2, <1>3, AppendProperties
<1>5. ASSUME NEW i \in 1..n+1, r[i] = Continuation PROVE i > 1 /\ r[i - 1] # Space
  <2>1. CASE i \in 1..n
    <3>1. i > 1 /\ s[i - 1] # Space /\ i - 1 \in 1..n
      BY <1>1, <1>3, <1>4, <1>5, <2>1
    <3> QED
      BY <1>4, <3>1
  <2>2. CASE i = n + 1
    <3>1. n # 0
      BY <1>1, <1>3, <1>4, <1>5, <2>2, EmptySeq
    <3>2. i - 1 = n /\ n \in 1..n
      BY <2>2, <3>1
    <3> QED
      BY <1>3, <1>4, <1>5, <2>2, <3>1, <3>2
  <2> QED
    BY <2>1, <2>2
<1>6. ASSUME NEW i \in 4..n+1 PROVE \E j \in i-3..i : r[j] # Continuation
  <2>1. CASE i \in 4..n
    <3>1. PICK j \in i-3..i : s[j] # Continuation
      BY <1>3, <2>1 DEF RunsOf, ShortRunes
    <3>2. j \in 1..n
      BY <2>1
    <3> QED
      BY <1>4, <3>1, <3>2
  <2>2. CASE i = n + 1 /\ e # Continuation
    BY <1>4, <2>2
  <2>3. CASE i = n + 1 /\ e = Continuation
    <3>1. 3 <= n
      BY <2>3
    <3>2. PICK j \in n-3+1..n : s[j] # Continuation
      BY <1>3, <2>3, <3>1 DEF Trail
    <3>3. j \in i-3..i /\ j \in 1..n
      BY <2>3, <3>1
    <3> QED
      BY <1>4, <3>2, <3>3
  <2> QED
    BY <2>1, <2>2, <2>3
<1>7. NoStray(r) /\ ShortRunes(r)
  <2>1. DOMAIN r = 1..n+1
    BY <1>4, LenProperties
  <2> QED
    BY <1>4, <1>5, <1>6, <2>1 DEF NoStray, ShortRunes
<1> QED
  BY <1>2, <1>4, <1>7 DEF RunsOf, Whole

LEMMA BytePair ==
    ASSUME NEW y \in Bytes
    PROVE  /\ <<Backslash>> \in Seq(Bytes) /\ <<y>> \in Seq(Bytes)
           /\ <<Backslash>> \o <<y>> = <<Backslash, y>>
<1>1. <<Backslash>> \in Seq(Bytes) /\ <<y>> \in Seq(Bytes)
  BY DEF Bytes
<1>2. Backslash \in Glyphs /\ y \in Glyphs
  BY GlyphFacts
<1> QED
  BY <1>1, <1>2, Pairs

\* The byte that an escaped text ends with.
LEMMA EscapeEnd ==
    ASSUME NEW w \in Seq(Bytes), NEW x \in Glyphs
    PROVE  \E v \in Seq(Bytes), y \in Bytes :
              /\ w \o Escape[x] = Append(v, y)
              /\ v = w \/ v = Append(w, Backslash)
              /\ x \in {Start, Continuation} => v = w /\ y = x
              /\ x # Continuation => y # Continuation
<1>1. /\ Backslash \in Bytes /\ Comma \in Bytes /\ Start \in Bytes
      /\ Backslash # Continuation /\ Comma # Continuation /\ Start # Continuation
      /\ Newline # Continuation /\ Continuation # Backslash /\ Continuation # Comma
  BY DEF Bytes, Backslash, Comma, Start, Continuation, Newline
<1>2. ASSUME NEW y \in Bytes
      PROVE  /\ w \o <<y>> = Append(w, y)
             /\ w \o <<Backslash, y>> = Append(Append(w, Backslash), y)
             /\ Append(w, Backslash) \in Seq(Bytes)
  <2>1. PICK u \in Seq(Bytes) : u = Append(w, Backslash)
    BY <1>1, AppendProperties
  <2>2. PICK bs \in Seq(Bytes), ys \in Seq(Bytes) :
            bs = <<Backslash>> /\ ys = <<y>> /\ bs \o ys = <<Backslash, y>>
    BY BytePair
  <2>3. w \o bs = u
    BY <1>1, <2>1, <2>2, AppendIsConcat
  <2>4. w \o ys = Append(w, y)
    BY <2>2, AppendIsConcat
  <2>5. u \o ys = Append(u, y)
    BY <2>2, AppendIsConcat
  <2>6. (w \o bs) \o ys = w \o (bs \o ys)
    BY ByteConcat
  <2> QED
    BY <2>1, <2>2, <2>3, <2>4, <2>5, <2>6
<1>3. CASE x = Backslash
  BY <1>1, <1>2, <1>3, GlyphFacts DEF Escape
<1>4. CASE x = Comma
  BY <1>1, <1>2, <1>4, GlyphFacts DEF Escape
<1>5. CASE x = Newline
  BY <1>1, <1>2, <1>5, GlyphFacts DEF Escape
<1>6. CASE x \notin {Backslash, Comma, Newline}
  <2>1. x \in Bytes /\ Escape[x] = <<x>>
    BY <1>6 DEF Escape, Glyphs
  <2> QED
    BY <1>2, <2>1
<1> QED
  BY <1>3, <1>4, <1>5, <1>6

LEMMA EscapedEnd ==
    ASSUME NEW s \in Seq(Glyphs), NEW e \in Glyphs
    PROVE  \E v \in Seq(Bytes), y \in Bytes :
              /\ Escaped(Append(s, e)) = Append(v, y)
              /\ v = Escaped(s) \/ v = Append(Escaped(s), Backslash)
              /\ e \in {Start, Continuation} => v = Escaped(s) /\ y = e
              /\ e # Continuation => y # Continuation
<1>1. Escaped(Append(s, e)) = Escaped(s) \o Escape[e]
  BY EscapedAppend
<1>2. \E v \in Seq(Bytes), y \in Bytes :
         /\ Escaped(s) \o Escape[e] = Append(v, y)
         /\ v = Escaped(s) \/ v = Append(Escaped(s), Backslash)
         /\ e \in {Start, Continuation} => v = Escaped(s) /\ y = e
         /\ e # Continuation => y # Continuation
  BY EscapeSpelled, EscapeEnd
<1> QED
  BY <1>1, <1>2

\* The continuation bytes at the end of an escaped text are those of the text.
LEMMA EscapedTrail ==
    ASSUME NEW t \in Seq(Glyphs), NEW d \in Nat, Trail(Escaped(t), d)
    PROVE  Trail(t, d)
<1> DEFINE P == {s \in Seq(Glyphs) : \A n \in Nat : Trail(Escaped(s), n) => Trail(s, n)}
<1>1. <<>> \in P
  BY SpelledEmpty DEF Escaped
<1>2. ASSUME NEW s \in Seq(Glyphs), NEW e \in Glyphs, s \in P PROVE Append(s, e) \in P
  <2>1. PICK w \in Seq(Bytes) : w = Escaped(s)
    BY EscapeSpelled
  <2>2. PICK v \in Seq(Bytes), y \in Bytes :
            /\ Escaped(Append(s, e)) = Append(v, y)
            /\ v = Escaped(s) \/ v = Append(Escaped(s), Backslash)
            /\ e \in {Start, Continuation} => v = Escaped(s) /\ y = e
            /\ e # Continuation => y # Continuation
    BY EscapedEnd
  <2>3. ASSUME NEW n \in Nat, Trail(Escaped(Append(s, e)), n)
        PROVE  Trail(Append(s, e), n)
    <3>1. CASE n = 0
      <4>1. Len(Append(s, e)) \in Nat
        BY AppendProperties, LenProperties
      <4> QED
        BY <3>1, <4>1 DEF Trail
    <3>2. CASE n # 0
      <4>1. PICK m \in Nat : n = m + 1
        <5>1. n - 1 \in Nat /\ n = (n - 1) + 1
          BY <3>2
        <5> QED
          BY <5>1
      <4>2. y = Continuation /\ Trail(v, m)
        <5>1. Trail(Append(v, y), m + 1)
          BY <2>2, <2>3, <4>1
        <5> QED
          BY <5>1, TrailAppend
      <4>3. e = Continuation /\ Trail(w, m)
        BY <2>1, <2>2, <4>2
      <4>4. Trail(s, m)
        BY <1>2, <2>1, <4>3
      <4> QED
        BY <4>1, <4>3, <4>4, TrailAppend
    <3> QED
      BY <3>1, <3>2
  <2> QED
    BY <2>3, AppendProperties
<1>3. Seq(Glyphs) \subseteq P
  <2> HIDE DEF P
  <2> QED
    BY <1>1, <1>2, SeqInduct
<1> QED
  BY <1>3

\* What comes before the last element of a valid text is valid, and may go
\* before it.
LEMMA Utf8Last ==
    ASSUME NEW s \in Seq(Glyphs), NEW e \in Glyphs, Utf8(Append(s, e))
    PROVE  /\ Utf8(s)
           /\ e = Continuation => s # <<>> /\ s[Len(s)] \in {Start, Continuation}
                                  /\ ~Trail(s, 3)
<1>1. PICK r : r = Append(s, e)
  OBVIOUS
<1>2. PICK n \in Nat : n = Len(s)
  BY LenProperties
<1>3. /\ Len(r) = n + 1 /\ r[n + 1] = e /\ \A i \in 1..n : r[i] = s[i]
      /\ DOMAIN r = 1..n+1 /\ DOMAIN s = 1..n
  BY <1>1, <1>2, AppendProperties, LenProperties
<1>4. /\ \A i \in 1..n+1 : r[i] = Continuation =>
                               i > 1 /\ r[i - 1] \in {Start, Continuation}
      /\ \A i \in 4..n+1 : \E j \in i-3..i : r[j] # Continuation
  BY <1>1, <1>3 DEF Utf8, ShortRunes
<1>5. ASSUME NEW i \in 1..n, s[i] = Continuation
      PROVE  i > 1 /\ s[i - 1] \in {Start, Continuation}
  <2>1. i \in 1..n+1 /\ r[i] = Continuation
    BY <1>3, <1>5
  <2>2. i > 1 /\ r[i - 1] \in {Start, Continuation}
    BY <1>4, <2>1
  <2>3. i - 1 \in 1..n
    BY <2>2
  <2> QED
    BY <1>3, <2>2, <2>3
<1>6. ASSUME NEW i \in 4..n PROVE \E j \in i-3..i : s[j] # Continuation
  <2>1. i \in 4..n+1
    OBVIOUS
  <2>2. PICK j \in i-3..i : r[j] # Continuation
    BY <1>4, <2>1
  <2>3. j \in 1..n
    OBVIOUS
  <2> QED
    BY <1>3, <2>2, <2>3
<1>7. ASSUME e = Continuation
      PROVE  s # <<>> /\ s[Len(s)] \in {Start, Continuation} /\ ~Trail(s, 3)
  <2>1. n + 1 \in 1..n+1 /\ r[n + 1] = Continuation
    BY <1>3, <1>7
  <2>2. n + 1 > 1 /\ r[n + 1 - 1] \in {Start, Continuation}
    BY <1>4, <2>1
  <2>3. n + 1 - 1 = n /\ n \in 1..n
    BY <2>2
  <2>4. s # <<>> /\ s[n] \in {Start, Continuation}
    BY <1>2, <1>3, <2>2, <2>3
  <2>5. ASSUME Trail(s, 3) PROVE FALSE
    <3>1. 3 <= n /\ \A i \in n-3+1..n : s[i] = Continuation
      BY <1>2, <2>5 DEF Trail
    <3>2. n + 1 \in 4..n+1
      BY <3>1
    <3>3. PICK j \in (n + 1)-3..n+1 : r[j] # Continuation
      BY <1>4, <3>2
    <3>4. j = n + 1 \/ (j \in n-3+1..n /\ j \in 1..n)
      BY <3>1
    <3> QED
      BY <1>3, <2>1, <3>1, <3>3, <3>4
  <2> QED
    BY <1>2, <2>4, <2>5
<1> QED
  BY <1>3, <1>5, <1>6, <1>7, <1>2 DEF Utf8, ShortRunes

\* Escaping keeps runes together.
LEMMA EscapedRuns ==
    ASSUME NEW t \in Seq(Glyphs), Utf8(t)
    PROVE  RunsOf(Escaped(t))
<1> DEFINE Ends(s) == s # <<>> /\ s[Len(s)] \in {Start, Continuation} =>
                          Escaped(s) # <<>> /\ Escaped(s)[Len(Escaped(s))] = s[Len(s)]
           P == {s \in Seq(Glyphs) : Utf8(s) => RunsOf(Escaped(s)) /\ Ends(s)}
<1>1. <<>> \in P
  <2>1. Escaped(<<>>) = <<>>
    BY SpelledEmpty DEF Escaped
  <2>2. RunsOf(<<>>)
    BY DEF RunsOf, Whole, NoStray, ShortRunes
  <2> QED
    BY <2>1, <2>2
<1>2. ASSUME NEW s \in Seq(Glyphs), NEW e \in Glyphs, s \in P PROVE Append(s, e) \in P
  <2>0. Append(s, e) \in Seq(Glyphs)
    BY AppendProperties
  <2> SUFFICES ASSUME Utf8(Append(s, e))
               PROVE  RunsOf(Escaped(Append(s, e))) /\ Ends(Append(s, e))
    BY <2>0
  <2>1. PICK w \in Seq(Bytes) : w = Escaped(s)
    BY EscapeSpelled
  <2>2. PICK v \in Seq(Bytes), y \in Bytes :
            /\ Escaped(Append(s, e)) = Append(v, y)
            /\ v = Escaped(s) \/ v = Append(Escaped(s), Backslash)
            /\ e \in {Start, Continuation} => v = Escaped(s) /\ y = e
            /\ e # Continuation => y # Continuation
    BY EscapedEnd
  <2>3. /\ Utf8(s)
        /\ e = Continuation => s # <<>> /\ s[Len(s)] \in {Start, Continuation}
                               /\ ~Trail(s, 3)
    BY Utf8Last
  <2>4. RunsOf(w) /\ Ends(s)
    BY <1>2, <2>1, <2>3
  <2>5. RunsOf(v)
    <3>1. Backslash \in Bytes /\ Backslash # Continuation
      BY DEF Bytes, Backslash, Continuation
    <3>2. RunsOf(Append(w, Backslash))
      BY <2>4, <3>1, RunsNext
    <3> QED
      BY <2>1, <2>2, <2>4, <3>2
  <2>6. ASSUME y = Continuation
        PROVE  v # <<>> /\ v[Len(v)] # Space /\ ~Trail(v, 3)
    <3>1. e = Continuation /\ v = w
      BY <2>1, <2>2, <2>6
    <3>2. w # <<>> /\ w[Len(w)] \in {Start, Continuation}
      BY <2>1, <2>3, <2>4, <3>1
    <3>3. ~Trail(w, 3)
      BY <2>1, <2>3, <3>1, EscapedTrail
    <3>4. Start # Space /\ Continuation # Space
      BY DEF Start, Space, Continuation
    <3> QED
      BY <3>1, <3>2, <3>3, <3>4
  <2>7. RunsOf(Append(v, y))
    BY <2>5, <2>6, RunsNext
  <2>8. Ends(Append(s, e))
    <3>1. Append(s, e)[Len(Append(s, e))] = e
      BY AppendProperties, LenProperties
    <3>2. Append(v, y) # <<>> /\ Append(v, y)[Len(Append(v, y))] = y
      BY AppendProperties, LenProperties
    <3> QED
      BY <2>2, <3>1, <3>2
  <2> QED
    BY <2>2, <2>7, <2>8
<1>3. Seq(Glyphs) \subseteq P
  <2> HIDE DEF P
  <2> QED
    BY <1>1, <1>2, SeqInduct
<1> QED
  BY <1>3

\* The name of a property, and what follows it.
LEMMA NamedLine ==
    ASSUME NEW s, RunsOf(s)
    PROVE  /\ RunsOf(<<Start>> \o s) /\ <<Start>> \o s \in Seq(Bytes)
           /\ Len(<<Start>> \o s) > 0 /\ (<<Start>> \o s)[1] = Start
<1>1. PICK h \in Seq(Bytes) : h = <<Start>> /\ Len(h) = 1 /\ h[1] = Start /\ RunsOf(h)
  <2>1. RunsOf(<<Start>>)
    BY StartSeq DEF RunsOf, Whole, ShortRunes
  <2> QED
    BY <2>1, StartSeq
<1>2. s \in Seq(Bytes) /\ Len(s) \in Nat
  BY WholeFacts DEF RunsOf
<1>3. /\ h \o s \in Seq(Bytes) /\ Len(h \o s) = 1 + Len(s)
      /\ \A i \in 1 .. 1 + Len(s) : (h \o s)[i] = IF i <= 1 THEN h[i] ELSE s[i - 1]
  BY <1>1, <1>2, ConcatProperties
<1>4. RunsOf(h \o s)
  BY <1>1, ConcatRuns
<1> QED
  BY <1>1, <1>2, <1>3, <1>4

\* What IcsLineAssumption asks of a line holds of every line the service makes:
\* it begins with the name of its property, and escaping, the replacements in a
\* slug and its cut at any byte leave no continuation byte on its own
\* (ics.go:106-125, icsutil.go:14-33, ical.go:45-79).
THEOREM LinesAsAssumed ==
    \A l \in InvitationLines :
        /\ l \in [kind : Kinds, text : Seq(Bytes \cup {Newline}), line : Seq(Bytes)]
        /\ Len(l.line) > 0 /\ l.line[1] = Start
        /\ NoStray(l.line) /\ ShortRunes(l.line)
<1> DEFINE Good(s) == /\ s \in Seq(Bytes) /\ Len(s) > 0 /\ s[1] = Start
                      /\ NoStray(s) /\ ShortRunes(s)
<1>1. \A t \in Texts : t \in Seq(Glyphs) /\ Utf8(t)
  BY IcsTextAssumption
<1>2. \A a \in Addresses : a \in Seq(Bytes) /\ a \in Seq(Glyphs) /\ Utf8(a)
  <2>1. Seq(Bytes) \subseteq Seq(Glyphs)
    BY GlyphFacts, SeqMonotonic
  <2> QED
    BY <2>1, IcsTextAssumption
<1>3. ASSUME NEW s, RunsOf(s) PROVE Good(<<Start>> \o s)
  BY <1>3, NamedLine DEF RunsOf, Whole
<1>4. ASSUME NEW t \in Texts PROVE Good(TextLine(t).line)
  <2>1. RunsOf(Escaped(t)) /\ EscapeText(t) = Escaped(t)
    BY <1>1, EscapedRuns, EscapeSpelled
  <2>2. Good(<<Start>> \o Escaped(t))
    BY <1>3, <2>1
  <2> QED
    BY <2>1, <2>2 DEF TextLine
<1>5. ASSUME NEW t \in Texts PROVE Good(UidLine(t).line)
  <2>1. RunsOf(<<Start>>)
    BY StartSeq DEF RunsOf, Whole, ShortRunes
  <2>2. PICK g \in Seq(Bytes) : g = Slug(t) /\ RunsOf(g)
    BY <1>1, <2>1, SlugFacts DEF Slug, RunsOf, Whole
  <2>3. PICK h \in Seq(Bytes) : h = <<Start>> /\ RunsOf(h)
    BY <2>1, StartSeq
  <2>4. (h \o g) \o h = h \o (g \o h)
    BY ConcatAssociative
  <2>5. RunsOf(g \o h)
    BY <2>2, <2>3, ConcatRuns
  <2>6. Good(h \o (g \o h))
    BY <1>3, <2>3, <2>5
  <2>7. UidLine(t).line = (h \o g) \o h
    BY <2>2, <2>3 DEF UidLine, Slug
  <2> QED
    BY <2>4, <2>6, <2>7
<1>6. ASSUME NEW a \in Addresses PROVE Good(AddressLine(a).line)
  <2>1. RunsOf(a)
    <3>1. Start # Space /\ Continuation # Space
      BY DEF Start, Space, Continuation
    <3> QED
      BY <1>2, <3>1 DEF RunsOf, Whole, NoStray, Utf8
  <2> QED
    BY <1>3, <2>1 DEF AddressLine
<1> SUFFICES ASSUME NEW l \in InvitationLines
             PROVE  /\ l \in [kind : Kinds, text : Seq(Glyphs), line : Seq(Bytes)]
                    /\ Good(l.line)
  BY DEF Glyphs
<1> HIDE DEF Good
<1>7. CASE \E t \in Texts : l = TextLine(t)
  <2>1. PICK t \in Texts : l = TextLine(t)
    BY <1>7
  <2>2. Good(l.line) /\ l.line \in Seq(Bytes)
    BY <1>4, <2>1 DEF Good
  <2> QED
    BY <1>1, <2>1, <2>2 DEF TextLine, Kinds
<1>8. CASE \E t \in Texts : l = UidLine(t)
  <2>1. PICK t \in Texts : l = UidLine(t)
    BY <1>8
  <2>2. Good(l.line) /\ l.line \in Seq(Bytes)
    BY <1>5, <2>1 DEF Good
  <2> QED
    BY <1>1, <2>1, <2>2 DEF UidLine, Kinds
<1>9. CASE \E a \in Addresses : l = AddressLine(a)
  <2>1. PICK a \in Addresses : l = AddressLine(a)
    BY <1>9
  <2>2. Good(l.line) /\ l.line \in Seq(Bytes)
    BY <1>6, <2>1 DEF Good
  <2> QED
    BY <1>2, <2>1, <2>2 DEF AddressLine, Kinds
<1> QED
  BY <1>7, <1>8, <1>9 DEF InvitationLines, NewLines

-----------------------------------------------------------------------------
(* UIDs stay. *)

\* The line stays the one that was given.
LEMMA OriginalAlways == Spec => [](original \in Lines)
<1>1. Init => original \in Lines
  BY DEF Init
<1>2. original \in Lines /\ [Next]_vars => (original \in Lines)'
  BY DEF Next, vars, FoldShort, FoldFirst, FoldNext, FoldLast, ReadFirst, ReadNext, ReadLast, Done
<1> QED
  BY <1>1, <1>2, PTL DEF Spec

\* However long the title that its UID is made of, and however often the calendar
\* is read and written, the event keeps its UID (ics.go:110, icsutil.go:14-25).
THEOREM UidsStay == Spec => []UidStable
<1>1. SpacelessKept /\ original \in Lines => UidStable
  BY UidFacts DEF SpacelessKept, UidStable
<1> QED
  BY <1>1, SpacelessStay, OriginalAlways, PTL

-----------------------------------------------------------------------------
\* The line is an escaped text at every step, the same but for spaces; in the
\* first round it is the one that was written.
TextInv ==
    /\ HeldInv
    /\ original \in Lines
    /\ round = 0 => pc # "read" /\ line = original.line
    /\ original.kind = "text" =>
          \E t \in Seq(Glyphs) :
              /\ Lead(t) /\ Escaped(t) = Held
              /\ Visible(t) = Visible(<<Start>> \o original.text)

\* The value follows the name of the property.
LEMMA TailOfStart ==
    ASSUME NEW s \in Seq(Bytes)
    PROVE  Tail(<<Start>> \o s) = s
<1>1. PICK h \in Seq(Bytes) : h = <<Start>> /\ Len(h) = 1
  BY StartSeq
<1>2. /\ h \o s \in Seq(Bytes) /\ Len(h \o s) = 1 + Len(s) /\ Len(s) \in Nat
      /\ \A i \in 1 .. 1 + Len(s) : (h \o s)[i] = IF i <= 1 THEN h[i] ELSE s[i - 1]
  BY <1>1, ConcatProperties, LenProperties
<1>3. PICK r \in Seq(Bytes) : r = h \o s /\ r # <<>>
  <2>1. Len(h \o s) # 0
    BY <1>2
  <2> QED
    BY <1>2, <2>1, EmptySeq
<1>4. Tail(r) \in Seq(Bytes) /\ Len(Tail(r)) = Len(s) /\ \A i \in 1..Len(s) : Tail(r)[i] = r[i + 1]
  BY <1>2, <1>3, HeadTailProperties
<1>5. ASSUME NEW i \in 1..Len(s) PROVE Tail(r)[i] = s[i]
  <2>1. i + 1 \in 1 .. 1 + Len(s) /\ ~(i + 1 <= 1) /\ (i + 1) - 1 = i
    BY <1>2
  <2> QED
    BY <1>2, <1>3, <1>4, <2>1
<1>6. Tail(r) = s
  BY <1>4, <1>5, SeqEqual
<1> QED
  BY <1>1, <1>3, <1>6

LEMMA LeadText ==
    ASSUME NEW t \in Seq(Glyphs)
    PROVE  /\ <<Start>> \o t \in Seq(Glyphs)
           /\ Lead(<<Start>> \o t)
           /\ Escaped(<<Start>> \o t) = <<Start>> \o EscapeText(t)
<1>1. PICK s \in Seq(Glyphs) : s = <<Start>> /\ Len(s) = 1 /\ s[1] = Start
  <2>1. Start \in Glyphs
    BY GlyphFacts
  <2>2. <<Start>> \in Seq(Glyphs) /\ Len(<<Start>>) = 1 /\ <<Start>>[1] = Start
    BY <2>1
  <2> QED
    BY <2>2
<1>2. /\ s \o t \in Seq(Glyphs) /\ Len(s \o t) = 1 + Len(t) /\ Len(t) \in Nat
      /\ \A i \in 1 .. 1 + Len(t) : (s \o t)[i] = IF i <= 1 THEN s[i] ELSE t[i - 1]
  BY <1>1, ConcatProperties, LenProperties
<1>3. Lead(s \o t)
  BY <1>1, <1>2 DEF Lead
<1>4. Escaped(s \o t) = Escaped(s) \o Escaped(t)
  BY EscapedConcat
<1>5. Escaped(s) = s
  <2>1. Spelled(<<Start>>, Escape) = Escape[Start]
    BY GlyphFacts, EscapeType, SpelledOne
  <2>2. Escape[Start] = <<Start>>
    BY GlyphFacts DEF Escape
  <2> QED
    BY <1>1, <2>1, <2>2 DEF Escaped
<1> QED
  BY <1>1, <1>2, <1>3, <1>4, <1>5, EscapeSpelled

LEMMA TextInit == Init => TextInv
<1> SUFFICES ASSUME Init PROVE TextInv
  OBVIOUS
<1>1. HeldInv /\ Held = original.line
  BY HeldInit
<1>2. original \in Lines /\ line = original.line /\ pc = "fold"
  BY DEF Init
<1>3. ASSUME original.kind = "text"
      PROVE  \E t \in Seq(Glyphs) :
                /\ Lead(t) /\ Escaped(t) = Held
                /\ Visible(t) = Visible(<<Start>> \o original.text)
  <2>1. original.text \in Seq(Glyphs) /\ original.line = <<Start>> \o EscapeText(original.text)
    BY <1>2, <1>3, TextFacts
  <2> QED
    BY <1>1, <2>1, LeadText
<1> QED
  BY <1>1, <1>2, <1>3 DEF TextInv

LEMMA TextStep == TextInv /\ [Next]_vars => TextInv'
<1> SUFFICES ASSUME TextInv, [Next]_vars PROVE TextInv'
  OBVIOUS
<1>1. HeldInv' /\ original' = original /\ (Held' = Held \/ SpacesTaken)
  BY HeldStep DEF TextInv
<1>2. (round = 0 => pc # "read" /\ line = original.line)'
  <2>1. round \in Nat
    BY IcsLineAssumption DEF TextInv, HeldInv, Inv, TypeOK
  <2> QED
    BY <2>1 DEF TextInv, Next, vars, FoldShort, FoldFirst, FoldNext, FoldLast,
                ReadFirst, ReadNext, ReadLast, Done
<1>3. ASSUME original.kind = "text"
      PROVE  \E t \in Seq(Glyphs) :
                /\ Lead(t) /\ Escaped(t) = Held'
                /\ Visible(t) = Visible(<<Start>> \o original.text)
  <2>1. PICK t \in Seq(Glyphs) : /\ Lead(t) /\ Escaped(t) = Held
                                 /\ Visible(t) = Visible(<<Start>> \o original.text)
    BY <1>3 DEF TextInv
  <2>2. CASE Held' = Held
    BY <2>1, <2>2
  <2>3. CASE SpacesTaken
    <3>1. PICK p \in Seq(Bytes), q \in Seq(Bytes), k \in Seq({Space}) :
              Held = (p \o k) \o q /\ Held' = p \o q
      BY <2>3 DEF SpacesTaken
    <3>2. \E w \in Seq(Glyphs) : Lead(w) /\ Escaped(w) = p \o q /\ Visible(w) = Visible(t)
      <4>1. Lead(t) /\ Escaped(t) = (p \o k) \o q
        BY <2>1, <3>1
      <4> QED
        BY <4>1, TakenEscaped, Zenon
    <3> QED
      BY <2>1, <3>1, <3>2
  <2> QED
    BY <1>1, <2>2, <2>3
<1> QED
  BY <1>1, <1>2, <1>3 DEF TextInv

LEMMA TextAlways == Spec => []TextInv
BY TextInit, TextStep, PTL DEF Spec

LEMMA UnescapeEscaped ==
    ASSUME NEW t \in Seq(Glyphs)
    PROVE  Unescape(Escaped(t)) = t
<1>1. Reading(Escaped(t)) = [text |-> t, escaped |-> FALSE]
  BY ReadingEscaped
<1> QED
  BY <1>1 DEF Unescape

\* What a client reads of the line of a text.
LEMMA LeadRead ==
    ASSUME NEW t \in Seq(Glyphs), Lead(t), NEW u \in Seq(Glyphs),
           Visible(t) = Visible(<<Start>> \o u)
    PROVE  Visible(Unescape(Tail(Escaped(t)))) = Visible(u)
<1>1. PICK s \in Seq(Glyphs) : s = <<Start>> /\ Visible(s) = s
  <2>1. Start \in Glyphs /\ Start # Space
    BY GlyphFacts
  <2>2. <<Start>> \in Seq(Glyphs) /\ Spaceless(<<Start>>)
    BY <2>1, StartSeq
  <2> QED
    BY <2>2, VisibleSpaceless
<1>2. PICK v \in Seq(Glyphs) : v = Tail(t) /\ t = s \o v
  BY <1>1, HeadAndTail DEF Lead
<1>3. Escaped(t) = <<Start>> \o Escaped(v) /\ Escaped(v) \in Seq(Bytes)
  BY <1>1, <1>2, LeadText, EscapeSpelled
<1>4. Tail(Escaped(t)) = Escaped(v)
  BY <1>3, TailOfStart
<1>5. Unescape(Tail(Escaped(t))) = v
  BY <1>4, UnescapeEscaped
<1>6. Visible(v) = Visible(u)
  <2>1. Visible(s \o v) = s \o Visible(v) /\ Visible(s \o u) = s \o Visible(u)
    <3>1. Visible(s \o v) = Visible(s) \o Visible(v)
      BY VisibleConcat
    <3>2. Visible(s \o u) = Visible(s) \o Visible(u)
      BY VisibleConcat
    <3> QED
      BY <1>1, <3>1, <3>2
  <2>2. Visible(v) \in Seq(Glyphs) /\ Visible(u) \in Seq(Glyphs)
    BY VisibleConcat
  <2>3. s \o Visible(v) = s \o Visible(u)
    BY <1>1, <1>2, <2>1
  <2> QED
    BY <2>2, <2>3, ConcatSimplifications
<1> QED
  BY <1>5, <1>6

\* What a client shows of a title or a description is what the LLM gave, to the
\* byte when the event is new and but for spaces ever after: neither the fold nor
\* the reading tears an escape apart (icsutil.go:27-33, 37-65, ics.go:155-172).
THEOREM TextsSurvive == Spec => []TextSurvives
<1>1. TextInv /\ ClientReadsLine => TextSurvives
  <2> SUFFICES ASSUME TextInv, ClientReadsLine, pc = "stored", original.kind = "text"
               PROVE  /\ round = 0 => Unescape(Tail(ClientReads)) = original.text
                      /\ Visible(Unescape(Tail(ClientReads))) = Visible(original.text)
    BY DEF TextSurvives
  <2>1. ClientReads = line /\ Held = line
    BY DEF ClientReadsLine, Held
  <2>2. original.text \in Seq(Glyphs) /\ original.line = <<Start>> \o EscapeText(original.text)
    BY TextFacts DEF TextInv
  <2>3. ASSUME round = 0 PROVE Unescape(Tail(line)) = original.text
    <3>1. line = <<Start>> \o EscapeText(original.text)
      BY <2>2, <2>3 DEF TextInv
    <3>2. EscapeText(original.text) = Escaped(original.text) /\ Escaped(original.text) \in Seq(Bytes)
      BY <2>2, EscapeSpelled
    <3>3. Tail(line) = Escaped(original.text)
      BY <3>1, <3>2, TailOfStart
    <3> QED
      BY <2>2, <3>3, UnescapeEscaped
  <2>4. PICK t \in Seq(Glyphs) : /\ Lead(t) /\ Escaped(t) = line
                                 /\ Visible(t) = Visible(<<Start>> \o original.text)
    BY <2>1 DEF TextInv
  <2>5. Visible(Unescape(Tail(Escaped(t)))) = Visible(original.text)
    BY <2>2, <2>4, LeadRead
  <2> QED
    BY <2>1, <2>3, <2>4, <2>5
<1> QED
  BY <1>1, TextAlways, ClientsReadLines, PTL
=============================================================================
