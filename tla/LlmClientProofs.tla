-------------------------- MODULE LlmClientProofs --------------------------
(***************************************************************************)
(* Proofs about LlmClient, for answers of any number of lines.             *)
(***************************************************************************)
EXTENDS LlmClient, SequenceTheorems, TLAPS

-----------------------------------------------------------------------------
(* Trimming and stripping cut a window out of the lines. *)

\* t is what is left of s when d lines are taken off its front.
Window(s, t, d) ==
    /\ t \in Seq(Lines)
    /\ d \in Nat
    /\ Len(t) + d <= Len(s)
    /\ \A i \in DOMAIN t : t[i] = s[i + d]

LEMMA WindowFacts ==
    ASSUME NEW s \in Seq(Lines), NEW t, NEW d, Window(s, t, d)
    PROVE  /\ t \in Seq(Lines) /\ d \in Nat
           /\ Len(s) \in Nat /\ DOMAIN s = 1..Len(s)
           /\ Len(t) \in Nat /\ DOMAIN t = 1..Len(t)
           /\ Len(t) + d <= Len(s)
           /\ \A j \in 1..Len(t) : t[j] = s[j + d]
BY DEF Window

LEMMA TrimmedWindow ==
    ASSUME NEW s \in Seq(Lines), NEW t, Trimmed(s, t)
    PROVE  /\ t \in Seq(Lines)
           /\ t # <<>> => t[1] # Blank /\ t[Len(t)] # Blank
           /\ \E d \in Nat :
                /\ Window(s, t, d)
                /\ \A j \in DOMAIN s : j <= d \/ j > d + Len(t) => s[j] = Blank
<1>1. PICK i \in 1..Len(s) + 1, k \in 0..Len(s) :
         /\ t = SubSeq(s, i, k)
         /\ \A j \in DOMAIN s : j < i \/ j > k => s[j] = Blank
         /\ i <= k => s[i] # Blank /\ s[k] # Blank
  BY DEF Trimmed
<1>2. Len(s) \in Nat /\ DOMAIN s = 1..Len(s) /\ \A j \in 1..Len(s) : s[j] \in Lines
  OBVIOUS
<1>3. /\ t \in Seq(Lines)
      /\ Len(t) = IF i <= k THEN k - i + 1 ELSE 0
      /\ \A j \in 1 .. k-i+1 : t[j] = s[i + j - 1]
  <2>1. \A j \in i..k : s[j] \in Lines
    BY <1>2
  <2> QED
    BY <1>1, <2>1, SubSeqProperties
<1>4. CASE i <= k
  <2>1. Window(s, t, i - 1)
    BY <1>2, <1>3, <1>4 DEF Window
  <2>2. \A j \in DOMAIN s : j <= i - 1 \/ j > (i - 1) + Len(t) => s[j] = Blank
    BY <1>1, <1>2, <1>3, <1>4
  <2>3. t[1] # Blank /\ t[Len(t)] # Blank
    BY <1>1, <1>2, <1>3, <1>4
  <2> QED
    BY <1>3, <2>1, <2>2, <2>3
<1>5. CASE i > k
  <2>1. t = <<>>
    BY <1>3, <1>5
  <2>2. Window(s, t, 0)
    BY <1>2, <1>3, <2>1 DEF Window
  <2>3. \A j \in DOMAIN s : s[j] = Blank
    BY <1>1, <1>2, <1>5
  <2> QED
    BY <1>3, <2>1, <2>2, <2>3
<1> QED
  BY <1>4, <1>5

LEMMA WindowOfWindow ==
    ASSUME NEW s \in Seq(Lines), NEW t, NEW r, NEW d, NEW e,
           Window(s, t, d), Window(t, r, e)
    PROVE  Window(s, r, d + e)
<1>1. /\ d \in Nat /\ e \in Nat
      /\ t \in Seq(Lines) /\ r \in Seq(Lines)
      /\ Len(t) + d <= Len(s) /\ Len(r) + e <= Len(t)
  BY DEF Window
<1>2. /\ Len(s) \in Nat /\ Len(t) \in Nat /\ Len(r) \in Nat
      /\ DOMAIN t = 1..Len(t) /\ DOMAIN r = 1..Len(r)
  BY <1>1
<1>3. ASSUME NEW i \in 1..Len(r) PROVE r[i] = s[i + (d + e)]
  <2>1. i + e \in 1..Len(t) /\ (i + e) + d = i + (d + e)
    BY <1>1, <1>2
  <2> QED
    BY <1>2, <2>1 DEF Window
<1> QED
  BY <1>1, <1>2, <1>3 DEF Window

LEMMA WindowOfJson ==
    ASSUME NEW s \in Seq(Lines), NEW r, NEW d, Window(s, r, d),
           NEW a \in DOMAIN r, NEW b \in DOMAIN r, JsonAt(r, a, b)
    PROVE  /\ a + d \in DOMAIN s /\ b + d \in DOMAIN s /\ a <= b
           /\ JsonAt(s, a + d, b + d)
<1>1. /\ d \in Nat /\ r \in Seq(Lines) /\ Len(r) \in Nat /\ Len(s) \in Nat
      /\ Len(r) + d <= Len(s)
      /\ DOMAIN r = 1..Len(r) /\ DOMAIN s = 1..Len(s)
      /\ \A j \in 1..Len(r) : r[j] = s[j + d]
  BY DEF Window
<1>2. /\ a \in 1..Len(r) /\ b \in 1..Len(r)
      /\ a + d \in 1..Len(s) /\ b + d \in 1..Len(s)
      /\ s[a + d] = r[a] /\ s[b + d] = r[b]
  BY <1>1
<1>3. CASE a = b /\ r[a] = Whole
  BY <1>1, <1>2, <1>3 DEF JsonAt
<1>4. CASE /\ a < b /\ r[a] = Open /\ r[b] = Close
           /\ \A j \in a+1 .. b-1 : r[j] \in {Inner, Blank}
  <2>1. ASSUME NEW j \in (a + d) + 1 .. (b + d) - 1 PROVE s[j] \in {Inner, Blank}
    <3>1. j - d \in a+1 .. b-1 /\ j - d \in 1..Len(r) /\ (j - d) + d = j
      BY <1>1, <1>2
    <3>2. r[j - d] = s[(j - d) + d]
      BY <1>1, <3>1
    <3> QED
      BY <1>4, <3>1, <3>2
  <2>2. a + d < b + d /\ a <= b
    BY <1>1, <1>2, <1>4
  <2> QED
    BY <1>1, <1>2, <1>4, <2>1, <2>2 DEF JsonAt
<1> QED
  BY <1>3, <1>4 DEF JsonAt

\* Without the fence in front: what Tail leaves.
LEMMA StripWindow ==
    ASSUME NEW t \in Seq(Lines)
    PROVE  \E e \in 0..1 :
             /\ Window(t, stripCodeFence(t), e)
             /\ e = 1 => Fenced(t[1])
             /\ Len(stripCodeFence(t)) + e >= Len(t) - 1
             /\ Len(stripCodeFence(t)) + e < Len(t) => Fenced(t[Len(t)])
<1>0. Len(t) \in Nat /\ DOMAIN t = 1..Len(t) /\ \A i \in 1..Len(t) : t[i] \in Lines
  OBVIOUS
<1>1. CASE t = <<>> \/ ~Fenced(t[1])
  <2>1. stripCodeFence(t) = t
    BY <1>1 DEF stripCodeFence
  <2> QED
    BY <1>0, <2>1 DEF Window
<1>2. CASE t # <<>> /\ Fenced(t[1])
  <2>0. PICK e \in 0..1 : e = IF Len(t) > 2 THEN 1 ELSE 0
    BY <1>0
  <2>1. PICK rest : rest = IF Len(t) > 2 THEN Tail(t) ELSE t
    OBVIOUS
  <2>2. /\ rest \in Seq(Lines)
        /\ Len(rest) \in Nat /\ Len(rest) = Len(t) - e /\ Len(rest) > 0
        /\ DOMAIN rest = 1..Len(rest)
        /\ \A i \in 1..Len(rest) : rest[i] = t[i + e] /\ rest[i] \in Lines
    BY <1>0, <1>2, <2>0, <2>1, HeadTailProperties
  <2>3. rest[Len(rest)] = t[Len(t)]
    BY <1>0, <2>2
  <2>4. CASE ~Fenced(rest[Len(rest)])
    <3>1. stripCodeFence(t) = rest
      BY <1>2, <2>1, <2>4 DEF stripCodeFence
    <3> QED
      BY <1>0, <1>2, <2>2, <3>1 DEF Window
  <2>5. CASE Fenced(rest[Len(rest)])
    <3>1. PICK cut : cut = SubSeq(rest, 1, Len(rest) - 1)
      OBVIOUS
    <3>2. /\ cut \in Seq(Lines)
          /\ Len(cut) = Len(rest) - 1
          /\ \A i \in 1..Len(rest) - 1 : cut[i] = rest[i]
      BY <2>2, <3>1, SubSeqProperties
    <3>3. stripCodeFence(t) = cut
      BY <1>2, <2>1, <2>5, <3>1 DEF stripCodeFence
    <3>4. Window(t, cut, e)
      <4>1. Len(cut) + e <= Len(t) /\ DOMAIN cut = 1 .. Len(rest) - 1
        BY <1>0, <2>2, <3>2
      <4>2. ASSUME NEW i \in 1 .. Len(rest) - 1 PROVE cut[i] = t[i + e]
        BY <2>2, <3>2
      <4> QED
        BY <3>2, <4>1, <4>2 DEF Window
    <3>5. Len(cut) + e = Len(t) - 1 /\ (e = 1 => Fenced(t[1])) /\ Fenced(t[Len(t)])
      BY <1>0, <1>2, <2>2, <2>3, <2>5, <3>2
    <3> QED
      BY <1>0, <3>3, <3>4, <3>5
  <2> QED
    BY <2>4, <2>5
<1> QED
  BY <1>1, <1>2

-----------------------------------------------------------------------------
(* What is left out of the answer around what is taken.                     *)

LEMMA JsonHasNoFence ==
    ASSUME NEW s \in Seq(Lines), NEW i \in DOMAIN s, NEW k \in DOMAIN s,
           JsonAt(s, i, k), NEW j \in i..k
    PROVE  ~Fenced(s[j])
BY DEF JsonAt, Fenced, Fence, Inline, Remark, Whole, Open, Inner, Close, Blank

LEMMA TakenIsAll ==
    ASSUME NEW s \in Seq(Lines), NEW t, Trimmed(s, t), JsonText(stripCodeFence(t))
    PROVE  \E i, k \in DOMAIN s :
             /\ JsonAt(s, i, k)
             /\ \A j \in DOMAIN s : j < i \/ j > k => s[j] = Blank \/ Fenced(s[j])
             /\ \A j, l \in DOMAIN s :
                   Fenced(s[j]) /\ Fenced(s[l]) /\ j < l => j < i /\ k < l
<1>1. t \in Seq(Lines)
  BY TrimmedWindow
<1>2. PICK d \in Nat :
         /\ Window(s, t, d)
         /\ \A j \in DOMAIN s : j <= d \/ j > d + Len(t) => s[j] = Blank
  BY TrimmedWindow
<1>3. PICK r : r = stripCodeFence(t)
  OBVIOUS
<1>4. PICK e \in 0..1 :
         /\ Window(t, r, e)
         /\ e = 1 => Fenced(t[1])
         /\ Len(r) + e >= Len(t) - 1
         /\ Len(r) + e < Len(t) => Fenced(t[Len(t)])
  BY <1>1, <1>3, StripWindow
<1>5. PICK a, b \in DOMAIN r :
         /\ JsonAt(r, a, b)
         /\ \A j \in DOMAIN r : j < a \/ j > b => r[j] = Blank
  BY <1>3 DEF JsonText
<1>6. PICK f \in Nat : f = d + e
  BY <1>4
<1>7. Window(s, r, f)
  BY <1>2, <1>4, <1>6, WindowOfWindow
<1>8. /\ r \in Seq(Lines) /\ Len(r) \in Nat /\ DOMAIN r = 1..Len(r)
      /\ Len(t) \in Nat /\ DOMAIN t = 1..Len(t)
      /\ Len(s) \in Nat /\ DOMAIN s = 1..Len(s)
      /\ Len(r) + e <= Len(t) /\ Len(t) + d <= Len(s)
  BY <1>1, <1>2, <1>4, WindowFacts
<1>elements. /\ \A j \in 1..Len(r) : r[j] = s[j + f]
             /\ \A j \in 1..Len(t) : t[j] = s[j + d]
  <2>1. \A j \in 1..Len(r) : r[j] = s[j + f]
    BY <1>7, WindowFacts
  <2>2. \A j \in 1..Len(t) : t[j] = s[j + d]
    BY <1>2, WindowFacts
  <2> QED
    BY <2>1, <2>2
<1>9. PICK i \in DOMAIN s, k \in DOMAIN s : i = a + f /\ k = b + f /\ a <= b /\ JsonAt(s, i, k)
  BY <1>5, <1>7, WindowOfJson
<1>10. a \in 1..Len(r) /\ b \in 1..Len(r) /\ i \in 1..Len(s) /\ k \in 1..Len(s)
  BY <1>5, <1>8, <1>9
\* Outside the JSON text there are the blanks around t, the blanks around r,
\* and the two lines that stripCodeFence took off.
<1>11. ASSUME NEW j \in DOMAIN s, j < i \/ j > k
       PROVE  \/ s[j] = Blank
              \/ e = 1 /\ j = d + 1 /\ Fenced(s[j])
              \/ j = d + Len(t) /\ Fenced(s[j])
  <2>0. j \in 1..Len(s)
    BY <1>8
  <2>1. CASE j <= d \/ j > d + Len(t)
    BY <1>2, <2>1
  <2>2. CASE j > f /\ j <= f + Len(r)
    <3>1. j - f \in 1..Len(r) /\ (j - f < a \/ j - f > b) /\ (j - f) + f = j
      BY <1>8, <1>9, <1>10, <1>11, <2>0, <2>2, SMTT(40)
    <3>2. r[j - f] = s[j]
      BY <1>elements, <3>1
    <3> QED
      BY <1>5, <1>8, <3>1, <3>2
  <2>3. CASE j > d /\ j <= f
    <3>1. e = 1 /\ j = 1 + d
      BY <1>6, <2>0, <2>3
    <3>0. 1 \in 1..Len(t)
      BY <1>8, <1>10
    <3>2. s[j] = t[1]
      BY <1>elements, <3>0, <3>1
    <3> QED
      BY <1>4, <3>1, <3>2
  <2>4. CASE j > f + Len(r) /\ j <= d + Len(t)
    <3>0. Len(r) + e >= Len(t) - 1
      BY <1>4
    <3>1. j = Len(t) + d /\ Len(r) + e < Len(t)
      BY <1>6, <1>8, <2>0, <2>4, <3>0
    <3>3. Len(t) \in 1..Len(t)
      BY <1>8, <1>10
    <3>2. s[j] = t[Len(t)]
      BY <1>elements, <3>1, <3>3
    <3> QED
      BY <1>4, <1>8, <3>1, <3>2
  <2> QED
    BY <1>6, <1>8, <2>0, <2>1, <2>2, <2>3, <2>4
<1>12. ASSUME NEW j \in DOMAIN s, NEW l \in DOMAIN s, Fenced(s[j]), Fenced(s[l]), j < l
       PROVE  j < i /\ k < l
  <2>1. ASSUME NEW m \in 1..Len(s), Fenced(s[m]) PROVE m < i \/ m > k
    <3>1. m \notin i..k
      BY <1>9, <2>1, JsonHasNoFence
    <3> QED
      BY <1>8, <1>10, <3>1
  <2>2. ~Fenced(Blank)
    BY DEF Fenced, Fence, Inline, Remark, Blank
  <2>3. \A m \in 1..Len(s) :
          Fenced(s[m]) => (e = 1 /\ m = d + 1) \/ m = d + Len(t)
    BY <1>8, <1>11, <2>1, <2>2
  <2>4. e = 1 /\ j = d + 1 /\ l = d + Len(t)
    BY <1>8, <1>12, <2>3
  <2> QED
    BY <1>6, <1>8, <1>9, <1>10, <1>12, <2>1, <2>4
<1> QED
  BY <1>9, <1>11, <1>12

-----------------------------------------------------------------------------
(* An answer in good form is taken. *)

LEMMA JsonIsNotStripped ==
    ASSUME NEW t \in Seq(Lines), t # <<>> => t[1] # Blank, JsonText(t)
    PROVE  stripCodeFence(t) = t
<1>1. PICK i, k \in DOMAIN t :
         /\ JsonAt(t, i, k)
         /\ \A j \in DOMAIN t : j < i \/ j > k => t[j] = Blank
  BY DEF JsonText
<1>2. Len(t) \in Nat /\ DOMAIN t = 1..Len(t) /\ i \in 1..Len(t) /\ k \in 1..Len(t)
  BY <1>1
<1>3. i = 1
  BY <1>1, <1>2
<1>4. t[1] \in {Whole, Open}
  BY <1>1, <1>3 DEF JsonAt
<1> QED
  BY <1>4 DEF stripCodeFence, Fenced, Fence, Inline, Remark, Whole, Open

LEMMA JsonIsTaken ==
    ASSUME NEW s \in Seq(Lines), NEW t, Trimmed(s, t), JsonText(s)
    PROVE  JsonText(stripCodeFence(t))
<1>1. /\ t \in Seq(Lines)
      /\ t # <<>> => t[1] # Blank /\ t[Len(t)] # Blank
  BY TrimmedWindow
<1>2. PICK d \in Nat :
         /\ Window(s, t, d)
         /\ \A j \in DOMAIN s : j <= d \/ j > d + Len(t) => s[j] = Blank
  BY TrimmedWindow
<1>3. /\ Len(t) \in Nat /\ DOMAIN t = 1..Len(t)
      /\ Len(s) \in Nat /\ DOMAIN s = 1..Len(s)
      /\ Len(t) + d <= Len(s)
      /\ \A j \in 1..Len(t) : t[j] = s[j + d]
  BY <1>2, WindowFacts
<1>4. PICK i, k \in DOMAIN s :
         /\ JsonAt(s, i, k)
         /\ \A j \in DOMAIN s : j < i \/ j > k => s[j] = Blank
  BY DEF JsonText
<1>5. i \in 1..Len(s) /\ k \in 1..Len(s) /\ i <= k
  BY <1>3, <1>4 DEF JsonAt
<1>6. s[i] # Blank /\ s[k] # Blank
  BY <1>4 DEF JsonAt, Whole, Open, Close, Blank
<1>7. i - d \in 1..Len(t) /\ k - d \in 1..Len(t)
  BY <1>2, <1>3, <1>5, <1>6
<1>8. JsonAt(t, i - d, k - d)
  <2>1. t[i - d] = s[i] /\ t[k - d] = s[k]
    <3>1. (i - d) + d = i /\ (k - d) + d = k
      BY <1>5
    <3> QED
      BY <1>3, <1>7, <3>1
  <2>2. ASSUME NEW j \in (i - d) + 1 .. (k - d) - 1, i < k
        PROVE  t[j] \in {Inner, Blank}
    <3>1. j \in 1..Len(t) /\ j + d \in i+1 .. k-1
      BY <1>3, <1>5, <1>7
    <3>2. s[j + d] \in {Inner, Blank}
      BY <1>4, <1>5, <2>2, <3>1 DEF JsonAt
    <3> QED
      BY <1>3, <3>1, <3>2
  <2>3. i = k <=> i - d = k - d
    BY <1>5
  <2>4. i < k <=> i - d < k - d
    BY <1>5
  <2> QED
    BY <1>4, <2>1, <2>2, <2>3, <2>4 DEF JsonAt
<1>9. ASSUME NEW j \in DOMAIN t, j < i - d \/ j > k - d
      PROVE  t[j] = Blank
  <2>1. j \in 1..Len(t) /\ j + d \in 1..Len(s) /\ (j + d < i \/ j + d > k)
    BY <1>3, <1>5, <1>9
  <2> QED
    BY <1>3, <1>4, <2>1
<1>10. JsonText(t)
  BY <1>3, <1>7, <1>8, <1>9 DEF JsonText
<1> QED
  BY <1>1, <1>10, JsonIsNotStripped

\* A complete fence: from line i to line k.
LEMMA FencedIsTaken ==
    ASSUME NEW s \in Seq(Lines), NEW t, Trimmed(s, t),
           NEW i \in DOMAIN s, NEW k \in DOMAIN s,
           i < k, s[i] = Fence, s[k] = Fence,
           JsonText(SubSeq(s, i + 1, k - 1)),
           \A j \in DOMAIN s : j < i \/ j > k => s[j] = Blank
    PROVE  JsonText(stripCodeFence(t))
<1>0. Len(s) \in Nat /\ DOMAIN s = 1..Len(s) /\ \A j \in 1..Len(s) : s[j] \in Lines
  OBVIOUS
<1>1. PICK a \in 1..Len(s) + 1, b \in 0..Len(s) :
         /\ t = SubSeq(s, a, b)
         /\ \A j \in DOMAIN s : j < a \/ j > b => s[j] = Blank
         /\ a <= b => s[a] # Blank /\ s[b] # Blank
  BY DEF Trimmed
<1>2. Fence # Blank /\ Fenced(Fence)
  BY DEF Fence, Fenced, Blank
<1>3. a = i /\ b = k
  <2>1. a \in Nat /\ b \in Nat /\ i \in 1..Len(s) /\ k \in 1..Len(s)
    BY <1>0
  <2>2. s[i] # Blank /\ s[k] # Blank
    BY <1>2
  <2>3. a <= i /\ i <= b /\ a <= k /\ k <= b
    BY <1>0, <1>1, <2>1, <2>2
  <2>4. a \in 1..Len(s) /\ b \in 1..Len(s) /\ a <= b
    BY <1>0, <2>1, <2>3
  <2>5. s[a] # Blank /\ s[b] # Blank
    BY <1>1, <2>4
  <2>6. ~(a < i) /\ ~(b > k)
    BY <1>0, <2>4, <2>5
  <2> QED
    BY <2>1, <2>3, <2>6
<1>4. PICK m : m = SubSeq(s, i + 1, k - 1)
  OBVIOUS
<1>5. /\ m \in Seq(Lines)
      /\ Len(m) = IF i + 1 <= k - 1 THEN (k - 1) - (i + 1) + 1 ELSE 0
      /\ \A j \in 1 .. (k - 1) - (i + 1) + 1 : m[j] = s[(i + 1) + j - 1]
  <2>1. \A j \in i+1 .. k-1 : s[j] \in Lines
    BY <1>0
  <2> QED
    BY <1>0, <1>4, <2>1, SubSeqProperties, SMTT(40)
<1>6. Len(m) > 0
  <2>1. PICK j \in DOMAIN m : TRUE
    BY <1>4 DEF JsonText
  <2>2. Len(m) \in Nat /\ j \in 1..Len(m)
    BY <1>5
  <2> QED
    BY <2>2
<1>7. i + 1 <= k - 1 /\ Len(m) = (k - 1) - i
  BY <1>0, <1>5, <1>6
<1>8. /\ t \in Seq(Lines)
      /\ Len(t) = k - i + 1
      /\ \A j \in 1 .. k-i+1 : t[j] = s[i + j - 1]
  <2>1. \A j \in i..k : s[j] \in Lines
    BY <1>0
  <2> QED
    BY <1>0, <1>1, <1>3, <2>1, SubSeqProperties, SMTT(40)
<1>9. t # <<>> /\ t[1] = Fence /\ t[Len(t)] = Fence /\ Len(t) > 2
  <2>1. 1 \in 1 .. k-i+1 /\ k - i + 1 \in 1 .. k-i+1 /\ Len(t) > 2
    BY <1>0, <1>7, <1>8, SMTT(40)
  <2>2. i + 1 - 1 = i /\ i + (k - i + 1) - 1 = k
    BY <1>0
  <2>3. t[1] = s[i] /\ t[k - i + 1] = s[k]
    BY <1>8, <2>1, <2>2
  <2> QED
    BY <1>8, <2>1, <2>3
<1>10. PICK rest : rest = Tail(t)
  OBVIOUS
<1>11. /\ rest \in Seq(Lines) /\ Len(rest) = k - i /\ Len(rest) \in Nat
       /\ \A j \in 1 .. k - i : rest[j] = s[i + j]
  <2>1. /\ rest \in Seq(Lines) /\ Len(rest) = Len(t) - 1
        /\ \A j \in 1..Len(rest) : rest[j] = t[j + 1]
    BY <1>8, <1>9, <1>10, HeadTailProperties
  <2>2. ASSUME NEW j \in 1 .. k - i PROVE rest[j] = s[i + j]
    <3>1. rest[j] = t[j + 1]
      BY <1>0, <1>8, <2>1, SMTT(40)
    <3>2. t[j + 1] = s[i + (j + 1) - 1]
      BY <1>0, <1>8
    <3>3. i + (j + 1) - 1 = i + j
      BY <1>0
    <3> QED
      BY <3>1, <3>2, <3>3
  <2> QED
    BY <1>0, <1>8, <2>1, <2>2, SMTT(40)
<1>12. rest[Len(rest)] = Fence
  <2>1. k - i \in 1 .. k - i /\ i + (k - i) = k
    BY <1>0
  <2> QED
    BY <1>11, <2>1
<1>13. SubSeq(rest, 1, Len(rest) - 1) = m
  <2>1. PICK cut : cut = SubSeq(rest, 1, Len(rest) - 1)
    OBVIOUS
  <2>2. /\ cut \in Seq(Lines) /\ Len(cut) = Len(m)
        /\ \A j \in 1 .. Len(rest) - 1 : cut[j] = rest[j]
    <3>1. \A j \in 1 .. Len(rest) - 1 : rest[j] \in Lines
      BY <1>11
    <3>2. Len(rest) - 1 = Len(m) /\ Len(rest) - 1 \in Nat
      BY <1>0, <1>7, <1>11, SMTT(40)
    <3>3. /\ cut \in Seq(Lines)
          /\ Len(cut) = IF 1 <= Len(rest) - 1 THEN (Len(rest) - 1) - 1 + 1 ELSE 0
          /\ \A j \in 1 .. (Len(rest) - 1) - 1 + 1 : cut[j] = rest[1 + j - 1]
      BY <1>11, <2>1, <3>1, SubSeqProperties, SMTT(40)
    <3> QED
      BY <1>11, <3>2, <3>3, SMTT(40)
  <2>3. ASSUME NEW j \in 1..Len(m) PROVE cut[j] = m[j]
    <3>1. j \in 1 .. Len(rest) - 1 /\ j \in 1 .. k - i
      BY <1>0, <1>7, <1>11
    <3>2. cut[j] = s[i + j]
      BY <1>11, <2>2, <3>1
    <3>3. m[j] = s[(i + 1) + j - 1] /\ (i + 1) + j - 1 = i + j
      BY <1>0, <1>5, <1>7
    <3> QED
      BY <3>2, <3>3
  <2>4. cut = m
    BY <1>5, <2>2, <2>3, SeqEqual
  <2> QED
    BY <2>1, <2>4
<1>14. stripCodeFence(t) = m
  BY <1>2, <1>9, <1>10, <1>12, <1>13 DEF stripCodeFence
<1> QED
  BY <1>4, <1>14

-----------------------------------------------------------------------------
(* The invariant: where the client is decides what it has made of the answer. *)

AnswerInv ==
    /\ pc \in {"prepare", "call"} => choices = <<>>
    /\ choices # <<>> => Trimmed(choices[1].lines, content)
    /\ pc = "parse" => choices # <<>>
    /\ pc = "returned" /\ choices # <<>> =>
          (result = "event" <=> Decoded /\ choices[1].value = "event")
    /\ result = "event" => choices # <<>>

Inv == TypeOK /\ AnswerInv

LEMMA InvInit == Init => Inv
BY DEF Init, Inv, TypeOK, AnswerInv

LEMMA InvStep == Inv /\ [Next]_vars => Inv'
<1> SUFFICES ASSUME Inv, [Next]_vars PROVE Inv'
  OBVIOUS
<1> USE DEF Inv, TypeOK, AnswerInv
<1>1. CASE PrepareFail
  BY <1>1 DEF PrepareFail, Return
<1>2. CASE Prepare
  BY <1>2 DEF Prepare
<1>3. CASE CallFail
  BY <1>3 DEF CallFail, Return
<1>4. ASSUME NEW first \in Choice, CallOK(first) PROVE Inv'
  <2>1. choices' = <<first>> /\ choices'[1] = first /\ choices' # <<>>
    BY <1>4 DEF CallOK
  <2>2. first.lines \in Seq(Lines)
    BY LlmAssumption DEF Choice
  <2>3. Trimmed(first.lines, content')
    BY <1>4 DEF CallOK
  <2>4. content' \in Seq(Lines)
    BY <2>2, <2>3, TrimmedWindow
  <2>5. Trimmed(choices[1].lines, content)'
    BY <2>1, <2>3
  <2>6. TypeOK'
    BY <1>4, <2>1, <2>4 DEF CallOK
  <2> QED
    BY <1>4, <2>1, <2>5, <2>6 DEF CallOK
<1>5. CASE ParseFail
  BY <1>5 DEF ParseFail, Return, Decoded
<1>6. CASE EmptyTitle
  BY <1>6 DEF EmptyTitle, Return, Decoded
<1>7. CASE ParseOK
  BY <1>7 DEF ParseOK, Return, Decoded
<1>8. CASE UNCHANGED vars
  BY <1>8 DEF vars, Decoded
<1> QED
  BY <1>1, <1>2, <1>3, <1>4, <1>5, <1>6, <1>7, <1>8 DEF Next, Returned

LEMMA Invariance == Spec => []Inv
BY InvInit, InvStep, PTL DEF Spec

\* The type invariant: ExtractEvent returns either an event or an error.
THEOREM TypeCorrect == Spec => []TypeOK
<1>1. Inv => TypeOK
  BY DEF Inv
<1> QED
  BY <1>1, Invariance, PTL

LEMMA ChoiceLines == Inv /\ choices # <<>> => choices[1].lines \in Seq(Lines)
<1> SUFFICES ASSUME Inv, choices # <<>> PROVE choices[1].lines \in Seq(Lines)
  OBVIOUS
<1>1. choices[1] \in Choice
  BY DEF Inv, TypeOK
<1> QED
  BY <1>1, LlmAssumption DEF Choice

\* Of an answer that gives an event nothing is left out but white space and no
\* more than one line on either side that begins with a code fence, whatever the
\* length of the answer (aiproxy.go:136-183).
THEOREM NothingLeftOut == Spec => []EventIsTheAnswer
<1>1. Inv => EventIsTheAnswer
  <2> SUFFICES ASSUME Inv, result = "event" PROVE EventIsTheAnswer
    BY DEF EventIsTheAnswer
  <2>1. choices # <<>> /\ pc = "returned"
    BY DEF Inv, AnswerInv, TypeOK
  <2>2. JsonText(stripCodeFence(content)) /\ choices[1].value = "event"
    BY <2>1 DEF Inv, AnswerInv, Decoded
  <2>3. Trimmed(choices[1].lines, content) /\ choices[1].lines \in Seq(Lines)
    BY <2>1, ChoiceLines DEF Inv, AnswerInv
  <2>4. PICK i, k \in DOMAIN choices[1].lines :
          /\ JsonAt(choices[1].lines, i, k)
          /\ \A j \in DOMAIN choices[1].lines :
               j < i \/ j > k => choices[1].lines[j] = Blank \/ Fenced(choices[1].lines[j])
          /\ \A j, l \in DOMAIN choices[1].lines :
               Fenced(choices[1].lines[j]) /\ Fenced(choices[1].lines[l]) /\ j < l
                 => j < i /\ k < l
    BY <2>2, <2>3, TakenIsAll
  <2> QED
    BY <2>1, <2>2, <2>4 DEF EventIsTheAnswer
<1> QED
  BY <1>1, Invariance, PTL

\* JSON, bare or between two fences, is not refused (aiproxy.go:135).
THEOREM GoodFormTaken == Spec => []AnswerIsTaken
<1>1. Inv => AnswerIsTaken
  <2> SUFFICES ASSUME Inv, pc = "returned", choices # <<>>,
                      choices[1].value = "event",
                      NEW s, s = choices[1].lines,
                      \/ JsonText(s)
                      \/ \E i, k \in DOMAIN s :
                           /\ i < k /\ s[i] = Fence /\ s[k] = Fence
                           /\ JsonText(SubSeq(s, i + 1, k - 1))
                           /\ \A j \in DOMAIN s : j < i \/ j > k => s[j] = Blank
               PROVE  result = "event"
    BY DEF AnswerIsTaken
  <2>1. s \in Seq(Lines) /\ Trimmed(s, content)
    BY ChoiceLines DEF Inv, AnswerInv
  <2>2. JsonText(stripCodeFence(content))
    BY <2>1, JsonIsTaken, FencedIsTaken
  <2> QED
    BY <2>2 DEF Inv, AnswerInv, Decoded
<1> QED
  BY <1>1, Invariance, PTL
=============================================================================
