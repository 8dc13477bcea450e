-------------------------- MODULE AtDispatch_proofs --------------------------
(***************************************************************************)
(* Proofs about AtDispatch: what the parser allocates it frees, what runs  *)
(* is text of one line, in the order of the lines, and lines that arrive   *)
(* whole run as they were written.                                         *)
(*                                                                         *)
(* The argument has three parts.  What a line looks like when it is sent,  *)
(* and what the parser makes of any beginning of that (Spelling, Scanned,  *)
(* Parsed) or of a part that begins at an AT inside a word (WordsInside);  *)
(* where each line lies in the stream, so that a segment that begins with  *)
(* AT is the beginning of the line that is due or comes from inside the    *)
(* one that is arriving (Placed, PlacedDelivered); and the notes of what   *)
(* ran (Owned, Complete).                                                  *)
(***************************************************************************)
EXTENDS AtDispatch, SequenceTheorems, FiniteSetTheorems, WellFoundedInduction, TLAPS

-----------------------------------------------------------------------------
(******************************* Induction *********************************)

Less == {p \in Nat \X Nat : p[1] < p[2]}

LEMMA LessWellFounded == IsWellFoundedOn(Less, Nat)
<1>1. IsWellFoundedOn(OpToRel(<, Nat), Nat)
  BY NatLessThanWellFounded
<1>2. OpToRel(<, Nat) = Less
  BY DEF OpToRel, Less
<1>3. QED
  BY <1>1, <1>2

\* A set of numbers that is not empty has a least element.
LEMMA Least ==
    ASSUME NEW T, T \subseteq Nat, T # {}
    PROVE  \E x \in T : \A y \in T : x <= y
<1>1. PICK x \in T : \A y \in T : ~(<<y, x>> \in Less)
  BY LessWellFounded, WFMin, Zenon
<1>2. ASSUME NEW y \in T PROVE x <= y
  <2>1. x \in Nat /\ y \in Nat
    OBVIOUS
  <2>2. ~(<<y, x>> \in Less)
    BY <1>1
  <2>3. <<y, x>> \in Less <=> y < x
    BY <2>1 DEF Less
  <2>4. QED
    BY <2>1, <2>2, <2>3
<1>3. QED
  BY <1>2

\* Induction, for the set of the numbers that have a property.
LEMMA Induction ==
    ASSUME NEW T, 0 \in T, \A n \in Nat : n \in T => n + 1 \in T
    PROVE  Nat \subseteq T
<1> SUFFICES ASSUME NEW k \in Nat, k \notin T PROVE FALSE
  OBVIOUS
<1> DEFINE U == {n \in Nat : n \notin T}
<1>1. PICK x \in U : \A y \in U : x <= y
  BY Least
<1>2. x # 0 /\ x - 1 \in Nat
  OBVIOUS
<1>3. x - 1 \in T
  BY <1>1, <1>2
<1>4. QED
  BY <1>2, <1>3

-----------------------------------------------------------------------------
(******************************* Sequences *********************************)

LEMMA Single ==
    ASSUME NEW S, NEW e \in S
    PROVE  <<e>> \in Seq(S) /\ Len(<<e>>) = 1 /\ <<e>>[1] = e /\ <<e>> # <<>>
OBVIOUS

LEMMA Joined ==
    ASSUME NEW S, NEW s \in Seq(S), NEW t \in Seq(S)
    PROVE  /\ s \o t \in Seq(S) /\ Len(s) \in Nat /\ Len(t) \in Nat
           /\ Len(s \o t) = Len(s) + Len(t)
           /\ \A i \in 1 .. Len(s) + Len(t) :
                 (s \o t)[i] = IF i <= Len(s) THEN s[i] ELSE t[i - Len(s)]
BY ConcatProperties, LenProperties

LEMMA EmptyIs == ASSUME NEW S, NEW s \in Seq(S) PROVE s = <<>> <=> Len(s) = 0
BY EmptySeq

\* A function on the first numbers is a sequence.
LEMMA IsSeq == ASSUME NEW S, NEW n \in Nat, NEW s \in [1..n -> S] PROVE s \in Seq(S)
OBVIOUS

\* The elements of a part of a sequence.
LEMMA Part ==
    ASSUME NEW S, NEW s \in Seq(S), NEW m \in Nat \ {0}, NEW n \in Int, n <= Len(s), m <= n + 1
    PROVE  /\ SubSeq(s, m, n) \in Seq(S) /\ Len(SubSeq(s, m, n)) = n - m + 1
           /\ \A i \in 1 .. n - m + 1 : SubSeq(s, m, n)[i] = s[m + i - 1]
<1>1. Len(s) \in Nat /\ \A i \in 1 .. Len(s) : s[i] \in S
  BY LenProperties, ElementOfSeq
<1>2. m \in Int /\ \A i \in m .. n : s[i] \in S
  BY <1>1
<1>3. /\ SubSeq(s, m, n) \in Seq(S)
      /\ Len(SubSeq(s, m, n)) = IF m <= n THEN n - m + 1 ELSE 0
      /\ \A i \in 1 .. n - m + 1 : SubSeq(s, m, n)[i] = s[m + i - 1]
  BY <1>2, SubSeqProperties
<1>4. QED
  BY <1>3

\* What a beginning of a sequence is, element by element.
LEMMA BeginningHas ==
    ASSUME NEW s, NEW t, Len(s) \in Nat, IsPrefix(s, t)
    PROVE  Len(s) <= Len(t) /\ \A i \in 1 .. Len(s) : s[i] = t[i]
<1> DEFINE n == Len(s)
           S == {s[i] : i \in 1..n} \cup {t[i] : i \in 1..n}
<1>1. n \in Nat /\ 1 \in Int /\ n \in Int
  OBVIOUS
<1>2. (\A i \in 1..n : s[i] \in S) /\ (\A i \in 1..n : t[i] \in S)
  OBVIOUS
<1> HIDE DEF S, n
<1>3. /\ SubSeq(s, 1, n) \in Seq(S) /\ \A i \in 1 .. n - 1 + 1 : SubSeq(s, 1, n)[i] = s[1 + i - 1]
  BY <1>1, <1>2, SubSeqProperties
<1>4. /\ SubSeq(t, 1, n) \in Seq(S) /\ \A i \in 1 .. n - 1 + 1 : SubSeq(t, 1, n)[i] = t[1 + i - 1]
  BY <1>1, <1>2, SubSeqProperties
<1>5. SubSeq(s, 1, n) = SubSeq(t, 1, n) /\ n <= Len(t)
  BY DEF IsPrefix, n
<1>6. ASSUME NEW i \in 1..n PROVE s[i] = t[i]
  <2>1. i \in 1 .. n - 1 + 1 /\ 1 + i - 1 = i
    BY <1>1
  <2>2. QED
    BY <1>3, <1>4, <1>5, <2>1
<1>7. QED
  BY <1>5, <1>6 DEF n

LEMMA BeginningIs ==
    ASSUME NEW S, NEW s \in Seq(S), NEW t \in Seq(S), Len(s) <= Len(t),
           \A i \in 1 .. Len(s) : s[i] = t[i]
    PROVE  IsPrefix(s, t)
<1>1. Len(s) \in Nat /\ Len(t) \in Nat
  BY LenProperties
<1>2. /\ SubSeq(s, 1, Len(s)) \in Seq(S) /\ Len(SubSeq(s, 1, Len(s))) = Len(s)
      /\ \A i \in 1 .. Len(s) : SubSeq(s, 1, Len(s))[i] = s[i]
  BY <1>1, Part
<1>3. /\ SubSeq(t, 1, Len(s)) \in Seq(S) /\ Len(SubSeq(t, 1, Len(s))) = Len(s)
      /\ \A i \in 1 .. Len(s) : SubSeq(t, 1, Len(s))[i] = t[i]
  BY <1>1, Part
<1>4. SubSeq(s, 1, Len(s)) = SubSeq(t, 1, Len(s))
  BY <1>1, <1>2, <1>3, SeqEqual
<1>5. QED
  BY <1>4 DEF IsPrefix

-----------------------------------------------------------------------------
(*************************** Recursive functions ***************************)

\* The functions of AtDispatch that are defined by recursion exist, so their equations
\* hold.
LEMMA SpelledIs ==
    ASSUME NEW line, Len(line) \in Nat
    PROVE  Spelled(line) = [i \in 0 .. Len(line) |->
              IF i = 0 THEN <<"AT">> ELSE Spelled(line)[i - 1] \o (<<"SP">> \o line[i])]
<1> DEFINE Is(f, n) == f = [i \in 0..n |->
              IF i = 0 THEN <<"AT">> ELSE f[i - 1] \o (<<"SP">> \o line[i])]
           T == {n \in Nat : \E f : Is(f, n)}
<1>1. 0 \in T
  <2>1. Is([i \in 0..0 |-> <<"AT">>], 0)
    OBVIOUS
  <2>2. QED
    BY <2>1
<1>2. ASSUME NEW n \in Nat, n \in T PROVE n + 1 \in T
  <2>1. PICK f : Is(f, n)
    BY <1>2
  <2> DEFINE g == [i \in 0 .. n + 1 |->
                     IF i = n + 1 THEN f[n] \o (<<"SP">> \o line[n + 1]) ELSE f[i]]
  <2>2. ASSUME NEW i \in 0 .. n + 1
        PROVE  g[i] = IF i = 0 THEN <<"AT">> ELSE g[i - 1] \o (<<"SP">> \o line[i])
    <3>1. CASE i = n + 1
      <4>1. i # 0 /\ i - 1 = n /\ n \in 0 .. n + 1 /\ n # n + 1
        BY <3>1
      <4>2. g[n] = f[n]
        BY <4>1
      <4>3. QED
        BY <3>1, <4>1, <4>2
    <3>2. CASE i # n + 1
      <4>1. i \in 0..n /\ g[i] = f[i]
        BY <3>2
      <4>2. f[i] = IF i = 0 THEN <<"AT">> ELSE f[i - 1] \o (<<"SP">> \o line[i])
        BY <2>1, <4>1
      <4>3. i # 0 => i - 1 \in 0 .. n + 1 /\ i - 1 # n + 1
        BY <4>1
      <4>4. i # 0 => g[i - 1] = f[i - 1]
        BY <4>3
      <4>5. QED
        BY <4>1, <4>2, <4>4
    <3>3. QED
      BY <3>1, <3>2
  <2>3. g = [i \in 0 .. n + 1 |-> g[i]]
    OBVIOUS
  <2>4. Is(g, n + 1)
    <3> HIDE DEF g
    <3>1. QED
      BY <2>2, <2>3
  <2> HIDE DEF g, Is
  <2>5. QED
    BY <2>4
<1>3. Len(line) \in T
  <2> HIDE DEF T
  <2>1. QED
    BY <1>1, <1>2, Induction
<1>4. \E f : Is(f, Len(line))
  BY <1>3
<1>5. Spelled(line) = CHOOSE f : Is(f, Len(line))
  BY DEF Spelled
<1>6. Is(Spelled(line), Len(line))
  <2> HIDE DEF Is
  <2>1. QED
    BY <1>4, <1>5
<1>7. QED
  BY <1>6

LEMMA WordsIs ==
    ASSUME NEW text, Len(text) \in Nat
    PROVE  Words(text) = [i \in 0 .. Len(text) |->
              IF i = 0 THEN <<>>
              ELSE IF text[i] = "SP" THEN Words(text)[i - 1]
              ELSE IF i > 1 /\ text[i - 1] # "SP"
                   THEN Append(Front(Words(text)[i - 1]),
                               Append(Last(Words(text)[i - 1]), text[i]))
              ELSE Append(Words(text)[i - 1], <<text[i]>>)]
<1> DEFINE Then(w, i) == IF text[i] = "SP" THEN w
                         ELSE IF i > 1 /\ text[i - 1] # "SP"
                              THEN Append(Front(w), Append(Last(w), text[i]))
                         ELSE Append(w, <<text[i]>>)
           Is(f, n) == f = [i \in 0..n |-> IF i = 0 THEN <<>> ELSE Then(f[i - 1], i)]
           T == {n \in Nat : \E f : Is(f, n)}
<1>1. Words(text) = CHOOSE f : Is(f, Len(text))
  BY DEF Words
<1>2. (Words(text) = [i \in 0 .. Len(text) |-> IF i = 0 THEN <<>> ELSE Then(Words(text)[i - 1], i)])
      => (Words(text) = [i \in 0 .. Len(text) |->
              IF i = 0 THEN <<>>
              ELSE IF text[i] = "SP" THEN Words(text)[i - 1]
              ELSE IF i > 1 /\ text[i - 1] # "SP"
                   THEN Append(Front(Words(text)[i - 1]),
                               Append(Last(Words(text)[i - 1]), text[i]))
              ELSE Append(Words(text)[i - 1], <<text[i]>>)])
  OBVIOUS
<1> HIDE DEF Then
<1>3. 0 \in T
  <2>1. Is([i \in 0..0 |-> <<>>], 0)
    OBVIOUS
  <2>2. QED
    BY <2>1
<1>4. ASSUME NEW n \in Nat, n \in T PROVE n + 1 \in T
  <2>1. PICK f : Is(f, n)
    BY <1>4
  <2> DEFINE g == [i \in 0 .. n + 1 |-> IF i = n + 1 THEN Then(f[n], n + 1) ELSE f[i]]
  <2>2. ASSUME NEW i \in 0 .. n + 1
        PROVE  g[i] = IF i = 0 THEN <<>> ELSE Then(g[i - 1], i)
    <3>1. CASE i = n + 1
      <4>1. i # 0 /\ i - 1 = n /\ n \in 0 .. n + 1 /\ n # n + 1
        BY <3>1
      <4>2. g[n] = f[n]
        BY <4>1
      <4>3. QED
        BY <3>1, <4>1, <4>2
    <3>2. CASE i # n + 1
      <4>1. i \in 0..n /\ g[i] = f[i]
        BY <3>2
      <4>2. f[i] = IF i = 0 THEN <<>> ELSE Then(f[i - 1], i)
        BY <2>1, <4>1
      <4>3. i # 0 => i - 1 \in 0 .. n + 1 /\ i - 1 # n + 1
        BY <4>1
      <4>4. i # 0 => g[i - 1] = f[i - 1]
        BY <4>3
      <4>5. QED
        BY <4>1, <4>2, <4>4
    <3>3. QED
      BY <3>1, <3>2
  <2>3. g = [i \in 0 .. n + 1 |-> g[i]]
    OBVIOUS
  <2>4. Is(g, n + 1)
    <3> HIDE DEF g
    <3>1. QED
      BY <2>2, <2>3
  <2> HIDE DEF g, Is
  <2>5. QED
    BY <2>4
<1>5. Len(text) \in T
  <2> HIDE DEF T
  <2>1. QED
    BY <1>3, <1>4, Induction
<1>6. \E f : Is(f, Len(text))
  BY <1>5
<1>7. Is(Words(text), Len(text))
  <2> HIDE DEF Is
  <2>1. QED
    BY <1>6, <1>1
<1>8. QED
  BY <1>2, <1>7

-----------------------------------------------------------------------------
(******************************* A line ************************************)

Word      == Seq(Pieces) \ {<<>>}
Fragments == Pieces \cup {"AT", "SP", "CR", "LF"}

LEMMA PiecesAre ==
    ASSUME NEW f \in Pieces PROVE f \in Fragments /\ f \notin {"AT", "SP", "CR", "LF"}
BY DEF Pieces, Fragments

LEMMA WordIs ==
    ASSUME NEW w \in Word
    PROVE  /\ w \in Seq(Pieces) /\ w \in Seq(Fragments) /\ Len(w) \in Nat \ {0}
           /\ \A j \in 1 .. Len(w) : w[j] \in Pieces
<1>1. w \in Seq(Pieces) /\ w # <<>>
  BY DEF Word
<1>2. Len(w) \in Nat \ {0}
  BY <1>1, EmptyIs, LenProperties
<1>3. \A j \in 1 .. Len(w) : w[j] \in Pieces
  BY <1>1, ElementOfSeq
<1>4. w \in Seq(Fragments)
  <2>1. Pieces \subseteq Fragments
    BY DEF Fragments
  <2>2. QED
    BY <1>1, <2>1, SeqMonotonic
<1>5. QED
  BY <1>1, <1>2, <1>3, <1>4

LEMMA LineIs ==
    ASSUME NEW line \in Seq(Word)
    PROVE  Len(line) \in Nat /\ \A i \in 1 .. Len(line) : line[i] \in Word
BY LenProperties, ElementOfSeq

\* One more word.
LEMMA SpelledNext ==
    ASSUME NEW f \in Seq(Fragments), NEW w \in Word
    PROVE  LET g == f \o (<<"SP">> \o w) IN
           /\ g \in Seq(Fragments) /\ Len(f) \in Nat /\ Len(g) = Len(f) + 1 + Len(w)
           /\ \A p \in 1 .. Len(f) : g[p] = f[p]
           /\ g[Len(f) + 1] = "SP"
           /\ \A j \in 1 .. Len(w) : g[Len(f) + 1 + j] = w[j]
<1> DEFINE h == <<"SP">> \o w
           g == f \o h
<1>1. w \in Seq(Fragments) /\ Len(w) \in Nat
  BY WordIs
<1>2. <<"SP">> \in Seq(Fragments) /\ Len(<<"SP">>) = 1 /\ <<"SP">>[1] = "SP"
  BY Single DEF Fragments
<1>3. /\ h \in Seq(Fragments) /\ Len(h) = 1 + Len(w) /\ Len(h) \in Nat
      /\ h[1] = "SP" /\ \A j \in 1 .. Len(w) : h[1 + j] = w[j]
  <2>1. /\ h \in Seq(Fragments) /\ Len(h) = Len(<<"SP">>) + Len(w)
        /\ \A i \in 1 .. Len(<<"SP">>) + Len(w) :
              h[i] = IF i <= Len(<<"SP">>) THEN <<"SP">>[i] ELSE w[i - Len(<<"SP">>)]
    BY <1>1, <1>2, Joined
  <2> HIDE DEF h
  <2>2. /\ Len(h) = 1 + Len(w)
        /\ \A i \in 1 .. 1 + Len(w) : h[i] = IF i <= 1 THEN <<"SP">>[i] ELSE w[i - 1]
    BY <1>2, <2>1
  <2>3. h[1] = "SP"
    BY <1>1, <1>2, <2>2
  <2>4. ASSUME NEW j \in 1 .. Len(w) PROVE h[1 + j] = w[j]
    <3>1. 1 + j \in 1 .. 1 + Len(w) /\ ~(1 + j <= 1) /\ 1 + j - 1 = j
      BY <1>1
    <3>2. QED
      BY <2>2, <3>1
  <2>5. QED
    BY <1>1, <2>1, <2>2, <2>3, <2>4
<1> HIDE DEF h
<1>4. /\ g \in Seq(Fragments) /\ Len(f) \in Nat /\ Len(g) = Len(f) + Len(h)
      /\ \A i \in 1 .. Len(f) + Len(h) : g[i] = IF i <= Len(f) THEN f[i] ELSE h[i - Len(f)]
  <2>1. h \in Seq(Fragments)
    BY <1>3
  <2>2. QED
    BY <2>1, Joined
<1> HIDE DEF g
<1>5. ASSUME NEW p \in 1 .. Len(f) PROVE g[p] = f[p]
  <2>1. p \in 1 .. Len(f) + Len(h) /\ p <= Len(f)
    BY <1>3, <1>4
  <2>2. QED
    BY <1>4, <2>1
<1>6. ASSUME NEW j \in 1 .. Len(h) PROVE g[Len(f) + j] = h[j]
  <2>1. Len(f) + j \in 1 .. Len(f) + Len(h) /\ ~(Len(f) + j <= Len(f)) /\ Len(f) + j - Len(f) = j
    BY <1>3, <1>4
  <2>2. QED
    BY <1>4, <2>1
<1>7. g[Len(f) + 1] = "SP"
  BY <1>1, <1>3, <1>6
<1>8. ASSUME NEW j \in 1 .. Len(w) PROVE g[Len(f) + 1 + j] = w[j]
  <2>1. 1 + j \in 1 .. Len(h) /\ Len(f) + (1 + j) = Len(f) + 1 + j
    BY <1>1, <1>3, <1>4
  <2>2. QED
    BY <1>3, <1>6, <2>1
<1>9. Len(g) = Len(f) + 1 + Len(w)
  BY <1>1, <1>3, <1>4
<1>10. QED
  BY <1>4, <1>5, <1>7, <1>8, <1>9 DEF g, h

\* Where the words of a line are in its spelling: the i-th one begins two places behind
\* the end of the spelling of those before it.
Behind(line, i) == Len(Spelled(line)[i])

LEMMA SpelledStep ==
    ASSUME NEW line \in Seq(Word), NEW i \in 0 .. Len(line)
    PROVE  LET f == Spelled(line) IN
           /\ f[i] \in Seq(Fragments) /\ Behind(line, i) \in Nat \ {0} /\ f[i][1] = "AT"
           /\ \A p \in 2 .. Behind(line, i) : f[i][p] \in Pieces \cup {"SP"}
           /\ i = 0 => Behind(line, i) = 1
           /\ i # 0 => /\ Behind(line, i) = Behind(line, i - 1) + 1 + Len(line[i])
                       /\ \A p \in 1 .. Behind(line, i - 1) : f[i][p] = f[i - 1][p]
                       /\ f[i][Behind(line, i - 1) + 1] = "SP"
                       /\ \A j \in 1 .. Len(line[i]) :
                             f[i][Behind(line, i - 1) + 1 + j] = line[i][j]
<1> DEFINE f == Spelled(line)
           k == Len(line)
           Basic(n) == /\ f[n] \in Seq(Fragments) /\ Len(f[n]) \in Nat \ {0} /\ f[n][1] = "AT"
                       /\ \A p \in 2 .. Len(f[n]) : f[n][p] \in Pieces \cup {"SP"}
           Step(n) == /\ Len(f[n]) = Len(f[n - 1]) + 1 + Len(line[n])
                      /\ \A p \in 1 .. Len(f[n - 1]) : f[n][p] = f[n - 1][p]
                      /\ f[n][Len(f[n - 1]) + 1] = "SP"
                      /\ \A j \in 1 .. Len(line[n]) : f[n][Len(f[n - 1]) + 1 + j] = line[n][j]
           T == {n \in Nat : n <= k => Basic(n)}
<1>1. k \in Nat /\ \A n \in 1..k : line[n] \in Word
  BY LineIs
<1>2. /\ f[0] = <<"AT">>
      /\ \A n \in 1..k : f[n] = f[n - 1] \o (<<"SP">> \o line[n])
  <2>1. f = [n \in 0..k |-> IF n = 0 THEN <<"AT">> ELSE f[n - 1] \o (<<"SP">> \o line[n])]
    BY <1>1, SpelledIs
  <2> HIDE DEF f, k
  <2>2. 0 \in 0..k /\ \A n \in 1..k : n \in 0..k /\ n # 0
    BY <1>1
  <2>3. QED
    BY <2>1, <2>2
<1> HIDE DEF f, k
<1>3. Basic(0) /\ Len(f[0]) = 1
  BY <1>2, Single DEF Fragments
<1>4. ASSUME NEW n \in 1..k, Basic(n - 1) PROVE Basic(n) /\ Step(n)
  <2> DEFINE g == f[n - 1]
             w == line[n]
  <2>1. /\ f[n] \in Seq(Fragments) /\ Len(g) \in Nat /\ Len(f[n]) = Len(g) + 1 + Len(w)
        /\ \A p \in 1 .. Len(g) : f[n][p] = g[p]
        /\ f[n][Len(g) + 1] = "SP"
        /\ \A j \in 1 .. Len(w) : f[n][Len(g) + 1 + j] = w[j]
    <3>1. g \in Seq(Fragments) /\ w \in Word
      BY <1>1, <1>4
    <3>2. f[n] = g \o (<<"SP">> \o w)
      BY <1>2
    <3> HIDE DEF g, w
    <3>3. QED
      BY <3>1, <3>2, SpelledNext
  <2>2. Step(n)
    BY <2>1
  <2>3. /\ Len(g) \in Nat \ {0} /\ g[1] = "AT"
        /\ \A p \in 2 .. Len(g) : g[p] \in Pieces \cup {"SP"}
    BY <1>4
  <2>4. Len(w) \in Nat \ {0} /\ \A j \in 1 .. Len(w) : w[j] \in Pieces
    BY <1>1, WordIs
  <2> HIDE DEF g, w
  <2>5. Len(f[n]) \in Nat \ {0} /\ f[n][1] = "AT"
    <3>1. 1 \in 1 .. Len(g)
      BY <2>3
    <3>2. f[n][1] = "AT"
      BY <2>1, <2>3, <3>1
    <3>3. Len(f[n]) \in Nat \ {0}
      BY <2>1, <2>3, <2>4
    <3>4. QED
      BY <3>2, <3>3
  <2>6. ASSUME NEW p \in 2 .. Len(f[n]) PROVE f[n][p] \in Pieces \cup {"SP"}
    <3>1. CASE p <= Len(g)
      BY <2>1, <2>3, <3>1
    <3>2. CASE p = Len(g) + 1
      BY <2>1, <3>2
    <3>3. CASE p > Len(g) + 1
      <4>1. p - (Len(g) + 1) \in 1 .. Len(w) /\ Len(g) + 1 + (p - (Len(g) + 1)) = p
        BY <2>1, <2>3, <2>4, <3>3
      <4>2. QED
        BY <2>1, <2>4, <4>1
    <3>4. QED
      BY <2>3, <3>1, <3>2, <3>3
  <2>7. Basic(n)
    BY <2>1, <2>5, <2>6
  <2>8. QED
    BY <2>2, <2>7
<1>5. \A n \in 0..k : Basic(n)
  <2>1. 0 \in T
    BY <1>3
  <2>2. ASSUME NEW n \in Nat, n \in T PROVE n + 1 \in T
    <3>1. CASE n + 1 <= k
      <4>1. PICK m \in 1..k : m = n + 1 /\ m - 1 = n
        BY <1>1, <3>1
      <4>2. Basic(n)
        BY <1>1, <2>2, <3>1
      <4>3. Basic(m - 1)
        BY <4>1, <4>2
      <4> HIDE DEF Basic
      <4>4. Basic(m)
        BY <1>4, <4>3
      <4>5. QED
        BY <4>1, <4>4
    <3>2. CASE ~(n + 1 <= k)
      BY <3>2
    <3>3. QED
      BY <3>1, <3>2
  <2> HIDE DEF T
  <2>3. Nat \subseteq T
    BY <2>1, <2>2, Induction
  <2>4. QED
    BY <1>1, <2>3 DEF T
<1>6. ASSUME i # 0 PROVE Step(i)
  <2>1. i \in 1..k /\ i - 1 \in 0..k
    BY <1>1, <1>6 DEF k
  <2> HIDE DEF Basic, Step
  <2>2. QED
    BY <1>4, <1>5, <2>1
<1>7. Basic(i)
  <2> HIDE DEF Basic
  <2>1. QED
    BY <1>5 DEF k
<1>8. QED
  BY <1>3, <1>6, <1>7 DEF Behind, f

\* The spelling of a line begins with the spelling of its first words.
LEMMA SpelledOn ==
    ASSUME NEW line \in Seq(Word), NEW n \in 0 .. Len(line), NEW i \in 0..n
    PROVE  /\ Behind(line, i) <= Behind(line, n)
           /\ i # n => Behind(line, i) < Behind(line, n)
           /\ \A p \in 1 .. Behind(line, i) : Spelled(line)[n][p] = Spelled(line)[i][p]
<1> DEFINE f == Spelled(line)
           b(m) == Behind(line, m)
           On(m) == /\ b(i) <= b(m) /\ (i # m => b(i) < b(m))
                    /\ \A p \in 1 .. b(i) : f[m][p] = f[i][p]
           T == {d \in Nat : i + d <= n => On(i + d)}
<1>1. Len(line) \in Nat /\ n \in Nat /\ i \in Nat
  BY LineIs
<1>2. \A m \in 0 .. Len(line) : b(m) \in Nat \ {0}
  BY SpelledStep
<1>3. ASSUME NEW m \in 1 .. Len(line)
      PROVE  b(m - 1) < b(m) /\ \A p \in 1 .. b(m - 1) : f[m][p] = f[m - 1][p]
  <2>1. m \in 0 .. Len(line) /\ m - 1 \in 0 .. Len(line) /\ m # 0 /\ line[m] \in Word
    BY <1>1, LineIs
  <2>2. /\ b(m) = b(m - 1) + 1 + Len(line[m])
        /\ \A p \in 1 .. b(m - 1) : f[m][p] = f[m - 1][p]
    BY <2>1, SpelledStep
  <2>3. Len(line[m]) \in Nat
    BY <2>1, WordIs
  <2> HIDE DEF f, b
  <2>4. QED
    BY <1>2, <2>1, <2>2, <2>3
<1> HIDE DEF f, b
<1>4. 0 \in T
  <2>1. On(i)
    BY <1>1, <1>2
  <2>2. i + 0 = i
    BY <1>1
  <2> HIDE DEF On
  <2>3. QED
    BY <2>1, <2>2
<1>5. ASSUME NEW d \in Nat, d \in T PROVE d + 1 \in T
  <2>1. CASE i + (d + 1) <= n
    <3>1. PICK m \in 1 .. Len(line) : m = i + (d + 1) /\ m - 1 = i + d
      BY <1>1, <2>1
    <3>2. On(i + d)
      BY <1>1, <1>5, <2>1
    <3>3. On(m - 1)
      BY <3>1, <3>2
    <3>4. b(m - 1) < b(m) /\ \A p \in 1 .. b(m - 1) : f[m][p] = f[m - 1][p]
      BY <1>3
    <3>5. b(i) \in Nat /\ b(m) \in Nat /\ b(m - 1) \in Nat
      BY <1>1, <1>2
    <3>6. b(i) < b(m)
      BY <3>3, <3>4, <3>5
    <3>7. ASSUME NEW p \in 1 .. b(i) PROVE f[m][p] = f[i][p]
      <4>1. p \in 1 .. b(m - 1)
        BY <3>3, <3>5
      <4>2. QED
        BY <3>3, <3>4, <4>1
    <3>8. On(m)
      BY <3>5, <3>6, <3>7
    <3> HIDE DEF On
    <3>9. QED
      BY <3>1, <3>8
  <2>2. CASE ~(i + (d + 1) <= n)
    BY <2>2
  <2>3. QED
    BY <2>1, <2>2
<1>6. n - i \in T
  <2> HIDE DEF T
  <2>1. Nat \subseteq T
    BY <1>4, <1>5, Induction
  <2>2. QED
    BY <1>1, <2>1
<1>7. On(n)
  <2>1. n - i \in Nat /\ i + (n - i) = n
    BY <1>1
  <2>2. On(i + (n - i))
    <3> HIDE DEF On
    <3>1. QED
      BY <1>6, <2>1
  <2>3. QED
    BY <2>1, <2>2
<1>8. QED
  BY <1>7 DEF f, b

\* The fragments of a line, place by place.
LEMMA Spelling ==
    ASSUME NEW line \in Seq(Word)
    PROVE  LET s == Spelled(line)[Len(line)] IN
           /\ Len(line) \in Nat /\ s \in Seq(Fragments) /\ Len(s) \in Nat \ {0} /\ s[1] = "AT"
           /\ Len(s) = Behind(line, Len(line)) /\ Behind(line, 0) = 1
           /\ \A p \in 2 .. Len(s) : s[p] \in Pieces \cup {"SP"}
           /\ \A i \in 0 .. Len(line) : Behind(line, i) \in Nat \ {0} /\ Behind(line, i) <= Len(s)
           /\ \A i \in 1 .. Len(line) :
                 /\ Behind(line, i) = Behind(line, i - 1) + 1 + Len(line[i])
                 /\ s[Behind(line, i - 1) + 1] = "SP"
                 /\ \A j \in 1 .. Len(line[i]) : s[Behind(line, i - 1) + 1 + j] = line[i][j]
<1> DEFINE k == Len(line)
           f == Spelled(line)
           s == f[k]
           b(i) == Behind(line, i)
<1>1. k \in Nat /\ \A i \in 1..k : line[i] \in Word
  BY LineIs
<1>2. /\ s \in Seq(Fragments) /\ b(k) \in Nat \ {0} /\ s[1] = "AT" /\ Len(s) = b(k)
      /\ \A p \in 2 .. b(k) : s[p] \in Pieces \cup {"SP"}
  <2>1. PICK i \in 0..k : i = k
    BY <1>1
  <2>2. /\ f[i] \in Seq(Fragments) /\ b(i) \in Nat \ {0} /\ f[i][1] = "AT"
        /\ \A p \in 2 .. b(i) : f[i][p] \in Pieces \cup {"SP"}
    BY <2>1, SpelledStep
  <2>3. Len(f[i]) = b(i)
    BY DEF Behind
  <2> HIDE DEF f, b
  <2>4. QED
    BY <2>1, <2>2, <2>3
<1>3. b(0) = 1
  <2>1. 0 \in 0..k
    BY <1>1
  <2>2. QED
    BY <2>1, SpelledStep
<1>4. ASSUME NEW i \in 0..k
      PROVE  /\ b(i) \in Nat \ {0} /\ b(i) <= b(k) /\ \A p \in 1 .. b(i) : s[p] = f[i][p]
  <2>1. b(i) \in Nat \ {0}
    BY SpelledStep
  <2>2. k \in 0..k /\ i \in 0..k
    BY <1>1
  <2>3. QED
    BY <2>1, <2>2, SpelledOn
<1>5. ASSUME NEW i \in 1..k
      PROVE  /\ b(i) = b(i - 1) + 1 + Len(line[i]) /\ s[b(i - 1) + 1] = "SP"
             /\ \A j \in 1 .. Len(line[i]) : s[b(i - 1) + 1 + j] = line[i][j]
  <2>1. i \in 0..k /\ i - 1 \in 0..k /\ i # 0
    BY <1>1
  <2>2. /\ b(i) = b(i - 1) + 1 + Len(line[i]) /\ f[i][b(i - 1) + 1] = "SP"
        /\ \A j \in 1 .. Len(line[i]) : f[i][b(i - 1) + 1 + j] = line[i][j]
    BY <2>1, SpelledStep
  <2>3. b(i) \in Nat /\ b(i - 1) \in Nat /\ \A p \in 1 .. b(i) : s[p] = f[i][p]
    BY <1>4, <2>1
  <2>4. Len(line[i]) \in Nat
    BY <1>1, WordIs
  <2> HIDE DEF b, f, s
  <2>5. s[b(i - 1) + 1] = "SP"
    <3>1. b(i - 1) + 1 \in 1 .. b(i)
      BY <2>2, <2>3, <2>4
    <3>2. QED
      BY <2>2, <2>3, <3>1
  <2>6. ASSUME NEW j \in 1 .. Len(line[i]) PROVE s[b(i - 1) + 1 + j] = line[i][j]
    <3>1. b(i - 1) + 1 + j \in 1 .. b(i)
      BY <2>2, <2>3, <2>4
    <3>2. QED
      BY <2>2, <2>3, <3>1
  <2>7. QED
    BY <2>2, <2>5, <2>6
<1> HIDE DEF b, f, s
<1>6. QED
  BY <1>1, <1>2, <1>3, <1>4, <1>5 DEF b, f, s

-----------------------------------------------------------------------------
(****************************** The tokeniser ******************************)

Texts == Seq(Pieces)

\* A fragment begins a word, or goes on with the last one.
LEMMA WordBegun ==
    ASSUME NEW w \in Seq(Texts), NEW c \in Pieces, NEW v, v = Append(w, <<c>>)
    PROVE  /\ v \in Seq(Texts) /\ Len(v) = Len(w) + 1 /\ Len(w) \in Nat
           /\ \A x \in 1 .. Len(w) : v[x] = w[x]
           /\ v[Len(w) + 1] \in Texts /\ Len(v[Len(w) + 1]) = 1 /\ v[Len(w) + 1][1] = c
<1> DEFINE e == <<c>>
<1>1. e \in Texts /\ Len(e) = 1 /\ e[1] = c
  BY Single DEF Texts
<1> HIDE DEF e
<1>2. /\ Append(w, e) \in Seq(Texts) /\ Len(Append(w, e)) = Len(w) + 1
      /\ \A x \in 1 .. Len(w) : Append(w, e)[x] = w[x]
      /\ Append(w, e)[Len(w) + 1] = e
  BY <1>1, AppendProperties
<1>3. Len(w) \in Nat
  BY LenProperties
<1>4. QED
  BY <1>1, <1>2, <1>3 DEF e

Extended(w, c) == Append(Front(w), Append(Last(w), c))

GoesOn(v, w, m, c) ==
    /\ v \in Seq(Texts) /\ Len(v) = m
    /\ \A x \in 1 .. m - 1 : v[x] = w[x]
    /\ w[m] \in Texts /\ v[m] \in Texts /\ Len(w[m]) \in Nat
    /\ Len(v[m]) = Len(w[m]) + 1
    /\ \A y \in 1 .. Len(w[m]) : v[m][y] = w[m][y]
    /\ v[m][Len(w[m]) + 1] = c

LEMMA WordContinued ==
    ASSUME NEW w \in Seq(Texts), NEW m \in Nat, m # 0, Len(w) = m, NEW c \in Pieces,
           NEW v, v = Extended(w, c)
    PROVE  GoesOn(v, w, m, c)
<1>1. m \in 1 .. Len(w)
  OBVIOUS
<1>2. w[m] \in Texts /\ Last(w) = w[m]
  BY <1>1, ElementOfSeq DEF Last
<1> DEFINE e == Append(w[m], c)
           g == Front(w)
<1>3. /\ e \in Texts /\ Len(e) = Len(w[m]) + 1 /\ Len(w[m]) \in Nat
      /\ \A y \in 1 .. Len(w[m]) : e[y] = w[m][y]
      /\ e[Len(w[m]) + 1] = c
  <2>1. w[m] \in Seq(Pieces)
    BY <1>2 DEF Texts
  <2>2. QED
    BY <2>1, AppendProperties, LenProperties DEF Texts
<1>4. g \in Seq(Texts) /\ Len(g) = m - 1 /\ \A x \in 1 .. m - 1 : g[x] = w[x]
  <2>1. 1 \in Nat \ {0} /\ m - 1 \in Int /\ m - 1 <= Len(w) /\ 1 <= m - 1 + 1
    OBVIOUS
  <2>2. /\ SubSeq(w, 1, m - 1) \in Seq(Texts) /\ Len(SubSeq(w, 1, m - 1)) = m - 1 - 1 + 1
        /\ \A i \in 1 .. m - 1 - 1 + 1 : SubSeq(w, 1, m - 1)[i] = w[1 + i - 1]
    BY <2>1, Part
  <2>3. \A i \in Int : 1 + i - 1 = i
    OBVIOUS
  <2>4. m - 1 - 1 + 1 = m - 1
    OBVIOUS
  <2>5. g = SubSeq(w, 1, m - 1)
    BY DEF Front
  <2> HIDE DEF g
  <2>6. QED
    BY <2>2, <2>3, <2>4, <2>5
<1> HIDE DEF e, g
<1>5. /\ Append(g, e) \in Seq(Texts) /\ Len(Append(g, e)) = Len(g) + 1
      /\ \A x \in 1 .. Len(g) : Append(g, e)[x] = g[x]
      /\ Append(g, e)[Len(g) + 1] = e
  BY <1>3, <1>4, AppendProperties
<1>6. v = Append(g, e)
  BY <1>2 DEF e, g, Extended
<1>7. /\ v \in Seq(Texts) /\ Len(v) = m /\ v[m] = e
      /\ \A x \in 1 .. m - 1 : v[x] = w[x]
  <2>1. Len(g) + 1 = m
    BY <1>4
  <2>2. QED
    BY <1>4, <1>5, <1>6, <2>1
<1>8. QED
  BY <1>2, <1>3, <1>7 DEF GoesOn

\* The words w are the first m - 1 of the line, and j fragments of the m-th.
Upto(w, line, m, j) ==
    /\ w \in Seq(Texts) /\ Len(w) = IF j = 0 THEN m - 1 ELSE m
    /\ \A x \in 1 .. m - 1 : w[x] = line[x]
    /\ j # 0 => w[m] \in Texts /\ Len(w[m]) = j /\ \A y \in 1..j : w[m][y] = line[m][y]

\* What the tokeniser makes of the beginning of a line.
LEMMA Scanned ==
    ASSUME NEW line \in Seq(Word), Len(line) # 0, NEW text \in Seq(Fragments),
           Len(text) + 2 <= Len(Spelled(line)[Len(line)]),
           \A i \in 1 .. Len(text) : text[i] = Spelled(line)[Len(line)][i + 2]
    PROVE  \A q \in 0 .. Len(text) :
              \E m \in 1 .. Len(line) : \E j \in 0 .. Len(line[m]) :
                 /\ q + 2 = Behind(line, m - 1) + 1 + j
                 /\ Upto(Words(text)[q], line, m, j)
<1> DEFINE k == Len(line)
           n == Len(text)
           s == Spelled(line)[k]
           b(i) == Behind(line, i)
           w(q) == Words(text)[q]
           At(q, m, j) == q + 2 = b(m - 1) + 1 + j /\ Upto(w(q), line, m, j)
           Good(q) == \E m \in 1..k : \E j \in 0 .. Len(line[m]) : At(q, m, j)
           T == {q \in Nat : q <= n => Good(q)}
<1>1. /\ k \in Nat \ {0} /\ Len(s) = b(k) /\ b(0) = 1
      /\ \A i \in 0..k : b(i) \in Nat \ {0} /\ b(i) <= b(k)
      /\ \A i \in 1..k : /\ b(i) = b(i - 1) + 1 + Len(line[i])
                         /\ s[b(i - 1) + 1] = "SP"
                         /\ \A j \in 1 .. Len(line[i]) : s[b(i - 1) + 1 + j] = line[i][j]
  BY Spelling
<1>2. n \in Nat /\ n + 2 <= b(k) /\ \A i \in 1..n : text[i] = s[i + 2]
  BY <1>1, LenProperties
<1>3. /\ w(0) = <<>>
      /\ \A i \in 1..n : w(i) = IF text[i] = "SP" THEN w(i - 1)
              ELSE IF i > 1 /\ text[i - 1] # "SP"
                   THEN Append(Front(w(i - 1)), Append(Last(w(i - 1)), text[i]))
              ELSE Append(w(i - 1), <<text[i]>>)
  <2> DEFINE f == Words(text)
  <2>1. f = [i \in 0..n |->
              IF i = 0 THEN <<>>
              ELSE IF text[i] = "SP" THEN f[i - 1]
              ELSE IF i > 1 /\ text[i - 1] # "SP"
                   THEN Append(Front(f[i - 1]), Append(Last(f[i - 1]), text[i]))
              ELSE Append(f[i - 1], <<text[i]>>)]
    BY <1>2, WordsIs
  <2> HIDE DEF f, n
  <2>2. 0 \in 0..n /\ \A i \in 1..n : i \in 0..n /\ i # 0
    BY <1>2
  <2>3. QED
    BY <2>1, <2>2 DEF f
<1>4. \A m \in 1..k : /\ line[m] \in Seq(Pieces) /\ Len(line[m]) \in Nat \ {0}
                      /\ \A j \in 1 .. Len(line[m]) : line[m][j] \in Pieces
  BY LineIs, WordIs
<1> HIDE DEF k, n, s, b, w
<1>5. Good(0)
  <2>1. 1 \in 1..k /\ 0 \in 0 .. Len(line[1]) /\ 1 - 1 = 0
    BY <1>1, <1>4
  <2>2. <<>> \in Seq(Texts) /\ Len(<<>>) = 0
    BY EmptySeq
  <2>3. At(0, 1, 0)
    <3>1. 0 + 2 = b(1 - 1) + 1 + 0
      BY <1>1, <2>1
    <3>2. Upto(w(0), line, 1, 0)
      <4>1. 1 .. 1 - 1 = {} /\ 1 - 1 = 0
        OBVIOUS
      <4>2. QED
        BY <1>3, <2>2, <4>1 DEF Upto
    <3>3. QED
      BY <3>1, <3>2
  <2> HIDE DEF At
  <2>4. QED
    BY <2>1, <2>3
<1>6. ASSUME NEW r \in 1..n, NEW m \in 1..k, NEW j \in 0 .. Len(line[m]), At(r - 1, m, j)
      PROVE  Good(r)
  <2>1. /\ r \in Nat /\ r - 1 + 2 = r + 1 /\ b(m - 1) \in Nat \ {0} /\ m \in Nat /\ j \in Nat
        /\ r + 1 = b(m - 1) + 1 + j /\ text[r] = s[r + 2] /\ r + 2 = b(m - 1) + 1 + (j + 1)
    <3>1. r \in Nat /\ m \in Nat /\ j \in Nat /\ m - 1 \in 0..k
      BY <1>1, <1>2, <1>4
    <3>2. b(m - 1) \in Nat \ {0} /\ text[r] = s[r + 2]
      BY <1>1, <1>2, <3>1
    <3>3. r - 1 + 2 = b(m - 1) + 1 + j
      BY <1>6
    <3>4. QED
      BY <3>1, <3>2, <3>3
  <2>2. Upto(w(r - 1), line, m, j)
    BY <1>6
  <2>3. CASE j = Len(line[m])
    <3>1. b(m) = r + 1 /\ j # 0
      BY <1>1, <1>4, <2>1, <2>3
    <3>2. m + 1 \in 1..k /\ m + 1 - 1 = m
      <4>1. m # k
        BY <1>1, <1>2, <2>1, <3>1
      <4>2. k \in Nat /\ m \in 1..k
        BY <1>1
      <4>3. QED
        BY <4>1, <4>2
    <3>3. text[r] = "SP"
      <4>1. s[b(m) + 1] = "SP"
        <5>1. PICK h \in 1..k : h = m + 1 /\ h - 1 = m
          BY <3>2
        <5>2. s[b(h - 1) + 1] = "SP"
          BY <1>1
        <5>3. QED
          BY <5>1, <5>2
      <4>2. QED
        BY <2>1, <3>1, <4>1
    <3>4. w(r) = w(r - 1)
      BY <1>3, <3>3
    <3>5. w(r - 1)[m] = line[m]
      <4>1. /\ w(r - 1)[m] \in Seq(Pieces) /\ Len(w(r - 1)[m]) = Len(line[m])
            /\ \A y \in 1 .. Len(w(r - 1)[m]) : w(r - 1)[m][y] = line[m][y]
        BY <2>2, <2>3, <3>1 DEF Upto, Texts
      <4>2. QED
        BY <1>4, <4>1, SeqEqual
    <3>6. Upto(w(r), line, m + 1, 0)
      <4>1. \A x \in 1..m : w(r)[x] = line[x]
        <5>1. \A x \in 1..m : x = m \/ x \in 1 .. m - 1
          BY <2>1
        <5>2. QED
          BY <2>2, <3>4, <3>5, <5>1 DEF Upto
      <4>2. QED
        BY <2>2, <3>1, <3>2, <3>4, <4>1 DEF Upto
    <3>7. r + 2 = b(m + 1 - 1) + 1 + 0
      BY <2>1, <3>1, <3>2
    <3>8. 0 \in 0 .. Len(line[m + 1])
      BY <1>4, <3>2
    <3>9. At(r, m + 1, 0)
      BY <3>6, <3>7
    <3> HIDE DEF At
    <3>10. QED
      BY <3>2, <3>8, <3>9
  <2>4. CASE j # Len(line[m])
    <3>1. j + 1 \in 1 .. Len(line[m]) /\ j + 1 \in 0 .. Len(line[m])
      BY <1>4, <2>1, <2>4
    <3>2. text[r] = line[m][j + 1] /\ text[r] \in Pieces /\ text[r] # "SP"
      <4>1. s[b(m - 1) + 1 + (j + 1)] = line[m][j + 1]
        BY <1>1, <3>1
      <4>2. text[r] = line[m][j + 1] /\ text[r] \in Pieces
        BY <1>4, <2>1, <3>1, <4>1
      <4>3. QED
        BY <4>2, PiecesAre
    <3>3. CASE j = 0
      <4>1. ~(r > 1 /\ text[r - 1] # "SP")
        <5> SUFFICES ASSUME r > 1 PROVE text[r - 1] = "SP"
          OBVIOUS
        <5>1. r - 1 \in 1..n /\ r - 1 + 2 = b(m - 1) + 1
          BY <1>2, <2>1, <3>3
        <5>2. QED
          BY <1>1, <1>2, <5>1
      <4>2. w(r) = Append(w(r - 1), <<text[r]>>)
        BY <1>3, <3>2, <4>1
      <4>3. w(r - 1) \in Seq(Texts) /\ Len(w(r - 1)) = m - 1 /\ Len(w(r - 1)) + 1 = m
        <5>1. w(r - 1) \in Seq(Texts) /\ Len(w(r - 1)) = m - 1
          BY <2>2, <3>3 DEF Upto
        <5>2. m - 1 + 1 = m
          BY <2>1
        <5>3. QED
          BY <5>1, <5>2
      <4>4. /\ w(r) \in Seq(Texts) /\ Len(w(r)) = m
            /\ \A x \in 1 .. m - 1 : w(r)[x] = w(r - 1)[x]
            /\ w(r)[m] \in Texts /\ Len(w(r)[m]) = 1 /\ w(r)[m][1] = text[r]
        <5>1. PICK u, v, c : u = w(r - 1) /\ v = w(r) /\ c = text[r]
          OBVIOUS
        <5>2. u \in Seq(Texts) /\ c \in Pieces /\ v = Append(u, <<c>>)
          BY <3>2, <4>2, <4>3, <5>1
        <5>3. /\ v \in Seq(Texts) /\ Len(v) = Len(u) + 1
              /\ \A x \in 1 .. Len(u) : v[x] = u[x]
              /\ v[Len(u) + 1] \in Texts /\ Len(v[Len(u) + 1]) = 1
              /\ v[Len(u) + 1][1] = c
          BY <5>2, WordBegun
        <5>4. QED
          BY <4>3, <5>1, <5>3
      <4>5. Upto(w(r), line, m, 1)
        <5>1. w(r)[m][1] = line[m][1]
          BY <3>2, <3>3, <4>4
        <5>2. \A y \in 1..1 : y = 1
          OBVIOUS
        <5>3. \A x \in 1 .. m - 1 : w(r)[x] = line[x]
          BY <2>2, <4>4 DEF Upto
        <5>4. QED
          BY <4>4, <5>1, <5>2, <5>3 DEF Upto
      <4>6. At(r, m, 1)
        BY <2>1, <3>3, <4>5
      <4> HIDE DEF At
      <4>7. QED
        BY <3>1, <3>3, <4>6
    <3>4. CASE j # 0
      <4>1. r > 1 /\ text[r - 1] # "SP"
        <5>1. j \in 1 .. Len(line[m]) /\ r - 1 \in 1..n /\ r - 1 + 2 = b(m - 1) + 1 + j
          <6>1. j \in 1 .. Len(line[m])
            BY <1>4, <2>1, <3>4
          <6>2. r - 1 + 2 = b(m - 1) + 1 + j
            BY <2>1
          <6>3. r - 1 \in 1..n
            <7>1. PICK a \in Nat \ {0} : a = b(m - 1)
              BY <2>1
            <7>2. r + 1 = a + 1 + j /\ j >= 1 /\ j \in Nat
              BY <2>1, <3>4, <7>1
            <7>3. n \in Nat
              BY <1>2
            <7>4. QED
              BY <7>1, <7>2, <7>3
          <6>4. QED
            BY <6>1, <6>2, <6>3
        <5>2. text[r - 1] = line[m][j]
          BY <1>1, <1>2, <5>1
        <5>3. line[m][j] \in Pieces
          BY <1>4, <5>1
        <5>4. QED
          BY <2>1, <5>1, <5>2, <5>3, PiecesAre
      <4>2. w(r) = Append(Front(w(r - 1)), Append(Last(w(r - 1)), text[r]))
        BY <1>3, <3>2, <4>1
      <4>3. w(r - 1) \in Seq(Texts) /\ Len(w(r - 1)) = m /\ m \in Nat \ {0} /\ Len(w(r - 1)[m]) = j
        BY <2>1, <2>2, <3>4 DEF Upto
      <4>4. /\ w(r) \in Seq(Texts) /\ Len(w(r)) = m
            /\ \A x \in 1 .. m - 1 : w(r)[x] = w(r - 1)[x]
            /\ w(r)[m] \in Texts /\ Len(w(r)[m]) = j + 1
            /\ \A y \in 1..j : w(r)[m][y] = w(r - 1)[m][y]
            /\ w(r)[m][j + 1] = text[r]
        <5>1. PICK u, v, c : u = w(r - 1) /\ v = w(r) /\ c = text[r]
          OBVIOUS
        <5>2. /\ u \in Seq(Texts) /\ c \in Pieces /\ v = Extended(u, c)
              /\ m \in Nat /\ m # 0 /\ Len(u) = m
          BY <3>2, <4>2, <4>3, <5>1 DEF Extended
        <5>3. GoesOn(v, u, m, c)
          BY <5>2, WordContinued
        <5>4. QED
          BY <4>3, <5>1, <5>3 DEF GoesOn
      <4>5. \A y \in 1 .. j + 1 : w(r)[m][y] = line[m][y]
        <5>1. \A y \in 1 .. j + 1 : y = j + 1 \/ y \in 1..j
          BY <2>1
        <5>2. QED
          BY <2>2, <3>2, <3>4, <4>4, <5>1 DEF Upto
      <4>6. Upto(w(r), line, m, j + 1)
        BY <2>1, <2>2, <3>4, <4>4, <4>5 DEF Upto
      <4>7. At(r, m, j + 1)
        BY <2>1, <4>6
      <4> HIDE DEF At
      <4>8. QED
        BY <3>1, <4>7
    <3>5. QED
      BY <3>3, <3>4
  <2>5. QED
    BY <2>3, <2>4
<1>7. ASSUME NEW q \in Nat, q \in T PROVE q + 1 \in T
  <2>1. CASE q + 1 <= n
    <3>1. PICK r \in 1..n : r = q + 1 /\ r - 1 = q
      BY <1>2, <2>1
    <3> HIDE DEF At
    <3>2. Good(q)
      <4>1. q <= n
        BY <1>2, <2>1
      <4> HIDE DEF Good
      <4>2. QED
        BY <1>7, <4>1
    <3>3. PICK m \in 1..k : \E j \in 0 .. Len(line[m]) : At(q, m, j)
      BY <3>2
    <3>4. PICK j \in 0 .. Len(line[m]) : At(q, m, j)
      BY <3>3
    <3>5. At(r - 1, m, j)
      BY <3>1, <3>4
    <3> HIDE DEF Good
    <3>6. Good(r)
      BY <1>6, <3>5
    <3>7. QED
      BY <3>1, <3>6
  <2>2. CASE ~(q + 1 <= n)
    BY <2>2
  <2>3. QED
    BY <2>1, <2>2
<1>8. \A q \in 0..n : Good(q)
  <2> HIDE DEF Good
  <2>1. 0 \in T
    BY <1>5
  <2>2. \A q \in Nat : q \in T => q + 1 \in T
    <3> HIDE DEF T
    <3>1. QED
      BY <1>7
  <2> HIDE DEF T
  <2>3. Nat \subseteq T
    BY <2>1, <2>2, Induction
  <2>4. QED
    BY <1>2, <2>3 DEF T
<1>9. QED
  BY <1>8 DEF k, n, s, b, w

-----------------------------------------------------------------------------
(******************************* A segment *********************************)

LEMMA WireIs ==
    ASSUME NEW line \in Seq(Word)
    PROVE  LET s == Spelled(line)[Len(line)] IN
           /\ Wire(line) \in Seq(Fragments) /\ Len(Wire(line)) = Len(s) + 2
           /\ \A p \in 1 .. Len(s) : Wire(line)[p] = s[p]
           /\ Wire(line)[Len(s) + 1] = "CR" /\ Wire(line)[Len(s) + 2] = "LF"
<1> DEFINE s == Spelled(line)[Len(line)]
           e == <<"CR", "LF">>
<1>1. s \in Seq(Fragments) /\ Len(s) \in Nat
  BY Spelling
<1>2. e \in Seq(Fragments) /\ Len(e) = 2 /\ e[1] = "CR" /\ e[2] = "LF"
  <2>1. "CR" \in Fragments /\ "LF" \in Fragments
    BY DEF Fragments
  <2>2. <<"CR">> \in Seq(Fragments) /\ e = Append(<<"CR">>, "LF")
    BY <2>1, Single
  <2>3. QED
    BY <2>1, <2>2, AppendProperties
<1> HIDE DEF s, e
<1>3. /\ s \o e \in Seq(Fragments) /\ Len(s \o e) = Len(s) + Len(e)
      /\ \A i \in 1 .. Len(s) + Len(e) : (s \o e)[i] = IF i <= Len(s) THEN s[i] ELSE e[i - Len(s)]
  BY <1>1, <1>2, Joined
<1>4. /\ Len(s) + 1 \in 1 .. Len(s) + Len(e) /\ ~(Len(s) + 1 <= Len(s))
      /\ Len(s) + 2 \in 1 .. Len(s) + Len(e) /\ ~(Len(s) + 2 <= Len(s))
      /\ Len(s) + 1 - Len(s) = 1 /\ Len(s) + 2 - Len(s) = 2
      /\ \A p \in 1 .. Len(s) : p \in 1 .. Len(s) + Len(e) /\ p <= Len(s)
  BY <1>1, <1>2
<1>5. Wire(line) = s \o e
  BY DEF Wire, s, e
<1>6. QED
  BY <1>2, <1>3, <1>4, <1>5 DEF s

\* The text of a segment, up to the first CR or LF.
LEMMA TextIs ==
    ASSUME NEW segment \in Seq(Fragments), Len(segment) >= 2
    PROVE  LET t == Text(segment) IN
           /\ t \in Seq(Fragments) /\ Len(t) \in Nat /\ Len(t) + 2 <= Len(segment)
           /\ \A i \in 1 .. Len(t) : t[i] = segment[i + 2] /\ t[i] \notin {"CR", "LF"}
           /\ Len(t) + 2 # Len(segment) => segment[Len(t) + 3] \in {"CR", "LF"}
<1> DEFINE n == Len(segment)
           rest == SubSeq(segment, 3, n)
           I == {i \in 1 .. Len(rest) : rest[i] \in {"CR", "LF"}}
           last == IF I # {} THEN Min(I) ELSE 0
<1>1. n \in Nat /\ n >= 2
  BY LenProperties
<1>2. rest \in Seq(Fragments) /\ Len(rest) = n - 2 /\ \A i \in 1 .. n - 2 : rest[i] = segment[i + 2]
  <2>1. 3 \in Nat \ {0} /\ n \in Int /\ n <= Len(segment) /\ 3 <= n + 1
    BY <1>1
  <2>2. /\ rest \in Seq(Fragments) /\ Len(rest) = n - 3 + 1
        /\ \A i \in 1 .. n - 3 + 1 : rest[i] = segment[3 + i - 1]
    BY <2>1, Part
  <2>3. n - 3 + 1 = n - 2 /\ \A i \in Int : 3 + i - 1 = i + 2
    BY <1>1
  <2> HIDE DEF rest, n
  <2>4. QED
    BY <2>2, <2>3
<1>3. Text(segment) = SubSeq(rest, 1, IF last = 0 THEN Len(rest) ELSE last - 1)
  BY DEF Text, SelectInSeq
<1> HIDE DEF rest, n
<1>4. CASE I = {}
  <2>1. last = 0
    BY <1>4
  <2>2. Text(segment) = SubSeq(rest, 1, Len(rest))
    <3> HIDE DEF last
    <3>1. QED
      BY <1>3, <2>1
  <2>3. Text(segment) = rest
    BY <1>2, <2>2, SubSeqFull
  <2>4. \A i \in 1 .. Len(rest) : rest[i] \notin {"CR", "LF"}
    BY <1>4
  <2>5. QED
    BY <1>1, <1>2, <2>3, <2>4 DEF n
<1>5. CASE I # {}
  <2>1. Min(I) \in I /\ \A i \in I : Min(I) <= i
    <3>1. I \subseteq Nat
      BY <1>1, <1>2
    <3> HIDE DEF I
    <3>2. \E x \in I : \A y \in I : x <= y
      BY <1>5, <3>1, Least
    <3>3. QED
      BY <3>2 DEF Min
  <2>2. PICK m \in 1 .. n - 2 :
           m = last /\ rest[m] \in {"CR", "LF"} /\ \A i \in 1 .. n - 2 : i < m => i \notin I
    <3>1. last = Min(I)
      BY <1>5
    <3>2. Min(I) \in 1 .. n - 2 /\ rest[Min(I)] \in {"CR", "LF"}
      BY <1>2, <2>1
    <3>3. \A i \in 1 .. n - 2 : i < Min(I) => i \notin I
      <4> HIDE DEF I
      <4>1. QED
        BY <1>1, <2>1, <3>2
    <3> HIDE DEF I, last
    <3>4. QED
      BY <3>1, <3>2, <3>3
  <2> HIDE DEF last
  <2> DEFINE t == SubSeq(rest, 1, m - 1)
  <2>3. Text(segment) = t
    BY <1>1, <1>3, <2>2
  <2>4. t \in Seq(Fragments) /\ Len(t) = m - 1 /\ \A i \in 1 .. m - 1 : t[i] = rest[i]
    <3>1. 1 \in Nat \ {0} /\ m - 1 \in Int /\ m - 1 <= Len(rest) /\ 1 <= m - 1 + 1
      BY <1>1, <1>2
    <3>2. /\ t \in Seq(Fragments) /\ Len(t) = m - 1 - 1 + 1
          /\ \A i \in 1 .. m - 1 - 1 + 1 : t[i] = rest[1 + i - 1]
      BY <1>2, <3>1, Part
    <3>3. m - 1 - 1 + 1 = m - 1 /\ \A i \in Int : 1 + i - 1 = i
      BY <1>1
    <3> HIDE DEF t
    <3>4. QED
      BY <3>2, <3>3
  <2> HIDE DEF t
  <2>5. Len(t) \in Nat /\ Len(t) + 2 <= n
    BY <1>1, <2>4
  <2>6. ASSUME NEW i \in 1 .. Len(t) PROVE t[i] = segment[i + 2] /\ t[i] \notin {"CR", "LF"}
    <3>1. i \in 1 .. n - 2 /\ i < m /\ i \in 1 .. m - 1
      BY <1>1, <2>4
    <3>2. t[i] = rest[i] /\ rest[i] = segment[i + 2]
      BY <1>2, <2>4, <3>1
    <3>3. i \notin I /\ i \in 1 .. Len(rest)
      BY <1>2, <2>2, <3>1
    <3>4. QED
      BY <3>2, <3>3
  <2>7. segment[Len(t) + 3] \in {"CR", "LF"}
    <3>1. m + 2 = Len(t) + 3
      BY <1>1, <2>4
    <3>2. rest[m] = segment[m + 2]
      BY <1>2
    <3>3. QED
      BY <2>2, <3>1, <3>2
  <2>8. QED
    BY <2>3, <2>4, <2>5, <2>6, <2>7 DEF n
<1>6. QED
  BY <1>4, <1>5

\* The segment begins as the line does when it is sent, as far as either goes.
StartsAs(segment, line) ==
    \A p \in 1 .. Len(segment) : p <= Len(Wire(line)) => segment[p] = Wire(line)[p]

\* Words that are the first ones of a line, but for the last, which may be cut.
Begins(w, line) ==
    LET n == Len(w) IN
    /\ w \in Seq(Texts) /\ n <= Len(line)
    /\ \A x \in 1 .. n - 1 : w[x] = line[x]
    /\ n # 0 => /\ w[n] \in Texts /\ Len(w[n]) <= Len(line[n])
                /\ \A y \in 1 .. Len(w[n]) : w[n][y] = line[n][y]

\* The text of such a segment ends inside the spelling of the line.
LEMMA TextOfLine ==
    ASSUME NEW line \in Seq(Word), NEW segment \in Seq(Fragments), Len(segment) >= 2,
           StartsAs(segment, line)
    PROVE  LET t == Text(segment)
               s == Spelled(line)[Len(line)]
           IN /\ t \in Seq(Fragments) /\ Len(t) \in Nat
              /\ Len(line) = 0 => Len(t) = 0
              /\ Len(line) # 0 => Len(t) + 2 <= Len(s) /\ \A i \in 1 .. Len(t) : t[i] = s[i + 2]
              /\ Len(line) # 0 /\ segment = Wire(line) => Len(t) + 2 = Len(s)
<1> DEFINE t == Text(segment)
           s == Spelled(line)[Len(line)]
           wire == Wire(line)
           n == Len(t)
           l == Len(s)
<1>1. /\ t \in Seq(Fragments) /\ n \in Nat /\ n + 2 <= Len(segment) /\ Len(segment) \in Nat
      /\ \A i \in 1..n : t[i] = segment[i + 2] /\ t[i] \notin {"CR", "LF"}
      /\ n + 2 # Len(segment) => segment[n + 3] \in {"CR", "LF"}
  BY TextIs, LenProperties
<1>2. /\ l \in Nat \ {0} /\ Len(line) \in Nat /\ l = Behind(line, Len(line))
      /\ \A p \in 2..l : s[p] \in Pieces \cup {"SP"}
      /\ Len(line) = 0 => l = 1
      /\ Len(line) # 0 => l >= 3
  <2>1. /\ l \in Nat \ {0} /\ Len(line) \in Nat /\ l = Behind(line, Len(line))
        /\ \A p \in 2..l : s[p] \in Pieces \cup {"SP"} /\ Behind(line, 0) = 1
    BY Spelling
  <2>2. CASE Len(line) # 0
    <3>1. PICK k \in 1 .. Len(line) : k = Len(line)
      BY <2>1, <2>2
    <3>2. Behind(line, k) = Behind(line, k - 1) + 1 + Len(line[k])
      BY Spelling
    <3>3. k - 1 \in 0 .. Len(line)
      BY <2>1
    <3>4. Behind(line, k - 1) \in Nat \ {0}
      BY <3>3, Spelling
    <3>5. Len(line[k]) \in Nat \ {0}
      BY LineIs, WordIs
    <3> HIDE DEF l, s
    <3>6. l >= 3
      BY <2>1, <3>1, <3>2, <3>4, <3>5
    <3>7. QED
      BY <2>1, <2>2, <3>6
  <2>3. CASE Len(line) = 0
    BY <2>1, <2>3, Spelling
  <2>4. QED
    BY <2>1, <2>2, <2>3
<1>3. /\ Len(wire) = l + 2 /\ \A p \in 1..l : wire[p] = s[p]
      /\ wire[l + 1] = "CR" /\ wire[l + 2] = "LF"
  BY WireIs
<1>4. \A p \in 1 .. Len(segment) : p <= Len(wire) => segment[p] = wire[p]
  BY DEF StartsAs
<1> HIDE DEF t, s, wire, n, l
<1>5. CASE Len(line) = 0
  <2>1. n = 0
    <3> SUFFICES ASSUME n # 0 PROVE FALSE
      OBVIOUS
    <3>1. 1 \in 1..n /\ 3 \in 1 .. Len(segment) /\ 3 <= Len(wire) /\ l + 2 = 3 /\ 1 + 2 = 3
      BY <1>1, <1>2, <1>3, <1>5
    <3>2. t[1] = "LF"
      BY <1>1, <1>3, <1>4, <3>1
    <3>3. QED
      BY <1>1, <3>1, <3>2
  <2>2. QED
    BY <1>1, <1>5, <2>1 DEF t, n
<1>6. CASE Len(line) # 0
  <2>1. n + 2 <= l
    <3> SUFFICES ASSUME ~(n + 2 <= l) PROVE FALSE
      OBVIOUS
    <3>1. /\ l - 1 \in 1..n /\ l + 1 \in 1 .. Len(segment) /\ l + 1 <= Len(wire)
          /\ l - 1 + 2 = l + 1
      BY <1>1, <1>2, <1>3, <1>6
    <3>2. t[l - 1] = segment[l + 1] /\ t[l - 1] \notin {"CR", "LF"}
      BY <1>1, <3>1
    <3>3. segment[l + 1] = "CR"
      BY <1>3, <1>4, <3>1
    <3>4. QED
      BY <3>2, <3>3
  <2>2. ASSUME NEW i \in 1..n PROVE t[i] = s[i + 2]
    <3>1. i + 2 \in 1..l /\ i + 2 \in 1 .. Len(segment) /\ i + 2 <= Len(wire)
      BY <1>1, <1>2, <1>3, <2>1
    <3>2. QED
      BY <1>1, <1>3, <1>4, <3>1
  <2>3. ASSUME segment = wire PROVE n + 2 = l
    <3> SUFFICES ASSUME n + 2 # l PROVE FALSE
      OBVIOUS
    <3>1. n + 3 \in 2..l /\ n + 3 \in 1..l /\ n + 2 # Len(segment)
      BY <1>1, <1>2, <1>3, <2>1, <2>3
    <3>2. segment[n + 3] = s[n + 3]
      BY <1>3, <2>3, <3>1
    <3>3. s[n + 3] \in Pieces \cup {"SP"}
      BY <1>2, <3>1
    <3>4. segment[n + 3] \in {"CR", "LF"}
      BY <1>1, <3>1
    <3>5. QED
      BY <3>2, <3>3, <3>4, PiecesAre
  <2>4. QED
    BY <1>1, <1>6, <2>1, <2>2, <2>3 DEF t, s, wire, n, l
<1>7. QED
  BY <1>5, <1>6

\* The words of such a segment before they are counted.
LEMMA WordsOfLine ==
    ASSUME NEW line \in Seq(Word), NEW segment \in Seq(Fragments), Len(segment) >= 2,
           StartsAs(segment, line)
    PROVE  LET w == Words(Text(segment))[Len(Text(segment))] IN
           /\ Begins(w, line)
           /\ segment = Wire(line) => Len(w) = Len(line) /\ \A x \in 1 .. Len(line) : w[x] = line[x]
<1> DEFINE t == Text(segment)
           s == Spelled(line)[Len(line)]
           n == Len(t)
           w == Words(t)[n]
           k == Len(line)
           b(i) == Behind(line, i)
<1>1. /\ t \in Seq(Fragments) /\ n \in Nat
      /\ k = 0 => n = 0
      /\ k # 0 => n + 2 <= Len(s) /\ \A i \in 1..n : t[i] = s[i + 2]
      /\ k # 0 /\ segment = Wire(line) => n + 2 = Len(s)
  BY TextOfLine
<1>2. /\ k \in Nat /\ Len(s) = b(k) /\ b(k) \in Nat
      /\ \A i \in 1..k : line[i] \in Word
  BY Spelling, LineIs
<1>3. CASE k = 0
  <2>1. n = 0 /\ 0 \in 0..n
    BY <1>1, <1>3
  <2>2. Words(t)[0] = <<>>
    BY <1>1, <2>1, WordsIs
  <2>3. w = <<>> /\ <<>> \in Seq(Texts) /\ Len(<<>>) = 0
    BY <2>1, <2>2, EmptySeq
  <2> HIDE DEF w, t, n
  <2>4. /\ w \in Seq(Texts) /\ Len(w) = 0 /\ Len(w) = Len(line)
        /\ 1 .. 0 - 1 = {} /\ 1 .. Len(line) = {}
    BY <1>2, <1>3, <2>3
  <2>5. Begins(w, line)
    BY <1>2, <2>4 DEF Begins
  <2>6. QED
    BY <2>4, <2>5 DEF w, t, n
<1>4. CASE k # 0
  <2>1. PICK m \in 1..k : \E j \in 0 .. Len(line[m]) :
           n + 2 = b(m - 1) + 1 + j /\ Upto(w, line, m, j)
    <3>1. n \in 0..n
      BY <1>1
    <3>2. \A q \in 0..n : \E m \in 1..k : \E j \in 0 .. Len(line[m]) :
             q + 2 = b(m - 1) + 1 + j /\ Upto(Words(t)[q], line, m, j)
      <4> HIDE DEF t
      <4>1. QED
        BY <1>1, <1>4, Scanned
    <3>3. QED
      BY <3>1, <3>2
  <2>2. PICK j \in 0 .. Len(line[m]) : n + 2 = b(m - 1) + 1 + j /\ Upto(w, line, m, j)
    BY <2>1
  <2>3. /\ m \in Nat \ {0} /\ j \in Nat /\ Len(line[m]) \in Nat \ {0} /\ line[m] \in Word
        /\ b(m - 1) \in Nat /\ b(m) = b(m - 1) + 1 + Len(line[m]) /\ b(m) \in Nat
    <3>1. m \in Nat \ {0} /\ line[m] \in Word /\ m - 1 \in 0..k /\ m \in 0..k
      BY <1>2
    <3>2. Len(line[m]) \in Nat \ {0}
      BY <3>1, WordIs
    <3>3. /\ b(m - 1) \in Nat /\ b(m) = b(m - 1) + 1 + Len(line[m]) /\ b(m) \in Nat
      BY <3>1, Spelling
    <3>4. QED
      BY <3>1, <3>2, <3>3
  <2> HIDE DEF w, t, n, s
  <2>4. Begins(w, line)
    <3>1. CASE j = 0
      <4>1. w \in Seq(Texts) /\ Len(w) = m - 1 /\ \A x \in 1 .. m - 1 : w[x] = line[x]
        BY <2>2, <3>1 DEF Upto
      <4>2. Len(w) <= k /\ \A x \in 1 .. Len(w) - 1 : w[x] = line[x]
        BY <1>2, <2>3, <4>1
      <4>3. ASSUME Len(w) # 0
            PROVE  w[Len(w)] \in Texts /\ w[Len(w)] = line[Len(w)] /\ Len(w[Len(w)]) \in Nat
        <5>1. Len(w) \in 1 .. m - 1 /\ Len(w) \in 1 .. Len(w)
          BY <2>3, <4>1, <4>3
        <5>2. w[Len(w)] \in Texts
          BY <4>1, <5>1, ElementOfSeq
        <5>3. Len(w[Len(w)]) \in Nat
          BY <5>2, LenProperties DEF Texts
        <5>4. QED
          BY <4>1, <5>1, <5>2, <5>3
      <4>4. QED
        BY <4>1, <4>2, <4>3 DEF Begins
    <3>2. CASE j # 0
      <4>1. /\ w \in Seq(Texts) /\ Len(w) = m /\ \A x \in 1 .. m - 1 : w[x] = line[x]
            /\ w[m] \in Texts /\ Len(w[m]) = j /\ \A y \in 1..j : w[m][y] = line[m][y]
        BY <2>2, <3>2 DEF Upto
      <4>2. Len(w) <= k /\ j <= Len(line[m])
        BY <1>2, <2>3, <4>1
      <4>3. QED
        BY <4>1, <4>2 DEF Begins
    <3>3. QED
      BY <3>1, <3>2
  <2>5. ASSUME segment = Wire(line)
        PROVE  Len(w) = k /\ \A x \in 1..k : w[x] = line[x]
    <3>1. n + 2 = b(k)
      BY <1>1, <1>2, <1>4, <2>5
    <3>2. m = k
      <4> SUFFICES ASSUME m # k PROVE FALSE
        OBVIOUS
      <4>1. k \in 0..k /\ m \in 0..k
        BY <1>2, <2>3
      <4>2. b(m) < b(k)
        BY <4>1, SpelledOn
      <4>3. QED
        BY <1>1, <1>2, <2>2, <2>3, <3>1, <4>2
    <3>3. j = Len(line[m]) /\ j # 0
      BY <1>1, <1>2, <2>2, <2>3, <3>1, <3>2
    <3>4. /\ Len(w) = m /\ \A x \in 1 .. m - 1 : w[x] = line[x]
          /\ w[m] \in Texts /\ Len(w[m]) = j /\ \A y \in 1..j : w[m][y] = line[m][y]
      BY <2>2, <3>3 DEF Upto
    <3>5. w[m] = line[m]
      <4>1. w[m] \in Seq(Pieces) /\ line[m] \in Seq(Pieces)
        BY <2>3, <3>4, WordIs DEF Texts
      <4>2. QED
        BY <3>3, <3>4, <4>1, SeqEqual
    <3>6. ASSUME NEW x \in 1..k PROVE w[x] = line[x]
      <4>1. x = m \/ x \in 1 .. m - 1
        BY <2>3, <3>2
      <4>2. QED
        BY <3>4, <3>5, <4>1
    <3>7. QED
      BY <3>2, <3>4, <3>6
  <2>6. QED
    BY <2>4, <2>5 DEF w, t, n
<1>5. QED
  BY <1>3, <1>4

\* The words a parse keeps.
LEMMA Parsed ==
    ASSUME NEW line \in Seq(Word), NEW segment \in Seq(Fragments), Len(segment) >= 2,
           StartsAs(segment, line)
    PROVE  LET w == config_parse_args(Text(segment)) IN
           /\ Begins(w, line) /\ w \in Seq(Texts) /\ Len(w) \in Nat
           /\ segment = Wire(line) =>
                 /\ Len(w) = IF Len(line) < MAX_ARGS THEN Len(line) ELSE MAX_ARGS
                 /\ \A x \in 1 .. Len(w) : w[x] = line[x]
<1> DEFINE t == Text(segment)
           v == Words(t)[Len(t)]
           n == IF Len(v) < MAX_ARGS THEN Len(v) ELSE MAX_ARGS
           w == SubSeq(v, 1, n)
<1>1. /\ Begins(v, line)
      /\ segment = Wire(line) => Len(v) = Len(line) /\ \A x \in 1 .. Len(line) : v[x] = line[x]
  BY WordsOfLine
<1>2. config_parse_args(t) = w
  BY DEF config_parse_args
<1>3. Len(line) \in Nat /\ MAX_ARGS \in Nat \ {0}
  BY LineIs, DispatchAssumption
<1> HIDE DEF t, v
<1>4. v \in Seq(Texts) /\ Len(v) \in Nat
  BY <1>1, LenProperties DEF Begins
<1>5. n \in Nat /\ n <= Len(v)
  BY <1>3, <1>4
<1>6. n = Len(v) \/ (n = MAX_ARGS /\ n < Len(v))
  BY <1>3, <1>4
<1> HIDE DEF n
<1>7. w \in Seq(Texts) /\ Len(w) = n /\ \A x \in 1..n : w[x] = v[x]
  <2>1. 1 \in Nat \ {0} /\ n \in Int /\ n <= Len(v) /\ 1 <= n + 1
    BY <1>5
  <2>2. /\ w \in Seq(Texts) /\ Len(w) = n - 1 + 1
        /\ \A x \in 1 .. n - 1 + 1 : w[x] = v[1 + x - 1]
    BY <1>4, <2>1, Part
  <2>3. n - 1 + 1 = n /\ \A x \in Int : 1 + x - 1 = x
    BY <1>5
  <2> HIDE DEF w
  <2>4. QED
    BY <2>2, <2>3
<1> HIDE DEF w
<1>8. Begins(w, line)
  <2>1. /\ Len(v) <= Len(line) /\ \A x \in 1 .. Len(v) - 1 : v[x] = line[x]
        /\ Len(v) # 0 => /\ v[Len(v)] \in Texts /\ Len(v[Len(v)]) <= Len(line[Len(v)])
                         /\ \A y \in 1 .. Len(v[Len(v)]) : v[Len(v)][y] = line[Len(v)][y]
    BY <1>1 DEF Begins
  <2>2. \A x \in 1 .. n - 1 : w[x] = line[x]
    BY <1>4, <1>5, <1>7, <2>1
  <2>3. ASSUME n # 0
        PROVE  /\ w[n] \in Texts /\ Len(w[n]) <= Len(line[n])
               /\ \A y \in 1 .. Len(w[n]) : w[n][y] = line[n][y]
    <3>1. n \in 1..n /\ n \in 1 .. Len(v)
      BY <1>4, <1>5, <2>3
    <3>2. w[n] = v[n] /\ v[n] \in Texts
      BY <1>4, <1>7, <3>1, ElementOfSeq
    <3>3. Len(v[n]) \in Nat
      BY <3>2, LenProperties DEF Texts
    <3>4. CASE n = Len(v)
      BY <2>1, <2>3, <3>2, <3>4
    <3>5. CASE n < Len(v)
      <4>1. n \in 1 .. Len(v) - 1
        BY <1>4, <3>1, <3>5
      <4>2. w[n] = line[n]
        BY <2>1, <3>2, <4>1
      <4>3. QED
        BY <3>2, <3>3, <4>2
    <3>6. QED
      BY <1>6, <3>4, <3>5
  <2>4. n <= Len(line)
    BY <1>3, <1>4, <1>5, <2>1
  <2>5. QED
    BY <1>7, <2>2, <2>3, <2>4 DEF Begins
<1>9. ASSUME segment = Wire(line)
      PROVE  /\ Len(w) = IF Len(line) < MAX_ARGS THEN Len(line) ELSE MAX_ARGS
             /\ \A x \in 1 .. Len(w) : w[x] = line[x]
  <2>1. Len(v) = Len(line) /\ \A x \in 1 .. Len(line) : v[x] = line[x]
    BY <1>1, <1>9
  <2>2. \A x \in 1..n : x \in 1 .. Len(line)
    BY <1>3, <1>4, <1>5, <2>1
  <2>3. QED
    BY <1>7, <2>1, <2>2 DEF n
<1>10. QED
  BY <1>2, <1>5, <1>7, <1>8, <1>9 DEF t

\* What they have to do with the line, in the words of RunsOwnLine.
LEMMA Own ==
    ASSUME NEW line \in Seq(Word), NEW w, Begins(w, line), Len(w) # 0
    PROVE  /\ line # <<>> /\ IsPrefix(w[1], line[1])
           /\ Tail(w) # <<>> => /\ w[1] = line[1] /\ IsPrefix(Front(Tail(w)), Tail(line))
                                /\ IsPrefix(Last(Tail(w)), line[Len(Tail(w)) + 1])
<1> DEFINE n == Len(w)
<1>1. /\ w \in Seq(Texts) /\ n <= Len(line) /\ n \in Nat \ {0} /\ Len(line) \in Nat \ {0}
      /\ \A x \in 1 .. n - 1 : w[x] = line[x]
      /\ w[n] \in Texts /\ Len(w[n]) <= Len(line[n])
      /\ \A y \in 1 .. Len(w[n]) : w[n][y] = line[n][y]
  <2>1. /\ w \in Seq(Texts) /\ n <= Len(line)
        /\ \A x \in 1 .. n - 1 : w[x] = line[x]
        /\ w[n] \in Texts /\ Len(w[n]) <= Len(line[n])
        /\ \A y \in 1 .. Len(w[n]) : w[n][y] = line[n][y]
    BY DEF Begins
  <2>2. n \in Nat /\ Len(line) \in Nat
    BY <2>1, LineIs, LenProperties
  <2> HIDE DEF n
  <2>3. n # 0
    BY DEF n
  <2>4. QED
    BY <2>1, <2>2, <2>3
<1>2. \A x \in 1 .. Len(line) : line[x] \in Texts
  BY LineIs, WordIs DEF Texts
<1>3. IsPrefix(w[n], line[n])
  <2>1. n \in 1 .. Len(line)
    BY <1>1
  <2>2. w[n] \in Seq(Pieces) /\ line[n] \in Seq(Pieces)
    BY <1>1, <1>2, <2>1 DEF Texts
  <2>3. QED
    BY <1>1, <2>2, BeginningIs
<1>4. line # <<>>
  BY <1>1
<1> HIDE DEF n
<1>5. CASE n = 1
  <2>1. Tail(w) = <<>>
    <3>1. w # <<>>
      BY <1>1, EmptyIs DEF n
    <3>2. Tail(w) \in Seq(Texts) /\ Len(Tail(w)) = n - 1
      BY <1>1, <3>1, HeadTailProperties DEF n
    <3>3. Len(Tail(w)) = 0
      BY <1>5, <3>2
    <3>4. QED
      BY <3>2, <3>3, EmptyIs
  <2>2. QED
    BY <1>3, <1>4, <1>5, <2>1
<1>6. CASE n # 1
  <2>1. 1 \in 1 .. n - 1 /\ w[1] = line[1] /\ line[1] \in Texts
    <3>1. 1 \in 1 .. n - 1 /\ 1 \in 1 .. Len(line)
      BY <1>1, <1>6
    <3>2. QED
      BY <1>1, <1>2, <3>1
  <2>2. IsPrefix(w[1], line[1])
    BY <2>1 DEF IsPrefix, Texts
  <2>3. /\ Tail(w) \in Seq(Texts) /\ Len(Tail(w)) = n - 1
        /\ \A x \in 1 .. n - 1 : Tail(w)[x] = w[x + 1]
    <3>1. w # <<>>
      BY <1>1, EmptyIs DEF n
    <3>2. /\ Tail(w) \in Seq(Texts) /\ Len(Tail(w)) = n - 1
          /\ \A x \in 1 .. Len(Tail(w)) : Tail(w)[x] = w[x + 1]
      BY <1>1, <3>1, HeadTailProperties DEF n
    <3>3. QED
      BY <3>2
  <2>4. /\ Tail(line) \in Seq(Texts) /\ Len(Tail(line)) = Len(line) - 1
        /\ \A x \in 1 .. Len(line) - 1 : Tail(line)[x] = line[x + 1]
    <3>1. line \in Seq(Texts)
      <4>1. Word \subseteq Texts
        BY DEF Word, Texts
      <4>2. QED
        BY <4>1, SeqMonotonic
    <3>2. /\ Tail(line) \in Seq(Texts) /\ Len(Tail(line)) = Len(line) - 1
          /\ \A x \in 1 .. Len(Tail(line)) : Tail(line)[x] = line[x + 1]
      BY <1>4, <3>1, HeadTailProperties
    <3>3. QED
      BY <3>2
  <2> DEFINE a == Tail(w)
             front == Front(a)
  <2> HIDE DEF a
  <2>5. front \in Seq(Texts) /\ Len(front) = n - 2 /\ \A x \in 1 .. n - 2 : front[x] = w[x + 1]
    <3>1. 1 \in Nat \ {0} /\ n - 2 \in Int /\ n - 2 <= Len(a) /\ 1 <= n - 2 + 1 /\ Len(a) = n - 1
          /\ Len(a) - 1 = n - 2
      BY <1>1, <1>6, <2>3 DEF a
    <3>2. a \in Seq(Texts) /\ \A x \in 1 .. n - 1 : a[x] = w[x + 1]
      BY <2>3 DEF a
    <3>3. /\ SubSeq(a, 1, n - 2) \in Seq(Texts) /\ Len(SubSeq(a, 1, n - 2)) = n - 2 - 1 + 1
          /\ \A x \in 1 .. n - 2 - 1 + 1 : SubSeq(a, 1, n - 2)[x] = a[1 + x - 1]
      BY <3>1, <3>2, Part
    <3>4. n - 2 - 1 + 1 = n - 2 /\ (\A x \in Int : 1 + x - 1 = x)
          /\ \A x \in 1 .. n - 2 : x \in 1 .. n - 1
      BY <1>1
    <3>5. front = SubSeq(a, 1, n - 2)
      BY <3>1 DEF Front
    <3> HIDE DEF front
    <3>6. QED
      BY <3>2, <3>3, <3>4, <3>5
  <2> HIDE DEF front
  <2>6. IsPrefix(front, Tail(line))
    <3>1. Len(front) <= Len(Tail(line))
      BY <1>1, <2>4, <2>5
    <3>2. ASSUME NEW x \in 1 .. Len(front) PROVE front[x] = Tail(line)[x]
      <4>1. x \in 1 .. n - 2 /\ x + 1 \in 1 .. n - 1 /\ x \in 1 .. Len(line) - 1
        BY <1>1, <2>5
      <4>2. QED
        BY <1>1, <2>4, <2>5, <4>1
    <3>3. QED
      BY <2>4, <2>5, <3>1, <3>2, BeginningIs
  <2>7. Last(a) = w[n] /\ Len(a) + 1 = n
    <3>1. Len(a) = n - 1 /\ n - 1 \in 1 .. n - 1 /\ n - 1 + 1 = n
      BY <1>1, <1>6, <2>3 DEF a
    <3>2. a[n - 1] = w[n - 1 + 1]
      BY <2>3, <3>1 DEF a
    <3>3. QED
      BY <3>1, <3>2 DEF Last
  <2>8. QED
    BY <1>3, <1>4, <2>1, <2>2, <2>6, <2>7 DEF a, front
<1>7. QED
  BY <1>5, <1>6

-----------------------------------------------------------------------------
(******************************* The table *********************************)

LEMMA Table ==
    /\ Len(config_commands) = 28
    /\ config_commands[1] = <<"R", "ES", "ET">>
    /\ config_commands[2] = <<"R", "ES", "TORE">>
    /\ config_commands[3] = <<"B", "AUD">>
    /\ config_commands[4] = <<"P", "ORT">>
    /\ config_commands[5] = <<"M", "ODE">>
    /\ config_commands[6] = <<"S", "TA">>
    /\ config_commands[7] = <<"AP">>
    /\ config_commands[8] = <<"AP", "NAME">>
    /\ config_commands[9] = <<"F", "LASH">>
    /\ config_commands[10] = <<"G", "PIO", "2">>
    /\ config_commands[11] = <<"M", "APA">>
    /\ config_commands[12] = <<"R", "ES", "ET", "DSP">>
    /\ config_commands[13] = <<"P", "ISCALED">>
    /\ config_commands[14] = <<"G", "PIO", "1", "5">>
    /\ config_commands[15] = <<"G", "PIO", "1", "6">>
    /\ config_commands[16] = <<"V", "ERSION">>
    /\ config_commands[17] = <<"R", "FPOWER">>
    /\ config_commands[18] = <<"I", "NFO">>
    /\ config_commands[19] = <<"H", "EAP">>
    /\ config_commands[20] = <<"C", "PU">>
    /\ config_commands[21] = <<"C", "HIPID">>
    /\ config_commands[22] = <<"F", "LASH", "ID">>
    /\ config_commands[23] = <<"F", "LASH", "SIZE">>
    /\ config_commands[24] = <<"R", "OM">>
    /\ config_commands[25] = <<"S", "WITCH">>
    /\ config_commands[26] = <<"O", "TA">>
    /\ config_commands[27] = <<"L", "OGALARM">>
    /\ config_commands[28] = <<"D", "EEP">>
BY DEF config_commands

LEMMA TableLengths ==
    /\ Len(config_commands[1]) = 3 /\ Len(config_commands[2]) = 3
    /\ Len(config_commands[3]) = 2 /\ Len(config_commands[4]) = 2
    /\ Len(config_commands[5]) = 2 /\ Len(config_commands[6]) = 2
    /\ Len(config_commands[7]) = 1 /\ Len(config_commands[8]) = 2
    /\ Len(config_commands[9]) = 2 /\ Len(config_commands[10]) = 3
    /\ Len(config_commands[11]) = 2 /\ Len(config_commands[12]) = 4
    /\ Len(config_commands[13]) = 2 /\ Len(config_commands[14]) = 4
    /\ Len(config_commands[15]) = 4 /\ Len(config_commands[16]) = 2
    /\ Len(config_commands[17]) = 2 /\ Len(config_commands[18]) = 2
    /\ Len(config_commands[19]) = 2 /\ Len(config_commands[20]) = 2
    /\ Len(config_commands[21]) = 2 /\ Len(config_commands[22]) = 3
    /\ Len(config_commands[23]) = 3 /\ Len(config_commands[24]) = 2
    /\ Len(config_commands[25]) = 2 /\ Len(config_commands[26]) = 2
    /\ Len(config_commands[27]) = 2 /\ Len(config_commands[28]) = 2
BY Table

LEMMA TableBounds == ASSUME NEW x \in 1..28 PROVE Len(config_commands[x]) \in 1..4
BY TableLengths, SMTT(60)

LEMMA TableFirsts ==
    /\ config_commands[1][1] = "R" /\ config_commands[2][1] = "R"
    /\ config_commands[3][1] = "B" /\ config_commands[4][1] = "P"
    /\ config_commands[5][1] = "M" /\ config_commands[6][1] = "S"
    /\ config_commands[7][1] = "AP" /\ config_commands[8][1] = "AP"
    /\ config_commands[9][1] = "F" /\ config_commands[10][1] = "G"
    /\ config_commands[11][1] = "M" /\ config_commands[12][1] = "R"
    /\ config_commands[13][1] = "P" /\ config_commands[14][1] = "G"
    /\ config_commands[15][1] = "G" /\ config_commands[16][1] = "V"
    /\ config_commands[17][1] = "R" /\ config_commands[18][1] = "I"
    /\ config_commands[19][1] = "H" /\ config_commands[20][1] = "C"
    /\ config_commands[21][1] = "C" /\ config_commands[22][1] = "F"
    /\ config_commands[23][1] = "F" /\ config_commands[24][1] = "R"
    /\ config_commands[25][1] = "S" /\ config_commands[26][1] = "O"
    /\ config_commands[27][1] = "L" /\ config_commands[28][1] = "D"
BY Table

LEMMA TableSeconds ==
    /\ config_commands[1][2] = "ES" /\ config_commands[2][2] = "ES"
    /\ config_commands[4][2] = "ORT" /\ config_commands[13][2] = "ISCALED"
    /\ config_commands[5][2] = "ODE" /\ config_commands[11][2] = "APA"
    /\ config_commands[6][2] = "TA" /\ config_commands[25][2] = "WITCH"
    /\ config_commands[9][2] = "LASH" /\ config_commands[10][2] = "PIO"
    /\ config_commands[12][2] = "ES" /\ config_commands[14][2] = "PIO"
    /\ config_commands[15][2] = "PIO" /\ config_commands[17][2] = "FPOWER"
    /\ config_commands[20][2] = "PU" /\ config_commands[21][2] = "HIPID"
    /\ config_commands[22][2] = "LASH" /\ config_commands[23][2] = "LASH"
    /\ config_commands[24][2] = "OM"
BY Table

\* Two entries whose names begin with the same letter.
SameFirst == { <<1, 2>>, <<7, 8>>, <<5, 11>>, <<1, 12>>, <<2, 12>>, <<4, 13>>, <<10, 14>>,
    <<10, 15>>, <<14, 15>>, <<1, 17>>, <<2, 17>>, <<12, 17>>, <<20, 21>>, <<9, 22>>, <<9, 23>>,
    <<22, 23>>, <<1, 24>>, <<2, 24>>, <<12, 24>>, <<17, 24>>, <<6, 25>> }

\* No entry of the table is the beginning of an earlier one.
LEMMA NoneHidden ==
    ASSUME NEW x \in 1..28, NEW i \in 1..28, i < x
    PROVE  ~IsPrefix(config_commands[x], config_commands[i])
<1> SUFFICES ASSUME IsPrefix(config_commands[x], config_commands[i]) PROVE FALSE
  OBVIOUS
<1> DEFINE c == config_commands
<1>1. Len(c[x]) \in 1..4 /\ Len(c[i]) \in 1..4
  BY TableBounds
<1>2. Len(c[x]) <= Len(c[i]) /\ \A p \in 1 .. Len(c[x]) : c[x][p] = c[i][p]
  <2>1. Len(c[x]) \in Nat
    BY <1>1
  <2>2. PICK s, t : s = c[x] /\ t = c[i]
    OBVIOUS
  <2> HIDE DEF c
  <2>3. IsPrefix(s, t)
    BY <2>2 DEF c
  <2>4. Len(s) <= Len(t) /\ \A p \in 1 .. Len(s) : s[p] = t[p]
    BY <2>1, <2>2, <2>3, BeginningHas
  <2>5. QED
    BY <2>2, <2>4
<1>3. c[x][1] = c[i][1]
  <2> HIDE DEF c
  <2>1. QED
    BY <1>1, <1>2
<1>4. <<i, x>> \in SameFirst
  BY <1>3, TableFirsts DEF SameFirst
<1>5. <<i, x>> \in {<<1, 2>>, <<5, 11>>, <<4, 13>>, <<14, 15>>, <<1, 17>>, <<2, 17>>, <<12, 17>>,
                   <<20, 21>>, <<22, 23>>, <<1, 24>>, <<2, 24>>, <<12, 24>>, <<17, 24>>, <<6, 25>>}
  <2>1. Len(c[x]) <= Len(c[i])
    BY <1>2
  <2>2. <<i, x>> \notin {<<7, 8>>, <<1, 12>>, <<2, 12>>, <<10, 14>>, <<10, 15>>, <<9, 22>>, <<9, 23>>}
    <3>1. /\ Len(c[1]) = 3 /\ Len(c[2]) = 3 /\ Len(c[12]) = 4 /\ Len(c[7]) = 1 /\ Len(c[8]) = 2
          /\ Len(c[10]) = 3 /\ Len(c[14]) = 4 /\ Len(c[15]) = 4
          /\ Len(c[9]) = 2 /\ Len(c[22]) = 3 /\ Len(c[23]) = 3
      BY TableLengths
    <3> HIDE DEF c
    <3>2. ASSUME i = 7, x = 8 PROVE FALSE
      <4>1. Len(c[8]) <= Len(c[7])
        BY <2>1, <3>2
      <4>2. QED
        BY <3>1, <4>1
    <3>3. ASSUME i = 1, x = 12 PROVE FALSE
      <4>1. Len(c[12]) <= Len(c[1])
        BY <2>1, <3>3
      <4>2. QED
        BY <3>1, <4>1
    <3>4. ASSUME i = 2, x = 12 PROVE FALSE
      <4>1. Len(c[12]) <= Len(c[2])
        BY <2>1, <3>4
      <4>2. QED
        BY <3>1, <4>1
    <3>5. ASSUME i = 10, x = 14 PROVE FALSE
      <4>1. Len(c[14]) <= Len(c[10])
        BY <2>1, <3>5
      <4>2. QED
        BY <3>1, <4>1
    <3>6. ASSUME i = 10, x = 15 PROVE FALSE
      <4>1. Len(c[15]) <= Len(c[10])
        BY <2>1, <3>6
      <4>2. QED
        BY <3>1, <4>1
    <3>7. ASSUME i = 9, x = 22 PROVE FALSE
      <4>1. Len(c[22]) <= Len(c[9])
        BY <2>1, <3>7
      <4>2. QED
        BY <3>1, <4>1
    <3>8. ASSUME i = 9, x = 23 PROVE FALSE
      <4>1. Len(c[23]) <= Len(c[9])
        BY <2>1, <3>8
      <4>2. QED
        BY <3>1, <4>1
    <3>9. QED
      BY <3>2, <3>3, <3>4, <3>5, <3>6, <3>7, <3>8
  <2>3. QED
    BY <1>4, <2>2 DEF SameFirst
<1>6. c[x][2] = c[i][2]
  <2>1. Len(c[x]) \in 2..4
    BY <1>5, TableLengths
  <2> HIDE DEF c
  <2>2. QED
    BY <1>2, <2>1
<1>7. <<i, x>> \in {<<1, 2>>, <<14, 15>>, <<22, 23>>}
  BY <1>5, <1>6, TableSeconds
<1>8. CASE i = 1 /\ x = 2
  <2>1. c[2][3] = c[1][3]
    <3>1. 3 \in 1 .. Len(c[2])
      BY TableLengths
    <3> HIDE DEF c
    <3>2. QED
      BY <1>2, <1>8, <3>1
  <2>2. c[1] = <<"R", "ES", "ET">> /\ c[2] = <<"R", "ES", "TORE">>
    BY Table
  <2> HIDE DEF c
  <2>3. QED
    BY <2>1, <2>2
<1>9. CASE i = 22 /\ x = 23
  <2>1. c[23][3] = c[22][3]
    <3>1. 3 \in 1 .. Len(c[23])
      BY TableLengths
    <3> HIDE DEF c
    <3>2. QED
      BY <1>2, <1>9, <3>1
  <2>2. c[22] = <<"F", "LASH", "ID">> /\ c[23] = <<"F", "LASH", "SIZE">>
    BY Table
  <2> HIDE DEF c
  <2>3. QED
    BY <2>1, <2>2
<1>10. CASE i = 14 /\ x = 15
  <2>1. c[15][4] = c[14][4]
    <3>1. 4 \in 1 .. Len(c[15])
      BY TableLengths
    <3> HIDE DEF c
    <3>2. QED
      BY <1>2, <1>10, <3>1
  <2>2. c[14] = <<"G", "PIO", "1", "5">> /\ c[15] = <<"G", "PIO", "1", "6">>
    BY Table
  <2> HIDE DEF c
  <2>3. QED
    BY <2>1, <2>2
<1>11. QED
  BY <1>7, <1>8, <1>9, <1>10

\* The table is searched from the front for a name that begins with the word.
LEMMA DispatchIs ==
    ASSUME NEW word
    PROVE  \/ Dispatch(word) = UNKNOWN /\ \A i \in 1..28 : ~IsPrefix(word, config_commands[i])
           \/ \E x \in 1..28 : /\ Dispatch(word) = config_commands[x]
                               /\ IsPrefix(word, config_commands[x])
                               /\ \A i \in 1..28 : i < x => ~IsPrefix(word, config_commands[i])
<1> DEFINE I == {i \in 1 .. Len(config_commands) : IsPrefix(word, config_commands[i])}
           first == IF I # {} THEN Min(I) ELSE 0
<1>1. Len(config_commands) = 28
  BY Table
<1>2. Dispatch(word) = IF first = 0 THEN UNKNOWN ELSE config_commands[first]
  BY DEF Dispatch, SelectInSeq
<1>3. CASE I = {}
  <2>1. first = 0
    BY <1>3
  <2>2. \A i \in 1..28 : ~IsPrefix(word, config_commands[i])
    BY <1>1, <1>3
  <2> HIDE DEF first
  <2>3. QED
    BY <1>2, <2>1, <2>2
<1>4. CASE I # {}
  <2>1. Min(I) \in I /\ \A i \in I : Min(I) <= i
    <3>1. I \subseteq Nat
      BY <1>1
    <3> HIDE DEF I
    <3>2. \E x \in I : \A y \in I : x <= y
      BY <1>4, <3>1, Least
    <3>3. QED
      BY <3>2 DEF Min
  <2>2. PICK x \in 1..28 :
           x = first /\ IsPrefix(word, config_commands[x]) /\ \A i \in 1..28 : i < x => i \notin I
    <3>1. first = Min(I)
      BY <1>4
    <3>2. Min(I) \in 1..28 /\ IsPrefix(word, config_commands[Min(I)])
      BY <1>1, <2>1
    <3>3. \A i \in 1..28 : i < Min(I) => i \notin I
      <4> HIDE DEF I
      <4>1. QED
        BY <1>1, <2>1, <3>2
    <3> HIDE DEF I, first
    <3>4. QED
      BY <3>1, <3>2, <3>3
  <2>3. \A i \in 1..28 : i < x => ~IsPrefix(word, config_commands[i])
    BY <1>1, <2>2
  <2> HIDE DEF first, I
  <2>4. Dispatch(word) = config_commands[x]
    BY <1>2, <2>2
  <2>5. IsPrefix(word, config_commands[x])
    BY <2>2
  <2>6. QED
    BY <2>3, <2>4, <2>5
<1>5. QED
  BY <1>3, <1>4

\* A name that is spelled out runs its own command.
LEMMA SpelledOut ==
    ASSUME NEW x \in 1..28 PROVE Dispatch(config_commands[x]) = config_commands[x]
<1> DEFINE word == config_commands[x]
<1>1. IsPrefix(word, word)
  <2>1. Len(word) \in Nat
    <3>1. Len(config_commands[x]) \in 1..4
      BY TableBounds
    <3>2. QED
      BY <3>1
  <2> HIDE DEF word
  <2>2. QED
    BY <2>1 DEF IsPrefix
<1> HIDE DEF word
<1>2. PICK y \in 1..28 : /\ Dispatch(word) = config_commands[y]
                         /\ IsPrefix(word, config_commands[y])
                         /\ \A i \in 1..28 : i < y => ~IsPrefix(word, config_commands[i])
  BY <1>1, DispatchIs DEF word
<1>3. ~(x < y)
  BY <1>1, <1>2 DEF word
<1>4. ~(y < x)
  BY <1>2, NoneHidden DEF word
<1>5. QED
  BY <1>2, <1>3, <1>4 DEF word

-----------------------------------------------------------------------------
(******************************* The stream ********************************)

\* AT is where a line begins, and nowhere else.
LEMMA WireBegins ==
    ASSUME NEW line \in Seq(Word)
    PROVE  /\ Wire(line) \in Seq(Fragments) /\ Len(Wire(line)) \in Nat /\ Len(Wire(line)) >= 3
           /\ \A p \in 1 .. Len(Wire(line)) : Wire(line)[p] = "AT" <=> p = 1
<1> DEFINE s == Spelled(line)[Len(line)]
           w == Wire(line)
<1>1. /\ Len(s) \in Nat \ {0} /\ s[1] = "AT"
      /\ \A p \in 2 .. Len(s) : s[p] \in Pieces \cup {"SP"}
  BY Spelling
<1>2. /\ w \in Seq(Fragments) /\ Len(w) = Len(s) + 2
      /\ \A p \in 1 .. Len(s) : w[p] = s[p]
      /\ w[Len(s) + 1] = "CR" /\ w[Len(s) + 2] = "LF"
  BY WireIs
<1> HIDE DEF s, w
<1>3. ASSUME NEW p \in 1 .. Len(w) PROVE w[p] = "AT" <=> p = 1
  <2>1. CASE p = 1
    BY <1>1, <1>2, <2>1
  <2>2. CASE p \in 2 .. Len(s)
    <3>1. w[p] = s[p] /\ p # 1
      BY <1>1, <1>2, <2>2
    <3>2. s[p] # "AT"
      BY <1>1, <2>2, PiecesAre
    <3>3. QED
      BY <3>1, <3>2
  <2>3. CASE p = Len(s) + 1 \/ p = Len(s) + 2
    <3>1. w[p] \in {"CR", "LF"} /\ p # 1
      BY <1>1, <1>2, <2>3
    <3>2. QED
      BY <3>1
  <2>4. QED
    BY <1>1, <1>2, <2>1, <2>2, <2>3
<1>4. QED
  BY <1>1, <1>2, <1>3 DEF w

-----------------------------------------------------------------------------
(*************************** From inside a line ****************************)

\* The words of any text are made of its pieces; a text that ends in one has a last word.
LEMMA WordsTyped ==
    ASSUME NEW text \in Seq(Pieces \cup {"SP"})
    PROVE  \A q \in 0 .. Len(text) : Words(text)[q] \in Seq(Texts)
<1> DEFINE n == Len(text)
           w == Words(text)
           Typed(q) == /\ w[q] \in Seq(Texts)
                       /\ q # 0 /\ text[q] # "SP" => Len(w[q]) # 0
           T == {q \in Nat : q <= n => Typed(q)}
<1>1. n \in Nat /\ \A q \in 1..n : text[q] \in Pieces \cup {"SP"}
  BY LenProperties, ElementOfSeq
<1>2. w = [i \in 0..n |->
              IF i = 0 THEN <<>>
              ELSE IF text[i] = "SP" THEN w[i - 1]
              ELSE IF i > 1 /\ text[i - 1] # "SP"
                   THEN Extended(w[i - 1], text[i])
              ELSE Append(w[i - 1], <<text[i]>>)]
  BY <1>1, WordsIs DEF Extended
<1> HIDE DEF w, n
<1>3. 0 \in T
  <2>1. 0 \in 0..n /\ w[0] = <<>>
    BY <1>1, <1>2
  <2>2. <<>> \in Seq(Texts)
    BY EmptySeq
  <2>3. QED
    BY <2>1, <2>2
<1>4. ASSUME NEW m \in Nat, m \in T PROVE m + 1 \in T
  <2>1. SUFFICES ASSUME m + 1 <= n PROVE Typed(m + 1)
    OBVIOUS
  <2>2. PICK q \in 1..n : q = m + 1
    BY <1>1, <2>1
  <2>3. q - 1 = m /\ m \in 0..n /\ q \in 0..n /\ Typed(m)
    BY <1>1, <1>4, <2>1, <2>2
  <2>4. w[q] = IF text[q] = "SP" THEN w[m]
               ELSE IF q > 1 /\ text[m] # "SP" THEN Extended(w[m], text[q])
               ELSE Append(w[m], <<text[q]>>)
    <3>1. q # 0
      BY <2>2
    <3>2. w[q] = IF text[q] = "SP" THEN w[q - 1]
                 ELSE IF q > 1 /\ text[q - 1] # "SP" THEN Extended(w[q - 1], text[q])
                 ELSE Append(w[q - 1], <<text[q]>>)
      BY <1>2, <2>3, <3>1
    <3>3. QED
      BY <2>3, <3>2
  <2>5. CASE text[q] = "SP"
    BY <2>2, <2>3, <2>4, <2>5
  <2>6. CASE text[q] # "SP"
    <3>1. text[q] \in Pieces /\ w[m] \in Seq(Texts) /\ Len(w[m]) \in Nat
      BY <1>1, <2>3, <2>6, LenProperties
    <3>2. CASE q > 1 /\ text[m] # "SP"
      <4>1. Len(w[m]) # 0
        BY <2>2, <2>3, <3>2
      <4>2. PICK l \in Nat, c \in Pieces, u \in Seq(Texts) :
               l = Len(w[m]) /\ c = text[q] /\ u = w[m]
        BY <3>1
      <4> DEFINE v == w[q]
      <4>3. v = Extended(u, c)
        BY <2>4, <2>6, <3>2, <4>2
      <4> HIDE DEF v
      <4>4. GoesOn(v, u, l, c)
        BY <4>1, <4>2, <4>3, WordContinued
      <4>5. v \in Seq(Texts) /\ Len(v) = l
        BY <4>4 DEF GoesOn
      <4>6. QED
        BY <2>2, <4>1, <4>2, <4>5 DEF v
    <3>3. CASE ~(q > 1 /\ text[m] # "SP")
      <4>1. PICK c \in Pieces, u \in Seq(Texts) : c = text[q] /\ u = w[m]
        BY <3>1
      <4> DEFINE v == w[q]
      <4>2. v = Append(u, <<c>>)
        BY <2>4, <2>6, <3>3, <4>1
      <4> HIDE DEF v
      <4>3. v \in Seq(Texts) /\ Len(v) = Len(u) + 1 /\ Len(u) \in Nat
        BY <4>2, WordBegun
      <4>4. QED
        BY <2>2, <4>1, <4>3 DEF v
    <3>4. QED
      BY <3>2, <3>3
  <2>7. QED
    BY <2>5, <2>6
<1>5. Nat \subseteq T
  <2> HIDE DEF T
  <2>1. QED
    BY <1>3, <1>4, Induction
<1>6. ASSUME NEW q \in 0..n PROVE w[q] \in Seq(Texts)
  <2>1. q \in Nat /\ q <= n /\ q \in T
    BY <1>1, <1>5
  <2>2. QED
    BY <2>1
<1>7. QED
  BY <1>6 DEF w, n

LEMMA ArgsTyped ==
    ASSUME NEW text \in Seq(Pieces \cup {"SP"})
    PROVE  config_parse_args(text) \in Seq(Texts)
<1> DEFINE v == Words(text)[Len(text)]
           n == IF Len(v) < MAX_ARGS THEN Len(v) ELSE MAX_ARGS
<1>1. v \in Seq(Texts)
  <2>1. PICK q \in 0 .. Len(text) : q = Len(text)
    BY LenProperties
  <2>2. QED
    BY <2>1, WordsTyped
<1>2. config_parse_args(text) = SubSeq(v, 1, n)
  BY DEF config_parse_args
<1> HIDE DEF v
<1>3. 1 \in Nat \ {0} /\ n \in Int /\ n <= Len(v) /\ 1 <= n + 1
  <2>1. Len(v) \in Nat /\ MAX_ARGS \in Nat \ {0}
    BY <1>1, LenProperties, DispatchAssumption
  <2>2. QED
    BY <2>1
<1> HIDE DEF n
<1>4. SubSeq(v, 1, n) \in Seq(Texts)
  BY <1>1, <1>3, Part
<1>5. QED
  BY <1>2, <1>4

\* The segment goes on as the line does from place b.
SitsAt(segment, line, b) ==
    \A p \in 1 .. Len(segment) :
        p + b - 1 <= Len(Wire(line)) => segment[p] = Wire(line)[p + b - 1]

\* Its text is that of a part of the line: it ends at the CR at the latest.
LEMMA TextInside ==
    ASSUME NEW line \in Seq(Word), NEW segment \in Seq(Fragments), Len(segment) >= 2,
           NEW b \in 2 .. Len(Wire(line)), Wire(line)[b] = MidAT, SitsAt(segment, line, b)
    PROVE  /\ Text(segment) \in Seq(Pieces \cup {"SP"})
           /\ \E e \in b .. Len(Wire(line)) : Text(segment) = Text(SubSeq(Wire(line), b, e))
<1> DEFINE wire == Wire(line)
           N == Len(wire)
           S == Len(segment)
<1>1. /\ wire \in Seq(Fragments) /\ N \in Nat /\ N >= 3 /\ wire[N - 1] = "CR" /\ wire[N] = "LF"
      /\ \A p \in 2..N : wire[p] \in Fragments /\ wire[p] # "AT"
  <2>1. /\ wire \in Seq(Fragments) /\ N \in Nat /\ N >= 3
        /\ \A p \in 1..N : wire[p] = "AT" <=> p = 1
    BY WireBegins
  <2>2. PICK l \in Nat : N = l + 2 /\ wire[l + 1] = "CR" /\ wire[l + 2] = "LF"
    BY WireIs, Spelling
  <2>3. \A p \in 1..N : wire[p] \in Fragments
    BY <2>1, ElementOfSeq
  <2> HIDE DEF wire
  <2>4. l + 1 = N - 1 /\ l + 2 = N /\ \A p \in 2..N : p \in 1..N /\ p # 1
    BY <2>1, <2>2
  <2>5. QED
    BY <2>1, <2>2, <2>3, <2>4
<1>2. S \in Nat /\ S >= 2 /\ b \in 2..N /\ wire[b] = MidAT
      /\ \A p \in 1..S : p + b - 1 <= N => segment[p] = wire[p + b - 1]
  BY LenProperties DEF SitsAt
<1> HIDE DEF wire, N, S
<1>3. b <= N - 2
  <2>1. MidAT \notin {"CR", "LF"}
    BY DEF MidAT
  <2>2. QED
    BY <1>1, <1>2, <2>1
<1> DEFINE m == IF S <= N - b + 1 THEN S ELSE N - b + 1
           e == m + b - 1
           part == SubSeq(wire, b, e)
<1>4. m \in Nat /\ m >= 2 /\ m <= S /\ (m < S => m = N - b + 1 /\ m >= 3) /\ e \in b..N
  BY <1>1, <1>2, <1>3
<1>5. /\ part \in Seq(Fragments) /\ Len(part) = m
      /\ \A p \in 1..m : part[p] = wire[p + b - 1] /\ part[p] = segment[p]
  <2>1. b \in Nat \ {0} /\ e \in Int /\ e <= Len(wire) /\ b <= e + 1 /\ e - b + 1 = m
    BY <1>1, <1>2, <1>4 DEF N
  <2>2. PICK x \in Int : x = e
    BY <2>1
  <2>3. /\ SubSeq(wire, b, x) \in Seq(Fragments) /\ Len(SubSeq(wire, b, x)) = x - b + 1
        /\ \A p \in 1 .. x - b + 1 : SubSeq(wire, b, x)[p] = wire[b + p - 1]
    BY <1>1, <2>1, <2>2, Part
  <2>4. part \in Seq(Fragments) /\ Len(part) = m
    BY <2>1, <2>2, <2>3
  <2>5. ASSUME NEW p \in 1..m PROVE part[p] = wire[p + b - 1] /\ part[p] = segment[p]
    <3>1. p \in 1 .. x - b + 1 /\ b + p - 1 = p + b - 1 /\ p + b - 1 <= N /\ p \in 1..S
      BY <1>1, <1>2, <1>4, <2>1, <2>2, <2>5
    <3>2. part[p] = wire[p + b - 1]
      BY <2>2, <2>3, <3>1
    <3>3. QED
      BY <1>2, <3>1, <3>2
  <2>6. QED
    BY <2>4, <2>5
<1> HIDE DEF part
<1> DEFINE t == Text(segment)
           u == Text(part)
           k == Len(t)
           l == Len(u)
<1>6. /\ t \in Seq(Fragments) /\ k \in Nat /\ k + 2 <= S
      /\ \A i \in 1..k : t[i] = segment[i + 2] /\ t[i] \notin {"CR", "LF"}
      /\ k + 2 # S => segment[k + 3] \in {"CR", "LF"}
  BY <1>2, TextIs DEF S
<1>7. /\ u \in Seq(Fragments) /\ l \in Nat /\ l + 2 <= m
      /\ \A i \in 1..l : u[i] = part[i + 2] /\ u[i] \notin {"CR", "LF"}
      /\ l + 2 # m => part[l + 3] \in {"CR", "LF"}
  BY <1>4, <1>5, TextIs
<1> HIDE DEF t, u, k, l, m
<1>8. ~(k < l)
  <2> SUFFICES ASSUME k < l PROVE FALSE
    OBVIOUS
  <2>1. k + 2 # S /\ k + 1 \in 1..l /\ k + 3 \in 1..m /\ (k + 1) + 2 = k + 3
    BY <1>2, <1>4, <1>6, <1>7
  <2>2. PICK i : i = k + 1
    OBVIOUS
  <2>3. i \in 1..l /\ i + 2 = k + 3
    BY <1>6, <2>1, <2>2
  <2>4. u[i] = part[i + 2] /\ u[i] \notin {"CR", "LF"} /\ part[i + 2] = segment[i + 2]
    BY <1>5, <1>7, <2>1, <2>3
  <2>5. QED
    BY <1>6, <2>1, <2>3, <2>4
<1>9. ~(l < k)
  <2> SUFFICES ASSUME l < k PROVE FALSE
    OBVIOUS
  <2>1. CASE l + 2 = m
    <3>1. m < S
      BY <1>2, <1>4, <1>6, <1>7, <2>1
    <3>2. m = N - b + 1 /\ m >= 3
      BY <1>4, <3>1
    <3>3. l \in 1..l /\ m + b - 1 = N /\ m \in 1..m
      BY <1>1, <1>2, <1>7, <2>1, <3>2
    <3>4. u[l] = part[m] /\ u[l] \notin {"CR", "LF"} /\ part[m] = wire[m + b - 1]
      BY <1>5, <1>7, <2>1, <3>3
    <3>5. QED
      BY <1>1, <3>3, <3>4
  <2>2. CASE l + 2 # m
    <3>1. PICK i : i = l + 1
      OBVIOUS
    <3>2. i \in 1..k /\ i + 2 = l + 3 /\ l + 3 \in 1..m
      BY <1>4, <1>6, <1>7, <2>2, <3>1
    <3>3. t[i] = segment[i + 2] /\ t[i] \notin {"CR", "LF"} /\ part[l + 3] = segment[l + 3]
      BY <1>5, <1>6, <3>2
    <3>4. QED
      BY <1>7, <2>2, <3>2, <3>3
  <2>3. QED
    BY <2>1, <2>2
<1>10. k = l
  BY <1>6, <1>7, <1>8, <1>9
<1>11. ASSUME NEW i \in 1..l
       PROVE  t[i] = u[i] /\ u[i] \in Pieces \cup {"SP"}
  <2>1. i \in 1..k /\ i + 2 \in 1..m /\ i + 2 + b - 1 \in 2..N
    BY <1>1, <1>2, <1>4, <1>7, <1>10
  <2>2. PICK p : p = i + 2
    OBVIOUS
  <2>3. t[i] = segment[p] /\ u[i] = part[p] /\ part[p] = segment[p] /\ part[p] = wire[p + b - 1]
        /\ u[i] \notin {"CR", "LF"}
    BY <1>5, <1>6, <1>7, <2>1, <2>2
  <2>4. wire[p + b - 1] \in Fragments /\ wire[p + b - 1] # "AT"
    BY <1>1, <2>1, <2>2
  <2>5. QED
    BY <2>3, <2>4 DEF Fragments
<1>12. t = u
  <2>1. Len(t) = Len(u) /\ \A i \in 1 .. Len(t) : t[i] = u[i]
    BY <1>10, <1>11 DEF k, l
  <2>2. QED
    BY <1>6, <1>7, <2>1, SeqEqual
<1>13. u \in Seq(Pieces \cup {"SP"})
  <2>1. u = [i \in 1..l |-> u[i]]
    BY <1>7, LenProperties DEF l
  <2>2. [i \in 1..l |-> u[i]] \in [1..l -> Pieces \cup {"SP"}]
    BY <1>11
  <2>3. l \in Nat /\ u \in [1..l -> Pieces \cup {"SP"}]
    BY <1>7, <2>1, <2>2, LenProperties DEF l
  <2>4. QED
    BY <2>3, IsSeq
<1>14. QED
  BY <1>4, <1>12, <1>13 DEF t, u, part, m, wire, N

ComesFrom(segment, line) ==
    \E b \in 2 .. Len(Wire(line)) : Wire(line)[b] = MidAT /\ SitsAt(segment, line, b)

\* What the parser makes of it.
LEMMA WordsInside ==
    ASSUME NEW line \in Seq(Word), NEW segment \in Seq(Fragments), Len(segment) >= 2,
           ComesFrom(segment, line)
    PROVE  /\ config_parse_args(Text(segment)) \in Seq(Texts)
           /\ InsideOf(config_parse_args(Text(segment)), line)
<1>1. PICK b \in 2 .. Len(Wire(line)) : Wire(line)[b] = MidAT /\ SitsAt(segment, line, b)
  BY DEF ComesFrom
<1>2. /\ Text(segment) \in Seq(Pieces \cup {"SP"})
      /\ \E e \in b .. Len(Wire(line)) : Text(segment) = Text(SubSeq(Wire(line), b, e))
  BY <1>1, TextInside
<1>3. config_parse_args(Text(segment)) \in Seq(Texts)
  BY <1>2, ArgsTyped
<1>4. QED
  BY <1>1, <1>2, <1>3 DEF InsideOf

-----------------------------------------------------------------------------
\* Line i of those sent ends at place c[i] of what has not arrived; the first k have
\* begun to arrive.
Placed(c, lines, stream, k) ==
    /\ c \in [0 .. Len(lines) -> Int] /\ k \in 0 .. Len(lines)
    /\ c[0] <= 0 /\ c[Len(lines)] = Len(stream)
    /\ \A i \in 1 .. Len(lines) : c[i] = c[i - 1] + Len(Wire(lines[i]))
    /\ \A a, b \in 0 .. Len(lines) : a < b => c[a] < c[b]
    /\ \A i \in 1 .. Len(lines) : \A j \in 1 .. Len(Wire(lines[i])) :
          c[i - 1] + j >= 1 => stream[c[i - 1] + j] = Wire(lines[i])[j]
    /\ \A i \in 1 .. Len(lines) : i <= k <=> c[i - 1] < 0

\* A place of the stream belongs to a line.
LEMMA Covered ==
    ASSUME NEW lines \in Seq(Seq(Word)), NEW stream \in Seq(Fragments), NEW k,
           NEW c, Placed(c, lines, stream, k), NEW p \in 1 .. Len(stream)
    PROVE  \E i \in 1 .. Len(lines) :
              /\ c[i - 1] < p /\ p <= c[i] /\ p - c[i - 1] \in 1 .. Len(Wire(lines[i]))
              /\ stream[p] = Wire(lines[i])[p - c[i - 1]]
<1> DEFINE L == Len(lines)
           T == {i \in 0..L : p <= c[i]}
<1>1. L \in Nat /\ Len(stream) \in Nat /\ \A i \in 1..L : lines[i] \in Seq(Word)
  BY LenProperties, ElementOfSeq
<1>2. /\ c \in [0..L -> Int] /\ c[0] <= 0 /\ c[L] = Len(stream)
      /\ \A i \in 1..L : c[i] = c[i - 1] + Len(Wire(lines[i]))
      /\ \A i \in 1..L : \A j \in 1 .. Len(Wire(lines[i])) :
            c[i - 1] + j >= 1 => stream[c[i - 1] + j] = Wire(lines[i])[j]
  BY DEF Placed
<1> HIDE DEF L
<1>3. PICK i \in T : \A y \in T : i <= y
  <2>1. T \subseteq Nat /\ L \in T
    BY <1>1, <1>2
  <2> HIDE DEF T
  <2>2. QED
    BY <2>1, Least
<1>4. i \in 1..L /\ p <= c[i]
  BY <1>1, <1>2
<1>5. c[i - 1] < p
  <2>1. i - 1 \in 0..L /\ i - 1 \notin T
    BY <1>1, <1>3, <1>4
  <2>2. c[i - 1] \in Int
    BY <1>2, <2>1
  <2>3. QED
    BY <2>1, <2>2
<1>6. PICK j : j = p - c[i - 1]
  OBVIOUS
<1>7. Len(Wire(lines[i])) \in Nat /\ c[i - 1] \in Int /\ c[i] = c[i - 1] + Len(Wire(lines[i]))
  <2>1. i - 1 \in 0..L
    BY <1>1, <1>4
  <2>2. lines[i] \in Seq(Word)
    BY <1>1, <1>4
  <2>3. QED
    BY <1>2, <1>4, <2>1, <2>2, WireBegins
<1>8. j \in 1 .. Len(Wire(lines[i])) /\ c[i - 1] + j = p
  BY <1>4, <1>5, <1>6, <1>7
<1>9. stream[p] = Wire(lines[i])[j]
  <2>1. c[i - 1] + j >= 1
    BY <1>8
  <2>2. stream[c[i - 1] + j] = Wire(lines[i])[j]
    BY <1>2, <1>4, <1>8, <2>1
  <2>3. QED
    BY <1>8, <2>2
<1>10. QED
  BY <1>4, <1>5, <1>6, <1>8, <1>9 DEF L

\* Another line is sent.
LEMMA PlacedSent ==
    ASSUME NEW lines \in Seq(Seq(Word)), NEW stream \in Seq(Fragments), NEW k,
           NEW c, Placed(c, lines, stream, k), NEW line \in Seq(Word)
    PROVE  \E d : Placed(d, Append(lines, line), stream \o Wire(line), k)
<1> DEFINE L == Len(lines)
           N == Len(stream)
           w == Wire(line)
           all == Append(lines, line)
           more == stream \o w
           d == [i \in 0 .. L + 1 |-> IF i <= L THEN c[i] ELSE N + Len(w)]
<1>1. /\ L \in Nat /\ N \in Nat /\ \A i \in 1..L : lines[i] \in Seq(Word)
      /\ Len(w) \in Nat /\ Len(w) >= 3 /\ w \in Seq(Fragments)
  BY LenProperties, ElementOfSeq, WireBegins
<1>2. /\ c \in [0..L -> Int] /\ k \in 0..L /\ c[0] <= 0 /\ c[L] = N
      /\ \A i \in 1..L : c[i] = c[i - 1] + Len(Wire(lines[i]))
      /\ \A a, b \in 0..L : a < b => c[a] < c[b]
      /\ \A i \in 1..L : \A j \in 1 .. Len(Wire(lines[i])) :
            c[i - 1] + j >= 1 => stream[c[i - 1] + j] = Wire(lines[i])[j]
      /\ \A i \in 1..L : i <= k <=> c[i - 1] < 0
  BY DEF Placed
<1>3. Len(all) = L + 1 /\ all[L + 1] = line /\ \A i \in 1..L : all[i] = lines[i]
  BY AppendProperties
<1>4. /\ Len(more) = N + Len(w)
      /\ \A i \in 1 .. N + Len(w) : more[i] = IF i <= N THEN stream[i] ELSE w[i - N]
  BY <1>1, Joined
<1> HIDE DEF L, N, w, all, more
<1>5. /\ d \in [0 .. L + 1 -> Int] /\ d[L + 1] = N + Len(w) /\ \A i \in 0..L : d[i] = c[i]
  BY <1>1, <1>2
<1> HIDE DEF d
<1>6. \A i \in 1 .. L + 1 : d[i] = d[i - 1] + Len(Wire(all[i]))
  <2>1. ASSUME NEW i \in 1..L PROVE d[i] = d[i - 1] + Len(Wire(all[i]))
    <3>1. i \in 0..L /\ i - 1 \in 0..L
      BY <1>1
    <3>2. QED
      BY <1>2, <1>3, <1>5, <3>1
  <2>2. d[L + 1] = d[L] + Len(Wire(all[L + 1]))
    <3>1. L \in 0..L
      BY <1>1
    <3>2. QED
      BY <1>2, <1>3, <1>5, <3>1 DEF w
  <2>3. QED
    BY <1>1, <2>1, <2>2
<1>7. ASSUME NEW a \in 0 .. L + 1, NEW b \in 0 .. L + 1, a < b PROVE d[a] < d[b]
  <2>1. CASE b \in 0..L
    <3>1. a \in 0..L
      BY <1>1, <1>7, <2>1
    <3>2. QED
      BY <1>2, <1>5, <1>7, <2>1, <3>1
  <2>2. CASE b = L + 1
    <3>1. a \in 0..L /\ L \in 0..L
      BY <1>1, <1>7, <2>2
    <3>2. c[a] <= c[L] /\ c[a] \in Int
      <4>1. c[a] \in Int /\ c[L] \in Int /\ (a = L \/ a < L)
        BY <1>1, <1>2, <3>1
      <4>2. a < L => c[a] < c[L]
        BY <1>2, <3>1
      <4>3. QED
        BY <4>1, <4>2
    <3>3. QED
      BY <1>1, <1>2, <1>5, <2>2, <3>1, <3>2
  <2>3. QED
    BY <1>1, <2>1, <2>2
<1>8. ASSUME NEW i \in 1 .. L + 1, NEW j \in 1 .. Len(Wire(all[i])), d[i - 1] + j >= 1
      PROVE  more[d[i - 1] + j] = Wire(all[i])[j]
  <2>1. CASE i \in 1..L
    <3>1. i - 1 \in 0..L /\ L \in 0..L /\ i \in 0..L /\ all[i] = lines[i] /\ d[i - 1] = c[i - 1]
      BY <1>1, <1>3, <1>5, <2>1
    <3>2. PICK q : q = c[i - 1] + j
      OBVIOUS
    <3>3. q \in Int /\ q >= 1 /\ q <= c[i]
      <4>1. Len(Wire(lines[i])) \in Nat /\ c[i - 1] \in Int
        BY <1>1, <1>2, <2>1, <3>1, WireBegins
      <4>2. c[i] = c[i - 1] + Len(Wire(lines[i]))
        BY <1>2, <2>1
      <4>3. QED
        BY <1>8, <3>1, <3>2, <4>1, <4>2
    <3>4. c[i] <= N
      <4>1. c[i] \in Int /\ (i = L \/ i < L)
        BY <1>1, <1>2, <2>1, <3>1
      <4>2. i < L => c[i] < c[L]
        BY <1>2, <3>1
      <4>3. i = L => c[i] = N
        BY <1>2
      <4>4. N \in Nat /\ (i < L => c[i] < N)
        BY <1>1, <1>2, <4>2
      <4>5. QED
        BY <4>1, <4>3, <4>4
    <3>5. q \in 1 .. N + Len(w) /\ q <= N
      <4>1. c[i] \in Int
        BY <1>2, <3>1
      <4>2. QED
        BY <1>1, <3>3, <3>4, <4>1
    <3>6. more[q] = stream[q]
      BY <1>4, <3>5
    <3>7. stream[q] = Wire(lines[i])[j]
      BY <1>2, <2>1, <3>1, <3>2, <3>3
    <3>8. QED
      BY <3>1, <3>2, <3>6, <3>7
  <2>2. CASE i = L + 1
    <3>1. L \in 0..L /\ i - 1 = L
      BY <1>1, <2>2
    <3>2. d[i - 1] = N /\ all[i] = line
      BY <1>2, <1>3, <1>5, <2>2, <3>1
    <3>3. j \in 1 .. Len(w)
      BY <3>2 DEF w
    <3>4. PICK q : q = N + j
      OBVIOUS
    <3>5. q \in 1 .. N + Len(w) /\ ~(q <= N) /\ q - N = j
      BY <1>1, <3>3, <3>4
    <3>6. more[q] = w[j]
      BY <1>4, <3>5
    <3>7. QED
      BY <3>2, <3>4, <3>6 DEF w
  <2>3. QED
    BY <1>1, <2>1, <2>2
<1>9. ASSUME NEW i \in 1 .. L + 1 PROVE i <= k <=> d[i - 1] < 0
  <2>1. CASE i \in 1..L
    <3>1. d[i - 1] = c[i - 1]
      BY <1>1, <1>5, <2>1
    <3>2. QED
      BY <1>2, <2>1, <3>1
  <2>2. CASE i = L + 1
    <3>1. d[i - 1] = N
      BY <1>1, <1>2, <1>5, <2>2
    <3>2. QED
      BY <1>1, <1>2, <2>2, <3>1
  <2>3. QED
    BY <1>1, <2>1, <2>2
<1>10. 0 \in 0..L /\ d[0] <= 0 /\ k \in 0 .. L + 1
  BY <1>1, <1>2, <1>5
<1>11. Placed(d, all, more, k)
  BY <1>3, <1>4, <1>5, <1>6, <1>7, <1>8, <1>9, <1>10 DEF Placed
<1>12. QED
  BY <1>11 DEF all, more, w

\* The first n fragments arrive: k of the lines had begun before, t have now.
LEMMA PlacedDelivered ==
    ASSUME NEW lines \in Seq(Seq(Word)), NEW stream \in Seq(Fragments), NEW k,
           NEW c, Placed(c, lines, stream, k), NEW n \in 1 .. Len(stream)
    PROVE  LET segment == SubSeq(stream, 1, n)
               rest == SubSeq(stream, n + 1, Len(stream))
               t == k + Begun(segment)
           IN /\ \E d : Placed(d, lines, rest, t)
              /\ t \in Nat /\ k <= t
              /\ segment[1] = "AT" => k + 1 <= t /\ StartsAs(segment, lines[k + 1])
              /\ segment[1] = MidAT => k >= 1 /\ ComesFrom(segment, lines[k])
<1> DEFINE L == Len(lines)
           N == Len(stream)
           segment == SubSeq(stream, 1, n)
           rest == SubSeq(stream, n + 1, N)
           d == [i \in 0..L |-> c[i] - n]
           wire(i) == Wire(lines[i])
<1>1. /\ L \in Nat /\ N \in Nat /\ n \in Nat /\ 1 <= n /\ n <= N
      /\ \A i \in 1..L : lines[i] \in Seq(Word)
  BY LenProperties, ElementOfSeq
<1>2. \A i \in 1..L : /\ Len(wire(i)) \in Nat /\ Len(wire(i)) >= 3
                      /\ \A p \in 1 .. Len(wire(i)) : wire(i)[p] = "AT" <=> p = 1
  BY <1>1, WireBegins
<1>3. /\ c \in [0..L -> Int] /\ k \in 0..L /\ c[0] <= 0 /\ c[L] = N
      /\ \A i \in 1..L : c[i] = c[i - 1] + Len(wire(i))
      /\ \A a, b \in 0..L : a < b => c[a] < c[b]
      /\ \A i \in 1..L : \A j \in 1 .. Len(wire(i)) :
            c[i - 1] + j >= 1 => stream[c[i - 1] + j] = wire(i)[j]
      /\ \A i \in 1..L : i <= k <=> c[i - 1] < 0
  BY DEF Placed
<1>4. /\ segment \in Seq(Fragments) /\ Len(segment) = n
      /\ \A p \in 1..n : segment[p] = stream[p]
  <2>1. 1 \in Nat \ {0} /\ n \in Int /\ n <= Len(stream) /\ 1 <= n + 1
    BY <1>1
  <2>2. /\ segment \in Seq(Fragments) /\ Len(segment) = n - 1 + 1
        /\ \A p \in 1 .. n - 1 + 1 : segment[p] = stream[1 + p - 1]
    BY <2>1, Part
  <2>3. n - 1 + 1 = n /\ \A p \in Int : 1 + p - 1 = p
    BY <1>1
  <2> HIDE DEF segment
  <2>4. QED
    BY <2>2, <2>3
<1>5. /\ rest \in Seq(Fragments) /\ Len(rest) = N - n
      /\ \A p \in 1 .. N - n : rest[p] = stream[p + n]
  <2>1. n + 1 \in Nat \ {0} /\ N \in Int /\ N <= Len(stream) /\ n + 1 <= N + 1
    BY <1>1
  <2>2. PICK m : m = n + 1
    OBVIOUS
  <2>3. /\ SubSeq(stream, m, N) \in Seq(Fragments) /\ Len(SubSeq(stream, m, N)) = N - m + 1
        /\ \A p \in 1 .. N - m + 1 : SubSeq(stream, m, N)[p] = stream[m + p - 1]
    BY <2>1, <2>2, Part
  <2>4. N - m + 1 = N - n /\ (\A p \in Int : m + p - 1 = p + n) /\ rest = SubSeq(stream, m, N)
    BY <1>1, <2>2
  <2> HIDE DEF rest
  <2>5. rest \in Seq(Fragments) /\ Len(rest) = N - n
    BY <2>3, <2>4
  <2>6. ASSUME NEW p \in 1 .. N - n PROVE rest[p] = stream[p + n]
    <3>1. p \in 1 .. N - m + 1 /\ m + p - 1 = p + n
      BY <2>4
    <3>2. QED
      BY <2>3, <2>4, <3>1
  <2>7. QED
    BY <2>5, <2>6
<1> HIDE DEF L, N, segment, rest, wire
\* The lines that have begun when n more fragments have arrived.
<1>6. PICK t \in 0..L : \A i \in 1..L : i <= t <=> c[i - 1] < n
  <2> DEFINE T == {i \in 0..L : i = L \/ c[i] >= n}
  <2>1. T \subseteq Nat /\ L \in T
    BY <1>1
  <2>2. PICK t \in T : \A y \in T : t <= y
    <3> HIDE DEF T
    <3>1. QED
      BY <2>1, Least
  <2>3. t \in 0..L /\ (t = L \/ c[t] >= n)
    OBVIOUS
  <2>4. ASSUME NEW i \in 1..L PROVE i <= t <=> c[i - 1] < n
    <3>1. i - 1 \in 0..L /\ i - 1 # L /\ c[i - 1] \in Int
      BY <1>1, <1>3
    <3>2. ASSUME i <= t PROVE c[i - 1] < n
      <4>1. i - 1 \notin T
        BY <2>2, <2>3, <3>1, <3>2
      <4>2. ~(c[i - 1] >= n)
        BY <3>1, <4>1
      <4>3. QED
        BY <1>1, <3>1, <4>2
    <3>3. ASSUME ~(i <= t) PROVE ~(c[i - 1] < n)
      <4>1. t < i /\ t # L /\ (t = i - 1 \/ t < i - 1)
        BY <1>1, <2>3, <3>3
      <4>2. c[t] \in Int /\ c[t] >= n
        BY <1>3, <2>3, <4>1
      <4>3. t < i - 1 => c[t] < c[i - 1]
        BY <1>3, <2>3, <3>1
      <4>4. t = i - 1 => c[t] = c[i - 1]
        OBVIOUS
      <4>5. QED
        BY <1>1, <3>1, <4>1, <4>2, <4>3, <4>4
    <3>4. QED
      BY <3>2, <3>3
  <2>5. QED
    BY <2>3, <2>4
<1>7. k <= t
  <2> SUFFICES ASSUME t < k PROVE FALSE
    BY <1>1, <1>3
  <2> DEFINE i == t + 1
  <2>1. i \in 1..L /\ i <= k /\ ~(i <= t)
    BY <1>1, <1>3
  <2> HIDE DEF i
  <2>2. i - 1 \in 0..L
    BY <1>1, <2>1
  <2>3. c[i - 1] \in Int /\ c[i - 1] < 0 /\ ~(c[i - 1] < n)
    BY <1>3, <1>6, <2>1, <2>2
  <2>4. QED
    BY <1>1, <2>3
\* Each of them has its AT at a place of the segment, and there is no other.
<1>8. Begun(segment) = t - k
  <2> DEFINE S == k + 1 .. t
             P == {p \in 1..n : segment[p] = "AT"}
             f == [i \in S |-> c[i - 1] + 1]
  <2>1. ASSUME NEW i \in S
        PROVE  i \in 1..L /\ i - 1 \in 0..L /\ c[i - 1] \in 0 .. n - 1
    <3>1. i \in 1..L /\ i - 1 \in 0..L /\ ~(i <= k) /\ i <= t
      BY <1>1, <1>3
    <3>2. c[i - 1] \in Int /\ ~(c[i - 1] < 0) /\ c[i - 1] < n
      BY <1>3, <1>6, <3>1
    <3>3. QED
      BY <1>1, <3>1, <3>2
  <2>2. ASSUME NEW i \in S PROVE c[i - 1] + 1 \in P
    <3>1. i \in 1..L /\ c[i - 1] \in 0 .. n - 1
      BY <2>1
    <3>2. 1 \in 1 .. Len(wire(i)) /\ c[i - 1] + 1 >= 1
      BY <1>2, <3>1
    <3>3. stream[c[i - 1] + 1] = wire(i)[1] /\ wire(i)[1] = "AT"
      BY <1>2, <1>3, <3>1, <3>2
    <3>4. c[i - 1] + 1 \in 1..n
      BY <1>1, <3>1
    <3>5. QED
      BY <1>4, <3>3, <3>4
  <2>3. ASSUME NEW i \in S, NEW j \in S, c[i - 1] + 1 = c[j - 1] + 1 PROVE i = j
    <3>1. /\ c[i - 1] \in Int /\ c[j - 1] \in Int /\ i - 1 \in 0..L /\ j - 1 \in 0..L
      BY <1>1, <2>1
    <3>2. ~(i - 1 < j - 1) /\ ~(j - 1 < i - 1)
      BY <1>3, <2>3, <3>1
    <3>3. QED
      BY <1>1, <1>3, <3>2
  <2>4. ASSUME NEW p \in P PROVE \E i \in S : c[i - 1] + 1 = p
    <3>1. p \in 1..N /\ p \in 1..n /\ stream[p] = "AT"
      BY <1>1, <1>4
    <3>2. PICK i \in 1..L : /\ c[i - 1] < p /\ p - c[i - 1] \in 1 .. Len(wire(i))
                           /\ stream[p] = wire(i)[p - c[i - 1]]
      <4>1. p \in 1 .. Len(stream)
        BY <3>1 DEF N
      <4>2. \E i \in 1 .. Len(lines) :
               /\ c[i - 1] < p /\ p <= c[i] /\ p - c[i - 1] \in 1 .. Len(Wire(lines[i]))
               /\ stream[p] = Wire(lines[i])[p - c[i - 1]]
        BY <4>1, Covered
      <4>3. QED
        BY <4>2 DEF L, wire
    <3>3. p - c[i - 1] = 1
      BY <1>2, <3>1, <3>2
    <3>4. i - 1 \in 0..L /\ c[i - 1] \in Int
      BY <1>1, <1>3
    <3>5. ~(c[i - 1] < 0) /\ c[i - 1] < n /\ c[i - 1] + 1 = p
      BY <1>1, <3>1, <3>3, <3>4
    <3>6. ~(i <= k) /\ i <= t
      BY <1>3, <1>6, <3>5
    <3>7. i \in S
      BY <1>3, <3>6
    <3>8. QED
      BY <3>5, <3>7
  <2>5. f \in Bijection(S, P)
    <3>1. f \in [S -> P]
      BY <2>2
    <3>2. \A i, j \in S : f[i] = f[j] => i = j
      BY <2>3
    <3>3. \A p \in P : \E i \in S : f[i] = p
      BY <2>4
    <3> HIDE DEF f, S, P
    <3>4. QED
      BY <3>1, <3>2, <3>3 DEF Bijection, Injection, Surjection, IsInjective
  <2>6. IsFiniteSet(S) /\ Cardinality(S) = t - k
    <3>1. k + 1 \in Int /\ t \in Int
      BY <1>3
    <3>2. IsFiniteSet(S) /\ Cardinality(S) = IF k + 1 > t THEN 0 ELSE t - (k + 1) + 1
      BY <3>1, FS_Interval
    <3> HIDE DEF S
    <3>3. QED
      BY <1>3, <1>7, <3>2
  <2>7. Cardinality(P) = t - k
    <3> HIDE DEF f, S, P
    <3>1. ExistsBijection(S, P)
      BY <2>5 DEF ExistsBijection
    <3>2. QED
      BY <2>6, <3>1, FS_Bijection
  <2>8. DOMAIN segment = 1..n
    BY <1>4, LenProperties
  <2>9. QED
    BY <2>7, <2>8 DEF Begun
<1>9. k + Begun(segment) = t
  BY <1>3, <1>6, <1>8
<1>10. Placed(d, lines, rest, t)
  <2>1. d \in [0..L -> Int] /\ \A i \in 0..L : d[i] = c[i] - n /\ c[i] \in Int
    <3>1. n \in Int /\ \A i \in 0..L : c[i] \in Int
      <4>1. c \in [0..L -> Int] /\ n \in Int
        BY <1>1, <1>3
      <4> HIDE DEF d
      <4>2. QED
        BY <4>1
    <3>2. \A i \in 0..L : d[i] = c[i] - n
      OBVIOUS
    <3>3. \A i \in 0..L : c[i] - n \in Int
      BY <3>1
    <3>4. d \in [0..L -> Int]
      BY <3>3
    <3> HIDE DEF d
    <3>5. QED
      BY <3>1, <3>2, <3>4
  <2> HIDE DEF d
  <2>2. d[0] <= 0 /\ d[L] = N - n
    <3>1. 0 \in 0..L /\ L \in 0..L
      BY <1>1
    <3>2. QED
      BY <1>1, <1>3, <2>1, <3>1
  <2>3. ASSUME NEW i \in 1..L
        PROVE  d[i] = d[i - 1] + Len(wire(i)) /\ (i <= t <=> d[i - 1] < 0)
    <3>1. i \in 0..L /\ i - 1 \in 0..L
      BY <1>1
    <3>2. d[i] = c[i] - n /\ d[i - 1] = c[i - 1] - n /\ c[i - 1] \in Int /\ c[i] \in Int
      BY <2>1, <3>1
    <3>3. c[i] = c[i - 1] + Len(wire(i)) /\ (i <= t <=> c[i - 1] < n) /\ Len(wire(i)) \in Nat
      BY <1>2, <1>3, <1>6
    <3>4. QED
      BY <1>1, <3>2, <3>3
  <2>4. ASSUME NEW a \in 0..L, NEW b \in 0..L, a < b PROVE d[a] < d[b]
    <3>1. d[a] = c[a] - n /\ d[b] = c[b] - n /\ c[a] \in Int /\ c[b] \in Int
      BY <2>1
    <3>2. c[a] < c[b]
      BY <1>3, <2>4
    <3>3. QED
      BY <1>1, <3>1, <3>2
  <2>5. ASSUME NEW i \in 1..L, NEW j \in 1 .. Len(wire(i)), d[i - 1] + j >= 1
        PROVE  rest[d[i - 1] + j] = wire(i)[j]
    <3>1. i \in 0..L /\ i - 1 \in 0..L
      BY <1>1
    <3>2. PICK q : q = c[i - 1] + j
      OBVIOUS
    <3>3. PICK r : r = d[i - 1] + j
      OBVIOUS
    <3>4. /\ d[i - 1] = c[i - 1] - n /\ c[i - 1] \in Int /\ c[i] \in Int /\ Len(wire(i)) \in Nat
          /\ c[i] = c[i - 1] + Len(wire(i))
      BY <1>2, <1>3, <2>1, <3>1
    <3>5. r = q - n /\ q \in Int /\ r >= 1 /\ q <= c[i]
      BY <1>1, <2>5, <3>2, <3>3, <3>4
    <3>6. c[i] <= N
      <4>1. i = L \/ i < L
        BY <1>1
      <4>2. i = L => c[i] = N
        BY <1>3
      <4>3. N \in Nat /\ (i < L => c[i] < N)
        BY <1>1, <1>3, <3>1
      <4>4. QED
        BY <3>4, <4>1, <4>2, <4>3
    <3>7. r \in 1 .. N - n /\ r + n = q /\ q >= 1
      BY <1>1, <3>4, <3>5, <3>6
    <3>8. rest[r] = stream[q]
      BY <1>5, <3>7
    <3>9. stream[q] = wire(i)[j]
      BY <1>3, <3>2, <3>7
    <3>10. QED
      BY <3>3, <3>8, <3>9
  <2>6. QED
    BY <1>5, <1>6, <2>1, <2>2, <2>3, <2>4, <2>5 DEF Placed, L, wire
<1>11. ASSUME segment[1] = "AT" PROVE k + 1 <= t /\ StartsAs(segment, lines[k + 1])
  <2>1. 1 \in 1 .. Len(stream) /\ 1 \in 1..n /\ stream[1] = "AT"
    BY <1>1, <1>4, <1>11 DEF N
  <2>2. PICK i \in 1..L : /\ c[i - 1] < 1 /\ 1 - c[i - 1] \in 1 .. Len(wire(i))
                         /\ stream[1] = wire(i)[1 - c[i - 1]]
    <3>1. \E i \in 1 .. Len(lines) :
             /\ c[i - 1] < 1 /\ 1 <= c[i] /\ 1 - c[i - 1] \in 1 .. Len(Wire(lines[i]))
             /\ stream[1] = Wire(lines[i])[1 - c[i - 1]]
      <4>1. PICK p \in 1 .. Len(stream) : p = 1
        BY <2>1
      <4>2. \E i \in 1 .. Len(lines) :
               /\ c[i - 1] < p /\ p <= c[i] /\ p - c[i - 1] \in 1 .. Len(Wire(lines[i]))
               /\ stream[p] = Wire(lines[i])[p - c[i - 1]]
        BY <4>1, Covered
      <4>3. QED
        BY <4>1, <4>2
    <3>2. QED
      BY <3>1 DEF L, wire
  <2>3. i - 1 \in 0..L /\ c[i - 1] \in Int
    BY <1>1, <1>3
  <2>4. 1 - c[i - 1] = 1
    BY <1>2, <2>1, <2>2
  <2>5. c[i - 1] = 0
    BY <2>3, <2>4
  <2>6. ~(i <= k) /\ i <= t
    BY <1>1, <1>3, <1>6, <2>5
  <2>7. i - 1 <= k
    <3> SUFFICES ASSUME k < i - 1 PROVE FALSE
      BY <1>3
    <3>1. k \in 0..L /\ k + 1 \in 1..L /\ c[k] < c[i - 1] /\ c[k] \in Int
      BY <1>1, <1>3, <2>3
    <3>2. PICK j : j = k + 1
      OBVIOUS
    <3>3. j \in 1..L /\ j - 1 = k /\ ~(j <= k)
      BY <1>3, <3>1, <3>2
    <3>4. ~(c[k] < 0)
      BY <1>3, <3>3
    <3>5. QED
      BY <2>5, <3>1, <3>4
  <2>8. i = k + 1
    BY <1>3, <2>6, <2>7
  <2>9. ASSUME NEW p \in 1..n, p <= Len(wire(i)) PROVE segment[p] = wire(i)[p]
    <3>1. p \in 1 .. Len(wire(i)) /\ c[i - 1] + p >= 1 /\ c[i - 1] + p = p
      BY <1>2, <2>5, <2>9
    <3>2. stream[c[i - 1] + p] = wire(i)[p]
      BY <1>3, <3>1
    <3>3. QED
      BY <1>4, <3>1, <3>2
  <2>10. StartsAs(segment, lines[i])
    BY <1>4, <2>9 DEF StartsAs, wire
  <2>11. QED
    BY <1>3, <2>6, <2>8, <2>10
\* An AT inside a word is one of the line that is arriving.
<1>12. ASSUME segment[1] = MidAT PROVE k >= 1 /\ ComesFrom(segment, lines[k])
  <2>1. 1 \in 1 .. Len(stream) /\ 1 \in 1..n /\ stream[1] = MidAT
    BY <1>1, <1>4, <1>12 DEF N
  <2>2. PICK i \in 1..L : /\ c[i - 1] < 1 /\ 1 <= c[i] /\ 1 - c[i - 1] \in 1 .. Len(wire(i))
                         /\ stream[1] = wire(i)[1 - c[i - 1]]
    <3>1. PICK p \in 1 .. Len(stream) : p = 1
      BY <2>1
    <3>2. \E i \in 1 .. Len(lines) :
             /\ c[i - 1] < p /\ p <= c[i] /\ p - c[i - 1] \in 1 .. Len(Wire(lines[i]))
             /\ stream[p] = Wire(lines[i])[p - c[i - 1]]
      BY <3>1, Covered
    <3>3. QED
      BY <3>1, <3>2 DEF L, wire
  <2>3. i - 1 \in 0..L /\ c[i - 1] \in Int /\ i \in 0..L /\ c[i] \in Int
    BY <1>1, <1>3
  <2>4. PICK b : b = 1 - c[i - 1]
    OBVIOUS
  <2>5. b \in 2 .. Len(wire(i)) /\ wire(i)[b] = MidAT
    <3>1. wire(i)[b] = MidAT /\ b \in 1 .. Len(wire(i))
      BY <2>1, <2>2, <2>4
    <3>2. MidAT # "AT"
      BY DEF MidAT
    <3>3. b # 1
      BY <1>2, <3>1, <3>2
    <3>4. QED
      BY <1>2, <3>1, <3>3
  <2>6. i <= k
    <3>1. c[i - 1] < 0
      BY <2>3, <2>4, <2>5
    <3>2. QED
      BY <1>3, <3>1
  <2>7. ~(i < k)
    <3> SUFFICES ASSUME i < k PROVE FALSE
      OBVIOUS
    <3>1. k \in 1..L /\ k - 1 \in 0..L /\ k <= k /\ i <= k - 1 /\ c[k - 1] \in Int
      BY <1>1, <1>3, <2>3
    <3>2. c[k - 1] < 0
      BY <1>3, <3>1
    <3>3. i < k - 1 => c[i] < c[k - 1]
      BY <1>3, <2>3, <3>1
    <3>4. i = k - 1 \/ i < k - 1
      BY <1>3, <3>1
    <3>5. QED
      BY <2>2, <2>3, <3>1, <3>2, <3>3, <3>4
  <2>8. i = k
    BY <1>3, <2>6, <2>7
  <2>9. ASSUME NEW p \in 1..n, p + b - 1 <= Len(wire(i)) PROVE segment[p] = wire(i)[p + b - 1]
    <3>1. PICK j : j = p + b - 1
      OBVIOUS
    <3>2. j \in 1 .. Len(wire(i)) /\ c[i - 1] + j = p /\ p >= 1
      <4>1. PICK l \in Nat, x \in Int : l = Len(wire(i)) /\ x = c[i - 1]
        BY <1>2, <2>3
      <4>2. b \in 2..l /\ b = 1 - x /\ p + b - 1 <= l /\ p \in Int /\ p >= 1
        BY <1>1, <2>4, <2>5, <2>9, <4>1
      <4>3. j \in 1..l /\ x + j = p
        BY <3>1, <4>2
      <4>4. QED
        BY <4>1, <4>2, <4>3
    <3>3. stream[c[i - 1] + j] = wire(i)[j]
      BY <1>3, <3>2
    <3>4. QED
      BY <1>4, <3>1, <3>2, <3>3
  <2>10. SitsAt(segment, lines[i], b)
    BY <1>4, <2>9 DEF SitsAt, wire
  <2>11. ComesFrom(segment, lines[i])
    BY <2>5, <2>10 DEF ComesFrom, wire
  <2>12. QED
    BY <1>3, <2>8, <2>11
<1>13. QED
  BY <1>3, <1>6, <1>7, <1>9, <1>10, <1>11, <1>12 DEF segment, rest, N

LEMMA WireBegun ==
    ASSUME NEW line \in Seq(Word) PROVE Begun(Wire(line)) = 1
<1>1. DOMAIN Wire(line) = 1 .. Len(Wire(line)) /\ 1 \in 1 .. Len(Wire(line))
  BY WireBegins, LenProperties
<1>2. {i \in DOMAIN Wire(line) : Wire(line)[i] = "AT"} = {1}
  BY <1>1, WireBegins
<1>3. QED
  BY <1>2, FS_Singleton DEF Begun

-----------------------------------------------------------------------------
(******************************** One parse ********************************)

\* What may be in the memory of a line.
Remainders == Texts \cup {<<"?">>}

Commands == {config_commands[x] : x \in 1..28} \cup {UNKNOWN, NOTHING}

\* What the parser notes of the words of a segment.
Note(words, k, bare, inside) ==
    LET n == Len(words) IN
    [cmd  |-> IF n = 0 THEN NOTHING ELSE Dispatch(words[1]),
     args |-> IF n = 0 THEN <<>> ELSE Tail(words),
     word |-> IF n = 0 THEN <<>> ELSE words[1],
     line |-> k, inside |-> inside, replay |-> bare]

Notes == [cmd : Commands, args : Seq(Remainders), word : Remainders \cup {<<>>},
          line : Nat \ {0}, inside : BOOLEAN, replay : BOOLEAN]

LEMMA NoteIs ==
    ASSUME NEW words \in Seq(Remainders), NEW k \in Nat \ {0}, NEW bare \in BOOLEAN,
           NEW inside \in BOOLEAN
    PROVE  Note(words, k, bare, inside) \in Notes
<1> DEFINE n == Len(words)
           cmd == IF n = 0 THEN NOTHING ELSE Dispatch(words[1])
           args == IF n = 0 THEN <<>> ELSE Tail(words)
           word == IF n = 0 THEN <<>> ELSE words[1]
<1>1. n \in Nat /\ (words = <<>> <=> n = 0)
  BY EmptyIs, LenProperties
<1>2. cmd \in Commands
  <2>1. Dispatch(words[1]) \in Commands
    BY DispatchIs DEF Commands
  <2> HIDE DEF n
  <2>2. QED
    BY <2>1 DEF Commands
<1>3. args \in Seq(Remainders)
  <2>1. <<>> \in Seq(Remainders)
    BY EmptySeq
  <2>2. n # 0 => Tail(words) \in Seq(Remainders)
    BY <1>1, HeadTailProperties
  <2>3. QED
    BY <2>1, <2>2
<1>4. word \in Remainders \cup {<<>>}
  <2>1. n # 0 => words[1] \in Remainders
    BY <1>1, ElementOfSeq
  <2>2. QED
    BY <2>1
<1>5. Note(words, k, bare, inside) = [cmd |-> cmd, args |-> args, word |-> word, line |-> k,
                                     inside |-> inside, replay |-> bare]
  BY DEF Note
<1> HIDE DEF cmd, args, word
<1>6. QED
  BY <1>2, <1>3, <1>4, <1>5 DEF Notes

\* The second half of RunsOwnLine, for one line.
OfLine(r, line) ==
    ~r.replay /\ r.cmd # NOTHING =>
        /\ r.cmd # UNKNOWN => IsPrefix(r.word, r.cmd)
        /\ ~r.inside =>
              /\ line # <<>> /\ IsPrefix(r.word, line[1])
              /\ r.args # <<>> => r.word = line[1] /\ IsPrefix(Front(r.args), Tail(line))
                                  /\ IsPrefix(Last(r.args), line[Len(r.args) + 1])
        /\ r.inside => InsideOf(<<r.word>> \o r.args, line)

\* What WholeLinesRun says of one line.
Exactly(r, line) ==
    /\ ~r.inside
    /\ r.args = SubSeq(line, 2, IF Len(line) < MAX_ARGS THEN Len(line) ELSE MAX_ARGS)
    /\ line # <<>> /\ line[1] \in ToSet(config_commands) => r.cmd = line[1]

LEMMA NoteOfLine ==
    ASSUME NEW line \in Seq(Word), NEW words, Begins(words, line), NEW k
    PROVE  OfLine(Note(words, k, FALSE, FALSE), line)
<1> DEFINE n == Len(words)
           r == Note(words, k, FALSE, FALSE)
<1>1. n \in Nat
  BY LenProperties DEF Begins
<1>2. CASE n = 0
  <2>1. r.cmd = NOTHING
    BY <1>2 DEF Note
  <2> HIDE DEF r
  <2>2. QED
    BY <2>1 DEF OfLine, r
<1>3. CASE n # 0
  <2>1. r.cmd = Dispatch(words[1]) /\ r.args = Tail(words) /\ r.word = words[1] /\ ~r.inside
    BY <1>3 DEF Note
  <2>2. /\ line # <<>> /\ IsPrefix(words[1], line[1])
        /\ Tail(words) # <<>> => /\ words[1] = line[1] /\ IsPrefix(Front(Tail(words)), Tail(line))
                                 /\ IsPrefix(Last(Tail(words)), line[Len(Tail(words)) + 1])
    BY <1>3, Own
  <2>3. Dispatch(words[1]) # UNKNOWN => IsPrefix(words[1], Dispatch(words[1]))
    BY DispatchIs
  <2> HIDE DEF r
  <2>4. QED
    BY <2>1, <2>2, <2>3 DEF OfLine, r
<1>4. QED
  BY <1>2, <1>3

LEMMA NoteInside ==
    ASSUME NEW line \in Seq(Word), NEW words \in Seq(Texts), InsideOf(words, line), NEW k
    PROVE  OfLine(Note(words, k, FALSE, TRUE), line)
<1> DEFINE n == Len(words)
           r == Note(words, k, FALSE, TRUE)
<1>1. n \in Nat /\ (words = <<>> <=> n = 0)
  BY EmptyIs, LenProperties
<1>2. CASE n = 0
  <2>1. r.cmd = NOTHING
    BY <1>2 DEF Note
  <2> HIDE DEF r
  <2>2. QED
    BY <2>1 DEF OfLine, r
<1>3. CASE n # 0
  <2>1. r.cmd = Dispatch(words[1]) /\ r.args = Tail(words) /\ r.word = words[1] /\ r.inside
    BY <1>3 DEF Note
  <2>2. <<words[1]>> \o Tail(words) = words
    <3>1. words[1] \in Texts
      BY <1>1, <1>3, ElementOfSeq
    <3>2. /\ Tail(words) \in Seq(Texts) /\ Len(Tail(words)) = n - 1
          /\ \A x \in 1 .. n - 1 : Tail(words)[x] = words[x + 1]
      <4>1. /\ Tail(words) \in Seq(Texts) /\ Len(Tail(words)) = n - 1
            /\ \A x \in 1 .. Len(Tail(words)) : Tail(words)[x] = words[x + 1]
        BY <1>1, <1>3, HeadTailProperties
      <4>2. QED
        BY <4>1
    <3>3. PICK h \in Texts, u \in Seq(Texts) : h = words[1] /\ u = Tail(words)
      BY <3>1, <3>2
    <3> DEFINE o == <<h>>
    <3>4. o \in Seq(Texts) /\ Len(o) = 1 /\ o[1] = h
      BY Single
    <3> HIDE DEF o
    <3>5. /\ o \o u \in Seq(Texts) /\ Len(o \o u) = Len(o) + Len(u)
          /\ \A x \in 1 .. Len(o) + Len(u) :
                (o \o u)[x] = IF x <= Len(o) THEN o[x] ELSE u[x - Len(o)]
      BY <3>4, ConcatProperties
    <3>6. Len(o \o u) = Len(words)
      BY <1>1, <3>2, <3>3, <3>4, <3>5
    <3>7. ASSUME NEW x \in 1 .. Len(words) PROVE (o \o u)[x] = words[x]
      <4>1. x \in 1 .. Len(o) + Len(u)
        BY <1>1, <3>2, <3>3, <3>4
      <4>2. CASE x = 1
        BY <3>3, <3>4, <3>5, <4>1, <4>2
      <4>3. CASE x # 1
        <5>1. PICK y : y = x - 1
          OBVIOUS
        <5>2. y \in 1 .. n - 1 /\ y + 1 = x /\ ~(x <= Len(o)) /\ x - Len(o) = y
          BY <1>1, <3>4, <4>3, <5>1
        <5>3. (o \o u)[x] = u[y] /\ u[y] = words[y + 1]
          BY <3>2, <3>3, <3>5, <4>1, <5>2
        <5>4. QED
          BY <5>2, <5>3
      <4>4. QED
        BY <4>2, <4>3
    <3>8. o \o u = words
      <4>1. PICK v : v = o \o u
        OBVIOUS
      <4>2. v \in Seq(Texts) /\ Len(v) = Len(words) /\ \A x \in 1 .. Len(v) : v[x] = words[x]
        BY <3>5, <3>6, <3>7, <4>1
      <4>3. v = words
        BY <4>2, SeqEqual
      <4>4. QED
        BY <4>1, <4>3
    <3>9. QED
      BY <3>3, <3>8 DEF o
  <2>3. Dispatch(words[1]) # UNKNOWN => IsPrefix(words[1], Dispatch(words[1]))
    BY DispatchIs
  <2> HIDE DEF r
  <2>4. QED
    BY <2>1, <2>2, <2>3 DEF OfLine, r
<1>4. QED
  BY <1>2, <1>3

LEMMA NoteExactly ==
    ASSUME NEW line \in Seq(Word), NEW words \in Seq(Texts),
           Len(words) = IF Len(line) < MAX_ARGS THEN Len(line) ELSE MAX_ARGS,
           \A x \in 1 .. Len(words) : words[x] = line[x], NEW k, NEW bare
    PROVE  Exactly(Note(words, k, bare, FALSE), line)
<1> DEFINE n == Len(words)
           r == Note(words, k, bare, FALSE)
           part == SubSeq(line, 2, n)
<1>1. n \in Nat /\ Len(line) \in Nat /\ n <= Len(line) /\ MAX_ARGS \in Nat \ {0}
      /\ (words = <<>> <=> n = 0) /\ (line = <<>> <=> Len(line) = 0) /\ (n = 0 => Len(line) = 0)
  BY EmptyIs, LenProperties, DispatchAssumption
<1>2. line \in Seq(Texts)
  <2>1. Word \subseteq Texts
    BY DEF Word, Texts
  <2>2. QED
    BY <2>1, SeqMonotonic
<1>3. CASE n = 0
  <2>1. r.args = <<>> /\ line = <<>> /\ ~r.inside
    BY <1>1, <1>3 DEF Note
  <2>2. part = <<>>
    <3>1. 2 \in Int /\ n \in Int /\ n < 2
      BY <1>3
    <3>2. QED
      BY <3>1, SubSeqEmpty
  <2> HIDE DEF r
  <2>3. QED
    BY <2>1, <2>2 DEF Exactly, r
<1>4. CASE n # 0
  <2>1. r.cmd = Dispatch(words[1]) /\ r.args = Tail(words) /\ ~r.inside
    BY <1>4 DEF Note
  <2>2. words[1] = line[1]
    BY <1>1, <1>4
  <2>3. /\ Tail(words) \in Seq(Texts) /\ Len(Tail(words)) = n - 1
        /\ \A x \in 1 .. n - 1 : Tail(words)[x] = words[x + 1]
    <3>1. /\ Tail(words) \in Seq(Texts) /\ Len(Tail(words)) = n - 1
          /\ \A x \in 1 .. Len(Tail(words)) : Tail(words)[x] = words[x + 1]
      BY <1>1, <1>4, HeadTailProperties
    <3>2. QED
      BY <3>1
  <2>4. /\ part \in Seq(Texts) /\ Len(part) = n - 1
        /\ \A x \in 1 .. n - 1 : part[x] = line[x + 1]
    <3>1. 2 \in Nat \ {0} /\ n \in Int /\ n <= Len(line) /\ 2 <= n + 1
      BY <1>1, <1>4
    <3>2. /\ part \in Seq(Texts) /\ Len(part) = n - 2 + 1
          /\ \A x \in 1 .. n - 2 + 1 : part[x] = line[2 + x - 1]
      BY <1>2, <3>1, Part
    <3>3. n - 2 + 1 = n - 1 /\ \A x \in Int : 2 + x - 1 = x + 1
      BY <1>1
    <3> HIDE DEF part
    <3>4. QED
      BY <3>2, <3>3
  <2> HIDE DEF part
  <2>5. Tail(words) = part
    <3>1. ASSUME NEW x \in 1 .. n - 1 PROVE Tail(words)[x] = part[x]
      <4>1. x + 1 \in 1..n
        BY <1>1
      <4>2. QED
        BY <2>3, <2>4, <4>1
    <3>2. PICK a, b : a = Tail(words) /\ b = part
      OBVIOUS
    <3>3. /\ a \in Seq(Texts) /\ b \in Seq(Texts) /\ Len(a) = Len(b)
          /\ \A x \in 1 .. Len(a) : a[x] = b[x]
      BY <2>3, <2>4, <3>1, <3>2
    <3>4. a = b
      BY <3>3, SeqEqual
    <3>5. QED
      BY <3>2, <3>4
  <2>6. line[1] \in ToSet(config_commands) => Dispatch(line[1]) = line[1]
    <3>1. DOMAIN config_commands = 1..28
      BY DEF config_commands
    <3>2. QED
      BY <3>1, SpelledOut DEF ToSet
  <2> HIDE DEF r
  <2>7. QED
    BY <2>1, <2>2, <2>5, <2>6 DEF Exactly, r, part
<1>5. QED
  BY <1>3, <1>4

\* Every block of a parse is freed.
LEMMA AllFreed == ASSUME NEW n \in Nat PROVE Blocks(n) \ Freed(n) = {}
<1> DEFINE argc == IF n = 0 THEN 0 ELSE n - 1
<1>1. \A i \in 0 .. n - 1 : i \in 0 .. argc
  OBVIOUS
<1>2. Freed(n) = {<<"lbuf">>, <<"argv">>} \cup {<<"argument", i>> : i \in 0 .. argc}
  BY DEF Freed
<1> HIDE DEF argc
<1>3. Blocks(n) \subseteq Freed(n)
  BY <1>1, <1>2 DEF Blocks
<1>4. QED
  BY <1>3

\* What the parser may find in a segment that begins inside a line.
LEMMA FoundInside ==
    ASSUME NEW line \in Seq(Word), NEW segment \in Seq(Fragments), Len(segment) >= 1,
           ComesFrom(segment, line), remains \in Seq(Remainders), NEW words \in Found(segment)
    PROVE  /\ words \in Seq(Remainders)
           /\ Len(segment) # 1 => words \in Seq(Texts) /\ InsideOf(words, line)
<1>1. CASE Len(segment) = 1
  <2>1. words \in {<<>>, << <<"?">> >>, remains}
    BY <1>1 DEF Found
  <2>2. <<"?">> \in Remainders
    BY DEF Remainders
  <2> DEFINE e == <<"?">>
  <2> HIDE DEF e
  <2>3. <<e>> \in Seq(Remainders) /\ <<>> \in Seq(Remainders)
    BY <2>2, Single, EmptySeq DEF e
  <2>4. words \in Seq(Remainders)
    BY <2>1, <2>3 DEF e
  <2>5. QED
    BY <1>1, <2>4
<1>2. CASE Len(segment) # 1
  <2>1. words = config_parse_args(Text(segment))
    BY <1>2 DEF Found
  <2>2. Len(segment) >= 2
    <3>1. PICK l \in Nat : l = Len(segment)
      BY LenProperties
    <3>2. QED
      BY <1>2, <3>1
  <2>3. words \in Seq(Texts) /\ InsideOf(words, line)
    BY <2>1, <2>2, WordsInside
  <2>4. Texts \subseteq Remainders
    BY DEF Remainders
  <2>5. words \in Seq(Remainders)
    BY <2>3, <2>4, SeqMonotonic
  <2>6. QED
    BY <2>3, <2>5
<1>3. QED
  BY <1>1, <1>2

\* What the parser may find in a segment that begins as a line.
LEMMA FoundIs ==
    ASSUME NEW line \in Seq(Word), NEW segment \in Seq(Fragments), Len(segment) >= 1,
           StartsAs(segment, line), remains \in Seq(Remainders), NEW words \in Found(segment)
    PROVE  /\ words \in Seq(Remainders)
           /\ Len(segment) # 1 => Begins(words, line)
           /\ segment = Wire(line) =>
                 /\ Len(segment) # 1 /\ words \in Seq(Texts)
                 /\ Len(words) = IF Len(line) < MAX_ARGS THEN Len(line) ELSE MAX_ARGS
                 /\ \A x \in 1 .. Len(words) : words[x] = line[x]
<1>1. Len(segment) \in Nat /\ (segment = Wire(line) => Len(segment) >= 3)
  BY WireBegins, LenProperties
<1>2. CASE Len(segment) = 1
  <2>1. words \in {<<>>, << <<"?">> >>, remains}
    BY <1>2 DEF Found
  <2>2. <<>> \in Seq(Remainders) /\ << <<"?">> >> \in Seq(Remainders)
    <3>1. <<"?">> \in Remainders
      BY DEF Remainders
    <3> DEFINE e == <<"?">>
    <3> HIDE DEF e
    <3>2. <<e>> \in Seq(Remainders)
      BY <3>1, Single DEF e
    <3>3. QED
      BY <3>2, EmptySeq DEF e
  <2>3. words \in Seq(Remainders)
    BY <2>1, <2>2
  <2>4. segment # Wire(line)
    BY <1>1, <1>2
  <2>5. QED
    BY <1>2, <2>3, <2>4
<1>3. CASE Len(segment) # 1
  <2>1. words = config_parse_args(Text(segment)) /\ Len(segment) >= 2
    <3>1. words = config_parse_args(Text(segment))
      BY <1>3 DEF Found
    <3>2. Len(segment) >= 2
      <4>1. PICK l \in Nat : l = Len(segment)
        BY <1>1
      <4>2. QED
        BY <1>3, <4>1
    <3>3. QED
      BY <3>1, <3>2
  <2>2. /\ Begins(words, line) /\ words \in Seq(Texts)
        /\ segment = Wire(line) =>
              /\ Len(words) = IF Len(line) < MAX_ARGS THEN Len(line) ELSE MAX_ARGS
              /\ \A x \in 1 .. Len(words) : words[x] = line[x]
    BY <2>1, Parsed
  <2>3. words \in Seq(Remainders)
    <3>1. Texts \subseteq Remainders
      BY DEF Remainders
    <3>2. QED
      BY <2>2, <3>1, SeqMonotonic
  <2>4. QED
    BY <1>3, <2>2, <2>3
<1>4. QED
  BY <1>2, <1>3

-----------------------------------------------------------------------------
(***************************** What was noted ******************************)

\* The notes are of the first k lines, in their order, and each is of its line; only what
\* came from inside a line follows another note of the same one.
Owned(notes, lines, k) ==
    \A i \in 1 .. Len(notes) :
        /\ notes[i].line \in 1..k
        /\ \A j \in 1 .. i - 1 : \/ notes[j].line < notes[i].line
                                 \/ notes[i].inside /\ notes[j].line = notes[i].line
        /\ OfLine(notes[i], lines[notes[i].line])

\* They are of all of these lines, and complete.
Complete(notes, lines, k) ==
    /\ {notes[i].line : i \in 1 .. Len(notes)} = 1..k
    /\ \A i \in 1 .. Len(notes) : Exactly(notes[i], lines[notes[i].line])

LEMMA Noted ==
    ASSUME NEW s \in Seq(Notes), NEW r \in Notes, NEW t, t = Append(s, r)
    PROVE  /\ t \in Seq(Notes) /\ Len(s) \in Nat /\ Len(t) = Len(s) + 1
           /\ t[Len(s) + 1] = r /\ \A i \in 1 .. Len(s) : t[i] = s[i]
BY AppendProperties, LenProperties

\* More of the lines have arrived.
LEMMA OwnedMore ==
    ASSUME NEW s, NEW lines, NEW k \in Nat, NEW m \in Nat, k <= m, Owned(s, lines, k)
    PROVE  Owned(s, lines, m)
<1>1. \A l \in 1..k : l \in 1..m
  OBVIOUS
<1>2. QED
  BY <1>1 DEF Owned

\* One more is sent.
LEMMA OwnedSent ==
    ASSUME NEW s, NEW lines \in Seq(Seq(Word)), NEW k \in 0 .. Len(lines), Owned(s, lines, k),
           NEW line \in Seq(Word)
    PROVE  Owned(s, Append(lines, line), k)
<1> DEFINE more == Append(lines, line)
<1>1. \A l \in 1..k : more[l] = lines[l]
  BY LenProperties, AppendProperties
<1> HIDE DEF more
<1>2. Owned(s, more, k)
  BY <1>1 DEF Owned
<1>3. QED
  BY <1>2 DEF more

LEMMA CompleteSent ==
    ASSUME NEW s, NEW lines \in Seq(Seq(Word)), NEW k \in 0 .. Len(lines), Complete(s, lines, k),
           NEW line \in Seq(Word)
    PROVE  Complete(s, Append(lines, line), k)
<1> DEFINE more == Append(lines, line)
<1>1. \A l \in 1..k : more[l] = lines[l]
  BY LenProperties, AppendProperties
<1> HIDE DEF more
<1>2. \A i \in 1 .. Len(s) : s[i].line \in 1..k
  BY DEF Complete
<1>3. Complete(s, more, k)
  BY <1>1, <1>2 DEF Complete
<1>4. QED
  BY <1>3 DEF more

\* The next line is parsed, or more of the last one.
LEMMA OwnedNext ==
    ASSUME NEW s \in Seq(Notes), NEW lines, NEW k \in Nat, Owned(s, lines, k),
           NEW r \in Notes, r.line = k + 1 \/ (r.inside /\ r.line = k),
           OfLine(r, lines[r.line]), NEW m \in Nat, k <= m, r.line <= m
    PROVE  Owned(Append(s, r), lines, m)
<1> DEFINE t == Append(s, r)
<1>1. /\ Len(s) \in Nat /\ Len(t) = Len(s) + 1
      /\ t[Len(s) + 1] = r /\ \A i \in 1 .. Len(s) : t[i] = s[i]
  BY Noted
<1> HIDE DEF t
<1>2. ASSUME NEW i \in 1 .. Len(t)
      PROVE  /\ t[i].line \in 1..m
             /\ \A j \in 1 .. i - 1 : \/ t[j].line < t[i].line
                                      \/ t[i].inside /\ t[j].line = t[i].line
             /\ OfLine(t[i], lines[t[i].line])
  <2>1. CASE i \in 1 .. Len(s)
    <3>1. \A j \in 1..i : j \in 1 .. Len(s)
      BY <1>1, <2>1
    <3>2. t[i] = s[i] /\ \A j \in 1 .. i - 1 : t[j] = s[j]
      BY <1>1, <3>1
    <3>3. /\ s[i].line \in 1..k /\ OfLine(s[i], lines[s[i].line])
          /\ \A j \in 1 .. i - 1 : \/ s[j].line < s[i].line
                                   \/ s[i].inside /\ s[j].line = s[i].line
      BY <2>1 DEF Owned
    <3>4. s[i].line \in 1..m
      BY <3>3
    <3>5. QED
      BY <3>2, <3>3, <3>4
  <2>2. CASE i = Len(s) + 1
    <3>1. t[i] = r /\ r.line \in 1..m
      <4>1. t[i] = r
        BY <1>1, <2>2
      <4>2. r.line \in Nat \ {0}
        BY DEF Notes
      <4>3. QED
        BY <4>1, <4>2
    <3>2. ASSUME NEW j \in 1 .. i - 1
          PROVE  t[j].line < t[i].line \/ (t[i].inside /\ t[j].line = t[i].line)
      <4>1. j \in 1 .. Len(s)
        BY <1>1, <2>2
      <4>2. t[j] = s[j] /\ s[j].line \in 1..k
        BY <1>1, <4>1 DEF Owned
      <4>3. CASE r.line = k + 1
        BY <3>1, <4>2, <4>3
      <4>4. CASE r.inside /\ r.line = k
        <5>1. s[j].line < k \/ s[j].line = k
          BY <4>2
        <5>2. QED
          BY <3>1, <4>2, <4>4, <5>1
      <4>5. QED
        BY <4>3, <4>4
    <3>3. OfLine(t[i], lines[t[i].line])
      BY <3>1
    <3>4. QED
      BY <3>1, <3>2, <3>3
  <2>3. QED
    BY <1>1, <2>1, <2>2
<1>3. QED
  BY <1>2 DEF Owned, t

LEMMA CompleteNext ==
    ASSUME NEW s \in Seq(Notes), NEW lines, NEW k \in Nat, Complete(s, lines, k),
           NEW r \in Notes, r.line = k + 1, Exactly(r, lines[k + 1])
    PROVE  Complete(Append(s, r), lines, k + 1)
<1> DEFINE t == Append(s, r)
<1>1. /\ Len(s) \in Nat /\ Len(t) = Len(s) + 1
      /\ t[Len(s) + 1] = r /\ \A i \in 1 .. Len(s) : t[i] = s[i]
  BY Noted
<1> HIDE DEF t
<1>2. {t[i].line : i \in 1 .. Len(t)} = 1 .. k + 1
  <2>1. {s[i].line : i \in 1 .. Len(s)} = 1..k
    BY DEF Complete
  <2>2. 1 .. Len(t) = (1 .. Len(s)) \cup {Len(s) + 1} /\ 1 .. k + 1 = (1..k) \cup {k + 1}
    BY <1>1
  <2>3. {t[i].line : i \in 1 .. Len(s)} = 1..k
    BY <1>1, <2>1
  <2>4. t[Len(s) + 1].line = k + 1
    BY <1>1
  <2>5. QED
    BY <2>2, <2>3, <2>4, Zenon
<1>3. ASSUME NEW i \in 1 .. Len(t) PROVE Exactly(t[i], lines[t[i].line])
  <2>1. CASE i \in 1 .. Len(s)
    BY <1>1, <2>1 DEF Complete
  <2>2. CASE i = Len(s) + 1
    <3>1. t[i] = r /\ t[i].line = k + 1
      BY <1>1, <2>2
    <3>2. QED
      BY <3>1
  <2>3. QED
    BY <1>1, <2>1, <2>2
<1>4. QED
  BY <1>2, <1>3 DEF Complete, t

-----------------------------------------------------------------------------
(****************************** The invariant ******************************)

TypeOK ==
    /\ sent \in Seq(Seq(Word)) /\ net \in Seq(Fragments) /\ taken \in Nat
    /\ whole \in BOOLEAN /\ up \in BOOLEAN
    /\ ran \in Seq(Notes) /\ remains \in Seq(Remainders)

Arrivals == arrived = 1..taken /\ \E c : Placed(c, sent, net, taken)

IInv ==
    /\ TypeOK /\ Arrivals /\ NothingLeaks
    /\ Owned(ran, sent, taken)
    /\ whole => Complete(ran, sent, IF up THEN taken ELSE taken - 1)

LEMMA LinesAre == ASSUME NEW line \in Lines PROVE line \in Seq(Word)
BY DispatchAssumption DEF Word

\* Nothing has been sent.
LEMMA NothingSent ==
    /\ \A S : <<>> \in Seq(S)
    /\ 1..0 = {} /\ \E c : Placed(c, <<>>, <<>>, 0)
    /\ Owned(<<>>, <<>>, 0) /\ Complete(<<>>, <<>>, 0)
<1>1. Len(<<>>) = 0 /\ \A S : <<>> \in Seq(S)
  BY EmptySeq
<1>2. \E c : Placed(c, <<>>, <<>>, 0)
  <2> DEFINE c == [i \in 0..0 |-> 0]
  <2>1. Placed(c, <<>>, <<>>, 0)
    BY <1>1 DEF Placed
  <2> HIDE DEF c
  <2>2. QED
    BY <2>1
<1>3. Owned(<<>>, <<>>, 0) /\ Complete(<<>>, <<>>, 0)
  BY <1>1 DEF Owned, Complete
<1>4. QED
  BY <1>1, <1>2, <1>3

LEMMA New ==
    ASSUME NewConnection, heap' = {}, remains' \in Seq(Remainders), up' = TRUE
    PROVE  IInv'
<1>1. /\ sent' = <<>> /\ net' = <<>> /\ taken' = 0 /\ arrived' = {} /\ whole' = TRUE /\ ran' = <<>>
  BY DEF NewConnection
<1>2. QED
  BY <1>1, NothingSent DEF IInv, TypeOK, Arrivals, NothingLeaks

LEMMA FirstState == Init => IInv
<1> SUFFICES ASSUME Init PROVE IInv
  OBVIOUS
<1>1. /\ sent = <<>> /\ net = <<>> /\ taken = 0 /\ arrived = {} /\ whole = TRUE
      /\ ran = <<>> /\ heap = {} /\ remains = <<>> /\ up = TRUE
  BY DEF Init
<1>2. QED
  BY <1>1, NothingSent DEF IInv, TypeOK, Arrivals, NothingLeaks

LEMMA SendKeeps ==
    ASSUME IInv, NEW line \in Lines, Send(line) PROVE IInv'
<1>1. /\ TypeOK /\ arrived = 1..taken /\ heap = {} /\ Owned(ran, sent, taken)
      /\ whole => Complete(ran, sent, IF up THEN taken ELSE taken - 1)
  BY DEF IInv, Arrivals, NothingLeaks
<1>2. /\ sent \in Seq(Seq(Word)) /\ net \in Seq(Fragments) /\ taken \in Nat /\ up
      /\ line \in Seq(Word) /\ Wire(line) \in Seq(Fragments)
  BY <1>1, LinesAre, WireBegins DEF TypeOK, Send
<1>3. /\ sent' = Append(sent, line) /\ net' = net \o Wire(line)
      /\ UNCHANGED <<taken, arrived, whole, ran, heap, remains, up>>
  BY DEF Send
<1>4. PICK c : Placed(c, sent, net, taken)
  BY DEF IInv, Arrivals
<1>5. taken \in 0 .. Len(sent)
  BY <1>4 DEF Placed
<1>6. TypeOK'
  <2>1. Append(sent, line) \in Seq(Seq(Word))
    BY <1>2, AppendProperties
  <2>2. net \o Wire(line) \in Seq(Fragments)
    BY <1>2, ConcatProperties
  <2>3. QED
    BY <1>1, <1>3, <2>1, <2>2 DEF TypeOK
<1>7. Arrivals'
  <2>1. \E d : Placed(d, Append(sent, line), net \o Wire(line), taken)
    BY <1>2, <1>4, PlacedSent
  <2>2. QED
    BY <1>1, <1>3, <2>1 DEF Arrivals
<1>8. Owned(ran, Append(sent, line), taken)
  BY <1>1, <1>2, <1>5, OwnedSent
<1>9. ASSUME whole PROVE Complete(ran, Append(sent, line), taken)
  <2>1. Complete(ran, sent, taken)
    BY <1>1, <1>2, <1>9
  <2>2. QED
    BY <1>2, <1>5, <2>1, CompleteSent
<1>10. QED
  BY <1>1, <1>2, <1>3, <1>6, <1>7, <1>8, <1>9 DEF IInv, NothingLeaks

LEMMA DeliverKeeps ==
    ASSUME IInv, NEW n \in 1 .. Len(net), Deliver(n) PROVE IInv'
<1> DEFINE segment == SubSeq(net, 1, n)
           rest == SubSeq(net, n + 1, Len(net))
           line == sent[taken + 1]
           bare == Len(segment) = 1
<1>1. /\ TypeOK /\ arrived = 1..taken /\ heap = {} /\ Owned(ran, sent, taken)
      /\ whole => Complete(ran, sent, IF up THEN taken ELSE taken - 1)
  BY DEF IInv, Arrivals, NothingLeaks
<1>2. /\ sent \in Seq(Seq(Word)) /\ net \in Seq(Fragments) /\ taken \in Nat /\ ran \in Seq(Notes)
      /\ remains \in Seq(Remainders) /\ up /\ up \in BOOLEAN
  BY <1>1 DEF TypeOK, Deliver
<1>3. /\ net' = rest /\ sent' = sent /\ taken' = taken + Begun(segment)
      /\ arrived' = arrived \cup (taken + 1 .. taken')
      /\ whole' = (whole /\ taken < Len(sent) /\ segment = Wire(line))
      /\ serverRecvCb(segment)
  BY DEF Deliver
<1>4. /\ \E d : Placed(d, sent, rest, taken')
      /\ taken' \in Nat /\ taken <= taken'
      /\ segment[1] = "AT" => taken + 1 <= taken' /\ StartsAs(segment, line)
      /\ segment[1] = MidAT => taken >= 1 /\ ComesFrom(segment, sent[taken])
  <2>1. PICK c : Placed(c, sent, net, taken)
    BY DEF IInv, Arrivals
  <2>2. LET t == taken + Begun(segment)
        IN /\ \E d : Placed(d, sent, rest, t)
           /\ t \in Nat /\ taken <= t
           /\ segment[1] = "AT" => taken + 1 <= t /\ StartsAs(segment, sent[taken + 1])
           /\ segment[1] = MidAT => taken >= 1 /\ ComesFrom(segment, sent[taken])
    BY <1>2, <2>1, PlacedDelivered
  <2>3. QED
    BY <1>3, <2>2
<1>5. taken' \in 0 .. Len(sent) /\ Len(sent) \in Nat
  BY <1>2, <1>4, LenProperties DEF Placed
<1>6. segment \in Seq(Fragments) /\ Len(segment) = n /\ n \in Nat \ {0} /\ rest \in Seq(Fragments)
  <2>1. Len(net) \in Nat /\ \A i \in 1 .. Len(net) : net[i] \in Fragments
    BY <1>2, LenProperties, ElementOfSeq
  <2>2. segment \in Seq(Fragments) /\ Len(segment) = n
    BY <2>1, SubSeqProperties
  <2>3. rest \in Seq(Fragments)
    BY <2>1, SubSeqProperties
  <2>4. QED
    BY <2>2, <2>3
<1> HIDE DEF segment, rest
<1>7. ASSUME whole'
      PROVE  /\ segment[1] = "AT" /\ taken' = taken + 1 /\ line \in Seq(Word)
             /\ whole /\ segment = Wire(line)
  <2>1. whole /\ taken < Len(sent) /\ segment = Wire(line)
    BY <1>3, <1>7
  <2>2. line \in Seq(Word)
    <3>1. taken + 1 \in 1 .. Len(sent)
      BY <1>2, <1>5, <2>1
    <3>2. QED
      BY <1>2, <3>1, ElementOfSeq
  <2>3. segment[1] = "AT"
    <3>1. Wire(line)[1] = "AT"
      BY <2>2, WireBegins
    <3>2. QED
      BY <2>1, <3>1
  <2>4. Begun(segment) = 1
    BY <2>1, <2>2, WireBegun
  <2>5. QED
    BY <1>3, <2>1, <2>2, <2>3, <2>4
<1>8. Arrivals'
  <2>1. arrived' = 1..taken'
    <3>1. (1..taken) \cup (taken + 1 .. taken') = 1..taken'
      BY <1>2, <1>4
    <3>2. QED
      BY <1>1, <1>3, <3>1
  <2>2. QED
    BY <1>3, <1>4, <2>1 DEF Arrivals
<1>9. whole' \in BOOLEAN
  BY <1>3
<1>10. Owned(ran, sent, taken')
  BY <1>1, <1>2, <1>4, OwnedMore
\* The segment is dropped.
<1>11. CASE segment[1] \notin {"AT", MidAT}
  <2>1. UNCHANGED <<ran, heap, remains, up>> /\ ~whole'
    BY <1>3, <1>7, <1>11 DEF serverRecvCb
  <2>2. TypeOK'
    BY <1>2, <1>3, <1>4, <1>6, <1>9, <2>1 DEF TypeOK
  <2>3. QED
    BY <1>1, <1>3, <1>8, <1>10, <2>1, <2>2 DEF IInv, NothingLeaks
\* An allocation failed.
<1>12. CASE up' = FALSE /\ UNCHANGED <<ran, heap, remains>>
  <2>1. TypeOK'
    BY <1>2, <1>3, <1>4, <1>6, <1>9, <1>12 DEF TypeOK
  <2>2. ASSUME whole' PROVE Complete(ran, sent, taken' - 1)
    <3>1. Complete(ran, sent, taken) /\ taken' - 1 = taken
      BY <1>1, <1>2, <1>7, <2>2
    <3>2. QED
      BY <3>1
  <2>3. QED
    BY <1>1, <1>3, <1>8, <1>10, <1>12, <2>1, <2>2 DEF IInv, NothingLeaks
\* The words of the segment are looked up.
<1>13. ASSUME segment[1] = "AT", NEW words \in Found(segment), UNCHANGED up,
              heap' = heap \cup (Blocks(Len(words)) \ Freed(Len(words))),
              ran' = Append(ran, Note(words, taken + 1, bare, FALSE)), remains' = words
       PROVE  IInv'
  <2> DEFINE r == Note(words, taken + 1, bare, FALSE)
  <2>1. taken + 1 <= taken' /\ StartsAs(segment, line) /\ line \in Seq(Word)
    <3>1. taken + 1 <= taken' /\ StartsAs(segment, line)
      BY <1>4, <1>13
    <3>2. taken + 1 \in 1 .. Len(sent)
      BY <1>2, <1>5, <3>1
    <3>3. QED
      BY <1>2, <3>1, <3>2, ElementOfSeq
  <2>2. /\ words \in Seq(Remainders)
        /\ Len(segment) # 1 => Begins(words, line)
        /\ segment = Wire(line) =>
              /\ Len(segment) # 1 /\ words \in Seq(Texts)
              /\ Len(words) = IF Len(line) < MAX_ARGS THEN Len(line) ELSE MAX_ARGS
              /\ \A x \in 1 .. Len(words) : words[x] = line[x]
    <3>1. Len(segment) >= 1
      BY <1>6
    <3> HIDE DEF line
    <3>2. QED
      BY <1>2, <1>6, <1>13, <2>1, <3>1, FoundIs
  <2>3. Len(words) \in Nat
    BY <2>2, LenProperties
  <2>4. heap' = {}
    BY <1>1, <1>13, <2>3, AllFreed
  <2>5. r \in Notes /\ r.line = taken + 1 /\ r.replay = bare
    <3>1. taken + 1 \in Nat \ {0} /\ bare \in BOOLEAN
      BY <1>2
    <3>2. r \in Notes
      BY <2>2, <3>1, NoteIs
    <3>3. r.line = taken + 1 /\ r.replay = bare
      BY DEF Note
    <3>4. QED
      BY <3>2, <3>3
  <2>6. OfLine(r, line)
    <3>1. CASE bare
      <4>1. r.replay
        BY <2>5, <3>1
      <4> HIDE DEF r
      <4>2. QED
        BY <4>1 DEF OfLine
    <3>2. CASE ~bare
      <4>1. Begins(words, line)
        BY <2>2, <3>2
      <4>2. OfLine(Note(words, taken + 1, FALSE, FALSE), line)
        BY <2>1, <4>1, NoteOfLine
      <4>3. bare = FALSE
        BY <3>2
      <4>4. QED
        BY <4>2, <4>3
    <3>3. QED
      BY <3>1, <3>2
  <2>7. ASSUME whole' PROVE Exactly(r, line)
    <3>1. segment = Wire(line)
      BY <1>7, <2>7
    <3>2. QED
      BY <2>1, <2>2, <3>1, NoteExactly
  <2> HIDE DEF r
  <2>8. ran' = Append(ran, r)
    BY <1>13 DEF r
  <2>9. Owned(ran', sent, taken')
    <3>1. r.line <= taken'
      BY <2>1, <2>5
    <3>2. OfLine(r, sent[r.line])
      BY <2>5, <2>6
    <3>3. QED
      BY <1>1, <1>2, <1>4, <2>5, <2>8, <3>1, <3>2, OwnedNext
  <2>10. ASSUME whole' PROVE Complete(ran', sent, taken')
    <3>1. Complete(ran, sent, taken) /\ taken' = taken + 1
      BY <1>1, <1>2, <1>7, <2>10
    <3>2. Complete(ran', sent, taken + 1)
      BY <1>2, <2>5, <2>7, <2>8, <2>10, <3>1, CompleteNext
    <3>3. QED
      BY <3>1, <3>2
  <2>11. TypeOK'
    <3>1. ran' \in Seq(Notes)
      BY <1>2, <2>5, <2>8, Noted
    <3>2. QED
      BY <1>2, <1>3, <1>4, <1>6, <1>9, <1>13, <2>2, <3>1 DEF TypeOK
  <2>12. QED
    BY <1>2, <1>3, <1>8, <1>13, <2>4, <2>9, <2>10, <2>11 DEF IInv, NothingLeaks
\* It began inside the line that is arriving.
<1>14. ASSUME segment[1] = MidAT, NEW words \in Found(segment), UNCHANGED up,
              heap' = heap \cup (Blocks(Len(words)) \ Freed(Len(words))),
              ran' = Append(ran, Note(words, taken, bare, TRUE)), remains' = words
       PROVE  IInv'
  <2> DEFINE r == Note(words, taken, bare, TRUE)
             own == sent[taken]
  <2>1. taken >= 1 /\ ComesFrom(segment, own) /\ own \in Seq(Word)
    <3>1. taken >= 1 /\ ComesFrom(segment, own)
      BY <1>4, <1>14
    <3>2. taken \in 1 .. Len(sent)
      BY <1>2, <1>4, <1>5, <3>1
    <3>3. QED
      BY <1>2, <3>1, <3>2, ElementOfSeq
  <2>2. /\ words \in Seq(Remainders)
        /\ Len(segment) # 1 => words \in Seq(Texts) /\ InsideOf(words, own)
    <3>1. Len(segment) >= 1
      BY <1>6
    <3> HIDE DEF own
    <3>2. QED
      BY <1>2, <1>6, <1>14, <2>1, <3>1, FoundInside
  <2>3. Len(words) \in Nat
    BY <2>2, LenProperties
  <2>4. heap' = {}
    BY <1>1, <1>14, <2>3, AllFreed
  <2>5. r \in Notes /\ r.line = taken /\ r.replay = bare /\ r.inside
    <3>1. taken \in Nat \ {0} /\ bare \in BOOLEAN /\ TRUE \in BOOLEAN
      BY <1>2, <2>1
    <3>2. r \in Notes
      BY <2>2, <3>1, NoteIs
    <3>3. r.line = taken /\ r.replay = bare /\ r.inside
      BY DEF Note
    <3>4. QED
      BY <3>2, <3>3
  <2>6. OfLine(r, own)
    <3>1. CASE bare
      <4>1. r.replay
        BY <2>5, <3>1
      <4> HIDE DEF r
      <4>2. QED
        BY <4>1 DEF OfLine
    <3>2. CASE ~bare
      <4>1. words \in Seq(Texts) /\ InsideOf(words, own)
        BY <2>2, <3>2
      <4>2. OfLine(Note(words, taken, FALSE, TRUE), own)
        BY <2>1, <4>1, NoteInside
      <4>3. bare = FALSE
        BY <3>2
      <4>4. QED
        BY <4>2, <4>3
    <3>3. QED
      BY <3>1, <3>2
  <2> HIDE DEF r
  <2>7. ran' = Append(ran, r)
    BY <1>14 DEF r
  <2>8. Owned(ran', sent, taken')
    <3>1. r.line <= taken'
      BY <1>4, <2>5
    <3>2. OfLine(r, sent[r.line])
      BY <2>5, <2>6
    <3>3. QED
      BY <1>1, <1>2, <1>4, <2>5, <2>7, <3>1, <3>2, OwnedNext
  <2>9. ~whole'
    <3>1. MidAT # "AT"
      BY DEF MidAT
    <3>2. QED
      BY <1>7, <1>14, <3>1
  <2>10. TypeOK'
    <3>1. ran' \in Seq(Notes)
      BY <1>2, <2>5, <2>7, Noted
    <3>2. QED
      BY <1>2, <1>3, <1>4, <1>6, <1>9, <1>14, <2>2, <3>1 DEF TypeOK
  <2>11. QED
    BY <1>2, <1>3, <1>8, <1>14, <2>4, <2>8, <2>9, <2>10 DEF IInv, NothingLeaks
<1>15. CASE segment[1] \in {"AT", MidAT}
  <2>1. config_parse(segment)
    BY <1>3, <1>15 DEF serverRecvCb
  <2>2. MidAT # "AT"
    BY DEF MidAT
  <2>3. CASE up' = FALSE /\ UNCHANGED <<ran, heap, remains>>
    BY <1>12, <2>3
  <2>4. CASE segment[1] = "AT"
    BY <1>12, <1>13, <2>1, <2>4 DEF config_parse, Note
  <2>5. CASE segment[1] = MidAT
    BY <1>12, <1>14, <2>1, <2>2, <2>5 DEF config_parse, Note
  <2>6. QED
    BY <1>15, <2>4, <2>5
<1>16. QED
  BY <1>11, <1>15

LEMMA Inductive == IInv /\ [Next]_vars => IInv'
<1> SUFFICES ASSUME IInv, [Next]_vars PROVE IInv'
  OBVIOUS
<1>1. ASSUME NEW line \in Lines, Send(line) PROVE IInv'
  BY <1>1, SendKeeps
<1>2. ASSUME NEW n \in 1 .. Len(net), Deliver(n) PROVE IInv'
  BY <1>2, DeliverKeeps
<1>3. CASE Reconnect
  <2>1. heap' = {} /\ remains' \in Seq(Remainders) /\ up' = TRUE /\ NewConnection
    BY <1>3 DEF Reconnect, IInv, TypeOK, NothingLeaks
  <2>2. QED
    BY <2>1, New
<1>4. CASE Restart
  <2>1. heap' = {} /\ remains' \in Seq(Remainders) /\ up' = TRUE /\ NewConnection
    BY <1>4, EmptySeq DEF Restart
  <2>2. QED
    BY <2>1, New
<1>5. CASE UNCHANGED vars
  BY <1>5 DEF vars, IInv, TypeOK, Arrivals, NothingLeaks
<1>6. QED
  BY <1>1, <1>2, <1>3, <1>4, <1>5 DEF Next

LEMMA Always == Spec => []IInv
<1>1. QED
  BY FirstState, Inductive, PTL DEF Spec

-----------------------------------------------------------------------------
(******************************** Theorems *********************************)

\* The parser gives back what it allocated, whatever it is sent and wherever the lines are
\* cut: config_parse_args_free frees as many words as config_parse_args copied, although
\* config_parse has counted the command out of argc.
THEOREM NothingEverLeaks == Spec => []NothingLeaks
<1>1. IInv => NothingLeaks
  BY DEF IInv
<1>2. QED
  BY <1>1, Always, PTL

\* However the lines are cut or run together, what serverRecvCb and config_parse run is text
\* of one of them, in their order: the beginning of the line, once, or, where the cut was
\* before an AT inside a word, what follows from that AT on.
THEOREM AlwaysOwnLine == Spec => []RunsOwnLine
<1>1. IInv => RunsOwnLine
  <2> SUFFICES ASSUME IInv PROVE RunsOwnLine
    OBVIOUS
  <2>1. DOMAIN ran = 1 .. Len(ran)
    BY LenProperties DEF IInv, TypeOK
  <2>2. \A i \in DOMAIN ran :
           /\ \A j \in 1 .. i - 1 : \/ ran[j].line < ran[i].line
                                    \/ ran[i].inside /\ ran[j].line = ran[i].line
           /\ OfLine(ran[i], sent[ran[i].line])
    BY <2>1 DEF IInv, Owned
  <2>3. QED
    BY <2>2 DEF RunsOwnLine, OfLine
<1>2. QED
  BY <1>1, Always, PTL

\* As long as TCP hands the lines over one by one, each of them runs, with all its arguments
\* up to the 64th, and a command that is spelled out is the one that runs, although the table
\* is searched for the first name that the word is a beginning of.
THEOREM AlwaysWholeLines == Spec => []WholeLinesRun
<1>1. IInv => WholeLinesRun
  <2> SUFFICES ASSUME IInv, whole PROVE WholeLinesRun
    BY DEF WholeLinesRun
  <2>1. DOMAIN ran = 1 .. Len(ran)
    BY LenProperties DEF IInv, TypeOK
  <2>2. /\ arrived = 1..taken /\ taken \in Nat /\ up \in BOOLEAN
        /\ Complete(ran, sent, IF up THEN taken ELSE taken - 1)
        /\ Owned(ran, sent, taken)
    BY DEF IInv, TypeOK, Arrivals
  <2>3. {ran[i].line : i \in DOMAIN ran} = (IF up THEN arrived ELSE arrived \ {taken})
    <3>1. {ran[i].line : i \in DOMAIN ran} = IF up THEN 1..taken ELSE 1 .. taken - 1
      BY <2>1, <2>2 DEF Complete
    <3>2. 1 .. taken - 1 = (1..taken) \ {taken}
      BY <2>2
    <3>3. QED
      BY <2>2, <3>1, <3>2
  <2>4. \A i \in DOMAIN ran : Exactly(ran[i], sent[ran[i].line])
    BY <2>1, <2>2 DEF Complete
  <2>5. \A i \in DOMAIN ran : \A j \in 1 .. i - 1 : ran[j].line < ran[i].line
    <3>1. \A i \in DOMAIN ran : ~ran[i].inside
      BY <2>4 DEF Exactly
    <3>2. QED
      BY <2>1, <2>2, <3>1 DEF Owned
  <2>6. QED
    BY <2>3, <2>4, <2>5 DEF WholeLinesRun, Exactly
<1>2. QED
  BY <1>1, Always, PTL
=============================================================================
