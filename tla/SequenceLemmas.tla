--------------------------- MODULE SequenceLemmas ---------------------------
(***************************************************************************)
(* Facts about numbers and sequences that the proofs of several modules    *)
(* rest on.  Inductions go by the least counterexample.                    *)
(***************************************************************************)
EXTENDS Integers, SequencesExt, SequenceTheorems, WellFoundedInduction, TLAPS

\* A set of natural numbers has a smallest element.
LEMMA Smallest ==
  ASSUME NEW T, T \subseteq Nat, T # {}
  PROVE  \E x \in T : \A y \in T : x <= y
<1> DEFINE R == {ss \in Nat \X Nat : ss[1] < ss[2]}
<1>1. IsWellFoundedOn(R, Nat)
  BY NatLessThanWellFounded DEF OpToRel
<1> HIDE DEF R
<1>2. PICK x \in T : \A y \in T : ~(<<y, x>> \in R)
  BY <1>1, WFMin
<1>3. \A y \in T : ~(y < x)
  BY <1>2 DEF R
<1> QED
  BY <1>3

-----------------------------------------------------------------------------
\* ConcatAssociative of the library.
LEMMA Associative ==
  ASSUME NEW S, NEW a \in Seq(S), NEW b \in Seq(S), NEW c \in Seq(S)
  PROVE  (a \o b) \o c = a \o (b \o c)
BY ConcatAssociative

\* A part of a sequence, within its bounds.
LEMMA PartOf ==
  ASSUME NEW S, NEW s \in Seq(S), NEW m \in Nat, NEW n \in Nat, m >= 1, m <= n + 1, n <= Len(s)
  PROVE  /\ SubSeq(s, m, n) \in Seq(S)
         /\ Len(SubSeq(s, m, n)) = n - m + 1
         /\ \A i \in 1 .. n - m + 1 : SubSeq(s, m, n)[i] = s[m + i - 1]
<1>1. m \in Int /\ n \in Int
  OBVIOUS
<1>2. \A i \in m .. n : s[i] \in S
  <2> TAKE i \in m .. n
  <2>1. i \in 1 .. Len(s)
    OBVIOUS
  <2> QED
    BY <2>1, ElementOfSeq
<1>3. /\ SubSeq(s, m, n) \in Seq(S)
      /\ Len(SubSeq(s, m, n)) = IF m <= n THEN n - m + 1 ELSE 0
      /\ \A i \in 1 .. n - m + 1 : SubSeq(s, m, n)[i] = s[m + i - 1]
  BY <1>1, <1>2, SubSeqProperties
<1>4. (IF m <= n THEN n - m + 1 ELSE 0) = n - m + 1
  OBVIOUS
<1> QED
  BY <1>3, <1>4

\* The first e of a sequence.
LEMMA FirstOf ==
  ASSUME NEW S, NEW s \in Seq(S), NEW e \in 0 .. Len(s)
  PROVE  /\ SubSeq(s, 1, e) \in Seq(S) /\ Len(SubSeq(s, 1, e)) = e
         /\ \A i \in 1 .. e : SubSeq(s, 1, e)[i] = s[i]
<1>1. e - 1 + 1 = e /\ \A i \in 1 .. e : 1 + i - 1 = i
  OBVIOUS
<1>2. /\ SubSeq(s, 1, e) \in Seq(S) /\ Len(SubSeq(s, 1, e)) = e - 1 + 1
      /\ \A i \in 1 .. e - 1 + 1 : SubSeq(s, 1, e)[i] = s[1 + i - 1]
  BY PartOf
<1> QED
  BY <1>1, <1>2

\* And the others.
LEMMA LastOf ==
  ASSUME NEW S, NEW s \in Seq(S), NEW n \in Nat, n = Len(s), NEW e \in 0 .. n
  PROVE  /\ SubSeq(s, e + 1, n) \in Seq(S) /\ Len(SubSeq(s, e + 1, n)) = n - e
         /\ \A i \in 1 .. n - e : SubSeq(s, e + 1, n)[i] = s[e + i]
<1>1. n - (e + 1) + 1 = n - e /\ \A i \in 1 .. n - e : e + 1 + i - 1 = e + i
  OBVIOUS
<1>2. /\ SubSeq(s, e + 1, n) \in Seq(S) /\ Len(SubSeq(s, e + 1, n)) = n - (e + 1) + 1
      /\ \A i \in 1 .. n - (e + 1) + 1 : SubSeq(s, e + 1, n)[i] = s[e + 1 + i - 1]
  BY PartOf
<1> QED
  BY <1>1, <1>2

\* What a prefix lacks, and a sequence that lacks something.
LEMMA PrefixHasRest ==
  ASSUME NEW S, NEW s \in Seq(S), NEW t \in Seq(S), IsPrefix(s, t)
  PROVE  \E z \in Seq(S) : s \o z = t
<1>1. PICK m \in Nat : m = Len(s)
  OBVIOUS
<1>2. PICK n \in Nat : n = Len(t)
  OBVIOUS
<1>3. m \in 0 .. n /\ SubSeq(s, 1, m) = SubSeq(t, 1, m)
  BY <1>1, <1>2 DEF IsPrefix
<1>4. \A i \in 1 .. m : s[i] = t[i]
  <2>1. \A i \in 1 .. m : SubSeq(s, 1, m)[i] = s[i]
    BY <1>1, FirstOf
  <2>2. \A i \in 1 .. m : SubSeq(t, 1, m)[i] = t[i]
    BY <1>2, <1>3, FirstOf
  <2> QED
    BY <1>3, <2>1, <2>2
<1> DEFINE z == SubSeq(t, m + 1, n)
<1>5. PICK k \in Nat : k = n - m
  <2>1. n - m \in Nat
    BY <1>3
  <2> QED
    BY <2>1
<1>6. z \in Seq(S) /\ Len(z) = k /\ \A i \in 1 .. k : z[i] = t[m + i]
  BY <1>2, <1>3, <1>5, LastOf
<1> HIDE DEF z
<1>7. /\ s \o z \in Seq(S) /\ Len(s \o z) = m + k
      /\ \A i \in 1 .. m + k : (s \o z)[i] = IF i <= m THEN s[i] ELSE z[i - m]
  BY <1>1, <1>6, ConcatProperties
<1>8. m + k = n
  BY <1>3, <1>5
<1>9. \A i \in 1 .. n : (s \o z)[i] = t[i]
  <2> TAKE i \in 1 .. n
  <2>1. CASE i <= m
    <3>1. i \in 1 .. m
      BY <2>1
    <3> QED
      BY <1>4, <1>7, <1>8, <2>1, <3>1
  <2>2. CASE ~(i <= m)
    <3>1. PICK j \in 1 .. k : j = i - m /\ m + j = i
      BY <1>8, <2>2
    <3> QED
      BY <1>6, <1>7, <1>8, <2>2, <3>1
  <2> QED
    BY <2>1, <2>2
<1>10. s \o z = t
  BY <1>2, <1>7, <1>8, <1>9, SeqEqual
<1> QED
  BY <1>6, <1>10

\* A sequence is a prefix of itself and more.
LEMMA PrefixOfConcat ==
  ASSUME NEW S, NEW s \in Seq(S), NEW z \in Seq(S)
  PROVE  IsPrefix(s, s \o z)
<1>1. PICK m \in Nat : m = Len(s)
  OBVIOUS
<1>2. PICK n \in Nat : n = Len(z)
  OBVIOUS
<1> DEFINE t == s \o z
<1>3. t \in Seq(S) /\ Len(t) = m + n /\ \A i \in 1 .. m : t[i] = s[i]
  BY <1>1, <1>2, ConcatProperties
<1> HIDE DEF t
<1>4. SubSeq(s, 1, m) = SubSeq(t, 1, m)
  <2> DEFINE p == SubSeq(s, 1, m)
             q == SubSeq(t, 1, m)
  <2>1. p \in Seq(S) /\ Len(p) = m /\ \A i \in 1 .. m : p[i] = s[i]
    BY <1>1, FirstOf
  <2>2. q \in Seq(S) /\ Len(q) = m /\ \A i \in 1 .. m : q[i] = t[i]
    BY <1>3, FirstOf
  <2> HIDE DEF p, q
  <2>3. p = q
    BY <1>3, <2>1, <2>2, SeqEqual
  <2> QED
    BY <2>3 DEF p, q
<1> QED
  BY <1>1, <1>2, <1>3, <1>4 DEF IsPrefix, t

\* A cut in the first of two sequences.
LEMMA CutConcat ==
  ASSUME NEW S, NEW a \in Seq(S), NEW b \in Seq(S), NEW n \in Nat, n = Len(a), NEW e \in 0 .. n
  PROVE  /\ SubSeq(a \o b, 1, e) = SubSeq(a, 1, e)
         /\ SubSeq(a \o b, e + 1, Len(a \o b)) = SubSeq(a, e + 1, n) \o b
<1>1. PICK x \in Nat : x = Len(b)
  OBVIOUS
<1> DEFINE t == a \o b
<1>2. PICK N \in Nat : N = n + x
  OBVIOUS
<1>3. t \in Seq(S) /\ Len(t) = N /\ \A i \in 1 .. N : t[i] = IF i <= n THEN a[i] ELSE b[i - n]
  BY <1>1, <1>2, ConcatProperties
<1> HIDE DEF t
<1>4. SubSeq(t, 1, e) = SubSeq(a, 1, e)
  <2> DEFINE p == SubSeq(t, 1, e)
             q == SubSeq(a, 1, e)
  <2>1. e \in 0 .. Len(t) /\ e \in 0 .. Len(a)
    BY <1>2, <1>3
  <2>2. p \in Seq(S) /\ Len(p) = e /\ \A i \in 1 .. e : p[i] = t[i]
    BY <1>3, <2>1, FirstOf
  <2>3. q \in Seq(S) /\ Len(q) = e /\ \A i \in 1 .. e : q[i] = a[i]
    BY <2>1, FirstOf
  <2> HIDE DEF p, q
  <2>4. \A i \in 1 .. e : p[i] = q[i]
    BY <1>2, <1>3, <2>2, <2>3
  <2>5. p = q
    BY <2>2, <2>3, <2>4, SeqEqual
  <2> QED
    BY <2>5 DEF p, q
<1>5. SubSeq(t, e + 1, N) = SubSeq(a, e + 1, n) \o b
  <2> DEFINE p == SubSeq(t, e + 1, N)
             q == SubSeq(a, e + 1, n)
  <2>0. n - e \in Nat /\ N - e = (n - e) + x /\ e \in 0 .. N
    BY <1>2
  <2>1. PICK u \in Nat : u = n - e
    BY <2>0
  <2>2. PICK M \in Nat : M = u + x /\ M = N - e
    BY <2>0, <2>1
  <2>3. p \in Seq(S) /\ Len(p) = M /\ \A i \in 1 .. M : p[i] = t[e + i]
    <3>1. /\ SubSeq(t, e + 1, N) \in Seq(S) /\ Len(SubSeq(t, e + 1, N)) = N - e
          /\ \A i \in 1 .. N - e : SubSeq(t, e + 1, N)[i] = t[e + i]
      <4>1. N = Len(t) /\ t \in Seq(S)
        BY <1>3
      <4> QED
        BY ONLY N \in Nat, <2>0, <4>1, LastOf
    <3> QED
      BY <2>2, <3>1
  <2>4. q \in Seq(S) /\ Len(q) = u /\ \A i \in 1 .. u : q[i] = a[e + i]
    BY <2>1, LastOf
  <2> HIDE DEF p, q
  <2>5. /\ q \o b \in Seq(S) /\ Len(q \o b) = M
        /\ \A i \in 1 .. M : (q \o b)[i] = IF i <= u THEN q[i] ELSE b[i - u]
    BY <1>1, <2>2, <2>4, ConcatProperties
  <2>6. \A i \in 1 .. M : p[i] = (q \o b)[i]
    <3> TAKE i \in 1 .. M
    <3>1. PICK j \in 1 .. N : j = e + i /\ (j <= n <=> i <= u) /\ j - n = i - u
      BY <1>2, <2>1, <2>2
    <3>2. p[i] = IF j <= n THEN a[j] ELSE b[j - n]
      BY <1>3, <2>3, <3>1
    <3>3. CASE i <= u
      <4>1. i \in 1 .. u /\ j <= n
        BY <3>1, <3>3
      <4>2. q[i] = a[j]
        BY <2>4, <3>1, <4>1
      <4> QED
        BY <2>5, <3>2, <3>3, <4>1, <4>2
    <3>4. CASE ~(i <= u)
      BY <2>5, <3>1, <3>2, <3>4
    <3> QED
      BY <3>3, <3>4
  <2>7. p = q \o b
    BY <2>3, <2>5, <2>6, SeqEqual
  <2> QED
    BY <2>7 DEF p, q
<1> QED
  BY <1>3, <1>4, <1>5 DEF t

\* The same, in names that the provers take for what they are.
First(s, e) == SubSeq(s, 1, e)
Others(s, e) == SubSeq(s, e + 1, Len(s))
Joined(a, b) == a \o b

\* CutConcat, with its operators named so that it can be cited for any of them.
LEMMA CutJoined ==
  ASSUME NEW S, NEW a \in Seq(S), NEW b \in Seq(S), NEW e \in 0 .. Len(a)
  PROVE  /\ First(Joined(a, b), e) = First(a, e)
         /\ Others(Joined(a, b), e) = Joined(Others(a, e), b)
<1>1. PICK n \in Nat : n = Len(a) /\ e \in 0 .. n
  OBVIOUS
<1> QED
  BY <1>1, CutConcat DEF First, Others, Joined

-----------------------------------------------------------------------------
(***************************************************************************)
(* FlattenSeq of the community modules.                                    *)
(***************************************************************************)

\* f[i] is the first i sequences of s, one behind the other.
Flattens(f, s) ==
  f = [i \in 1 .. Len(s) |-> IF i = 1 THEN s[i] ELSE f[i-1] \o s[i]]

\* There is such a function, so that the recursive definition has a value.
LEMMA FlattensExists ==
  ASSUME NEW S, NEW s \in Seq(S)
  PROVE  \E f : Flattens(f, s)
<1>1. PICK N \in Nat : N = Len(s)
  OBVIOUS
<1> DEFINE Up(n, g) == g = [i \in 1 .. n |-> IF i = 1 THEN s[i] ELSE g[i-1] \o s[i]]
           Has(n) == \E g : Up(n, g)
           T == {n \in 0 .. N : ~Has(n)}
<1> HIDE DEF Has
<1>2. T = {}
  <2> SUFFICES ASSUME T # {} PROVE FALSE
    OBVIOUS
  <2>1. PICK n \in T : \A m \in T : n <= m
    <3>1. T \subseteq Nat
      OBVIOUS
    <3> HIDE DEF T
    <3> QED
      BY <3>1, Smallest
  <2>0. n \in 0 .. N /\ ~Has(n)
    OBVIOUS
  <2>2. n # 0
    <3>1. Up(0, [i \in 1 .. 0 |-> s[i]])
      OBVIOUS
    <3> QED
      BY <2>0, <3>1 DEF Has
  <2>3. PICK k \in 0 .. N : k = n - 1 /\ n = k + 1
    BY <2>0, <2>2
  <2>4. PICK g : Up(k, g)
    <3>1. Has(k)
      BY <2>1, <2>3
    <3> QED
      BY <3>1 DEF Has
  <2> DEFINE h == [i \in 1 .. n |-> IF i = n THEN IF n = 1 THEN s[n] ELSE g[k] \o s[n] ELSE g[i]]
  <2>5. \A i \in 1 .. n : h[i] = IF i = 1 THEN s[i] ELSE h[i-1] \o s[i]
    <3> TAKE i \in 1 .. n
    <3>1. CASE i = n
      BY <2>3, <3>1
    <3>2. CASE i # n
      <4>1. i \in 1 .. k /\ h[i] = g[i] /\ (i # 1 => i - 1 \in 1 .. k /\ i - 1 # n)
        BY <2>3, <3>2
      <4>2. g[i] = IF i = 1 THEN s[i] ELSE g[i-1] \o s[i]
        BY <2>4, <4>1
      <4>3. i # 1 => h[i-1] = g[i-1]
        BY <2>3, <4>1
      <4> QED
        BY <4>1, <4>2, <4>3
    <3> QED
      BY <3>1, <3>2
  <2>6. h = [i \in 1 .. n |-> h[i]]
    OBVIOUS
  <2> HIDE DEF h
  <2>7. Up(n, h)
    BY <2>5, <2>6
  <2> QED
    BY <2>0, <2>7 DEF Has
<1>3. Has(N)
  BY <1>2
<1> QED
  BY <1>1, <1>3 DEF Flattens, Has

\* FlattenSeq is the last value of one.
LEMMA FlattenSeqIs ==
  ASSUME NEW S, NEW s \in Seq(S)
  PROVE  \E f : Flattens(f, s) /\ FlattenSeq(s) = IF Len(s) = 0 THEN s ELSE f[Len(s)]
<1> DEFINE flatten[i \in 1 .. Len(s)] == IF i = 1 THEN s[i] ELSE flatten[i-1] \o s[i]
<1>1. FlattenSeq(s) = IF Len(s) = 0 THEN s ELSE flatten[Len(s)]
  BY Zenon DEF FlattenSeq
<1>2. flatten = CHOOSE f : Flattens(f, s)
  BY DEF Flattens
<1> HIDE DEF flatten
<1>3. Flattens(flatten, s)
  BY <1>2, FlattensExists
<1> QED
  BY <1>1, <1>3

\* Their values are sequences.
LEMMA FlattensType ==
  ASSUME NEW S, NEW s \in Seq(Seq(S)), NEW f, Flattens(f, s)
  PROVE  \A i \in 1 .. Len(s) : f[i] \in Seq(S)
<1>1. PICK N \in Nat : N = Len(s)
  OBVIOUS
<1> DEFINE T == {i \in 1 .. N : f[i] \notin Seq(S)}
<1> SUFFICES ASSUME T # {} PROVE FALSE
  BY <1>1
<1>2. PICK n \in T : \A k \in T : n <= k
  <2>1. T \subseteq Nat
    OBVIOUS
  <2> HIDE DEF T
  <2> QED
    BY <2>1, Smallest
<1>3. n \in 1 .. N /\ s[n] \in Seq(S)
  BY <1>1
<1>4. f[n] = IF n = 1 THEN s[n] ELSE f[n-1] \o s[n]
  BY <1>1, <1>3 DEF Flattens
<1>5. n # 1 => f[n-1] \in Seq(S)
  <2> SUFFICES ASSUME n # 1 PROVE f[n-1] \in Seq(S)
    OBVIOUS
  <2>1. n - 1 \in 1 .. N /\ n - 1 \notin T
    BY <1>2, <1>3
  <2> QED
    BY <2>1
<1> QED
  BY <1>3, <1>4, <1>5, ConcatProperties

\* Of no sequence.
LEMMA FlattenEmpty == FlattenSeq(<<>>) = <<>>
  BY Zenon, EmptySeq DEF FlattenSeq

\* FlattenSeq of sequences over S is one.
LEMMA FlattenType ==
  ASSUME NEW S, NEW s \in Seq(Seq(S))
  PROVE  FlattenSeq(s) \in Seq(S)
<1>1. PICK f : Flattens(f, s) /\ FlattenSeq(s) = IF Len(s) = 0 THEN s ELSE f[Len(s)]
  BY FlattenSeqIs
<1>2. CASE Len(s) = 0
  <2>1. s = <<>>
    BY <1>2, EmptySeq
  <2> QED
    BY <1>1, <1>2, <2>1
<1>3. CASE Len(s) # 0
  BY <1>1, <1>3, FlattensType
<1> QED
  BY <1>2, <1>3

\* One more sequence at the end.
LEMMA FlattenAppend ==
  ASSUME NEW S, NEW s \in Seq(Seq(S)), NEW x \in Seq(S)
  PROVE  FlattenSeq(Append(s, x)) = FlattenSeq(s) \o x
<1> DEFINE t == Append(s, x)
<1>1. PICK n \in Nat : n = Len(s)
  OBVIOUS
<1>2. t \in Seq(Seq(S)) /\ Len(t) = n + 1 /\ t[n + 1] = x /\ \A i \in 1 .. n : t[i] = s[i]
  BY <1>1, AppendProperties
<1> HIDE DEF t
<1>3. PICK f : Flattens(f, s) /\ FlattenSeq(s) = IF Len(s) = 0 THEN s ELSE f[Len(s)]
  BY FlattenSeqIs
<1>4. PICK g : Flattens(g, t) /\ FlattenSeq(t) = IF Len(t) = 0 THEN t ELSE g[Len(t)]
  BY <1>2, FlattenSeqIs
<1>5. FlattenSeq(t) = g[n + 1] /\ g[n + 1] = IF n = 0 THEN x ELSE g[n] \o x
  <2>1. PICK p \in Nat \ {0} : p = n + 1 /\ p - 1 = n /\ (p = 1 <=> n = 0)
    OBVIOUS
  <2>2. Len(t) = p /\ t[p] = x /\ p \in 1 .. Len(t)
    BY <1>2, <2>1
  <2>3. g[p] = IF p = 1 THEN t[p] ELSE g[p-1] \o t[p]
    BY <1>4, <2>2 DEF Flattens
  <2> QED
    BY <1>4, <2>1, <2>2, <2>3
<1>6. CASE n = 0
  <2>1. s = <<>>
    BY <1>1, <1>6, EmptySeq
  <2>2. <<>> \o x = x
    BY ConcatEmptySeq
  <2> QED
    BY <1>5, <1>6, <2>1, <2>2, FlattenEmpty DEF t
<1>7. CASE n # 0
  <2>1. f[n] = g[n]
    <3> DEFINE Same(i) == f[i] = g[i]
               T == {i \in 1 .. n : ~Same(i)}
    <3> HIDE DEF Same
    <3>0. /\ \A i \in 1 .. n : f[i] = IF i = 1 THEN s[i] ELSE f[i-1] \o s[i]
          /\ \A i \in 1 .. n : g[i] = IF i = 1 THEN t[i] ELSE g[i-1] \o t[i]
      <4>1. \A i \in 1 .. n : f[i] = IF i = 1 THEN s[i] ELSE f[i-1] \o s[i]
        BY <1>1, <1>3 DEF Flattens
      <4>2. \A i \in 1 .. n + 1 : g[i] = IF i = 1 THEN t[i] ELSE g[i-1] \o t[i]
        BY <1>2, <1>4 DEF Flattens
      <4>3. \A i \in 1 .. n : i \in 1 .. n + 1
        OBVIOUS
      <4> QED
        BY ONLY <4>1, <4>2, <4>3
    <3>1. T = {}
      <4> SUFFICES ASSUME T # {} PROVE FALSE
        OBVIOUS
      <4>1. PICK k \in T : \A j \in T : k <= j
        <5>1. T \subseteq Nat
          OBVIOUS
        <5> HIDE DEF T
        <5> QED
          BY <5>1, Smallest
      <4>2. k \in 1 .. n /\ ~Same(k)
        OBVIOUS
      <4>3. k # 1 => f[k-1] = g[k-1]
        <5> SUFFICES ASSUME k # 1 PROVE f[k-1] = g[k-1]
          OBVIOUS
        <5>1. PICK j \in 1 .. n : j = k - 1 /\ ~(k <= j)
          BY <4>2
        <5>2. Same(j)
          BY <4>1, <5>1
        <5> QED
          BY <5>1, <5>2 DEF Same
      <4>4. f[k] = g[k]
        BY <1>2, <3>0, <4>2, <4>3
      <4> QED
        BY <4>2, <4>4 DEF Same
    <3> QED
      BY <1>7, <3>1 DEF Same
  <2> QED
    BY <1>1, <1>3, <1>5, <1>7, <2>1 DEF t
<1> QED
  BY <1>6, <1>7

\* The first sequence and the others.
LEMMA FlattenHeadTail ==
  ASSUME NEW S, NEW s \in Seq(Seq(S)), s # <<>>
  PROVE  FlattenSeq(s) = Head(s) \o FlattenSeq(Tail(s))
<1> DEFINE t == Tail(s)
<1>1. PICK n \in Nat : Len(s) = n + 1 /\ Len(t) = n
  <2>1. Len(s) \in Nat \ {0} /\ Len(t) = Len(s) - 1
    BY EmptySeq, HeadTailProperties
  <2>2. Len(s) - 1 \in Nat /\ Len(s) = (Len(s) - 1) + 1
    BY <2>1
  <2> QED
    BY <2>1, <2>2
<1>2. t \in Seq(Seq(S)) /\ \A i \in 1 .. n : t[i] = s[i + 1]
  BY <1>1, HeadTailProperties
<1>3. Head(s) = s[1] /\ s[1] \in Seq(S)
  BY <1>1
<1> HIDE DEF t
<1>4. PICK f : Flattens(f, s) /\ FlattenSeq(s) = IF Len(s) = 0 THEN s ELSE f[Len(s)]
  BY FlattenSeqIs
<1>5. PICK g : Flattens(g, t) /\ FlattenSeq(t) = IF Len(t) = 0 THEN t ELSE g[Len(t)]
  BY <1>2, FlattenSeqIs
<1>6. \A i \in 1 .. n + 1 : f[i] = IF i = 1 THEN s[i] ELSE f[i-1] \o s[i]
  BY <1>1, <1>4 DEF Flattens
<1>7. \A i \in 1 .. n : g[i] = IF i = 1 THEN t[i] ELSE g[i-1] \o t[i]
  BY <1>1, <1>5 DEF Flattens
<1>8. \A i \in 1 .. n : g[i] \in Seq(S) /\ t[i] \in Seq(S)
  BY <1>1, <1>2, <1>5, FlattensType
<1>9. FlattenSeq(s) = f[n + 1]
  BY <1>1, <1>4
<1>10. CASE n = 0
  <2>1. t = <<>> /\ s[1] \o <<>> = s[1]
    BY <1>1, <1>2, <1>3, <1>10, ConcatEmptySeq
  <2>2. f[n + 1] = s[1]
    BY <1>6, <1>10
  <2> QED
    BY <1>3, <1>9, <2>1, <2>2, FlattenEmpty DEF t
<1>11. CASE n # 0
  <2> DEFINE Same(i) == f[i + 1] = s[1] \o g[i]
             T == {i \in 1 .. n : ~Same(i)}
  <2> HIDE DEF Same
  <2>1. T = {}
    <3> SUFFICES ASSUME T # {} PROVE FALSE
      OBVIOUS
    <3>1. PICK k \in T : \A j \in T : k <= j
      <4>1. T \subseteq Nat
        OBVIOUS
      <4> HIDE DEF T
      <4> QED
        BY <4>1, Smallest
    <3>0. k \in 1 .. n /\ ~Same(k)
      OBVIOUS
    <3>2. k \in 1 .. n /\ f[k + 1] # s[1] \o g[k]
      BY <3>0 DEF Same
    <3>3. f[k + 1] = f[k] \o t[k]
      <4>1. PICK p \in 1 .. n + 1 : p = k + 1 /\ p # 1 /\ p - 1 = k
        BY <3>2
      <4>2. f[p] = f[p-1] \o s[p] /\ s[p] = t[k]
        BY <1>2, <1>6, <3>2, <4>1
      <4> QED
        BY <4>1, <4>2
    <3>4. CASE k = 1
      <4>1. 1 \in 1 .. n + 1 /\ 1 \in 1 .. n
        BY <3>2, <3>4
      <4>2. f[1] = s[1] /\ g[1] = t[1]
        BY <1>6, <1>7, <4>1
      <4> QED
        BY <3>2, <3>3, <3>4, <4>2
    <3>5. CASE k # 1
      <4>1. PICK j \in 1 .. n : j = k - 1 /\ k = j + 1
        BY <3>2, <3>5
      <4>2. Same(j)
        BY <3>1, <4>1
      <4>3. f[k] = s[1] \o g[j]
        BY <4>1, <4>2 DEF Same
      <4>4. g[k] = g[j] \o t[k]
        BY <1>7, <3>2, <3>5, <4>1
      <4>5. g[j] \in Seq(S) /\ t[k] \in Seq(S)
        BY <1>8, <3>2, <4>1
      <4>6. (s[1] \o g[j]) \o t[k] = s[1] \o (g[j] \o t[k])
        <5>1. PICK a \in Seq(S) : a = s[1]
          BY <1>3
        <5>2. PICK b \in Seq(S) : b = g[j]
          BY <4>5
        <5>3. PICK c \in Seq(S) : c = t[k]
          BY <4>5
        <5>4. (a \o b) \o c = a \o (b \o c)
          BY ONLY a \in Seq(S), b \in Seq(S), c \in Seq(S), Associative
        <5> QED
          BY <5>1, <5>2, <5>3, <5>4
      <4> QED
        BY <3>2, <3>3, <4>3, <4>4, <4>6
    <3> QED
      BY <3>4, <3>5
  <2>2. f[n + 1] = s[1] \o g[n]
    <3>1. Same(n)
      BY <1>11, <2>1
    <3> QED
      BY <3>1 DEF Same
  <2>3. FlattenSeq(t) = g[n]
    BY <1>1, <1>5, <1>11
  <2> QED
    BY <1>3, <1>9, <2>2, <2>3 DEF t
<1> QED
  BY <1>10, <1>11
=============================================================================
