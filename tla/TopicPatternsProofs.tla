------------------------ MODULE TopicPatternsProofs ------------------------
(***************************************************************************)
(* The matcher answers whether a pattern covers a topic, for all patterns  *)
(* and topics.                                                             *)
(***************************************************************************)
EXTENDS MCTopicPatterns, Integers, SequenceTheorems, WellFoundedInduction, TLAPS

\* A set of numbers that is not empty has a least one.  Every induction below
\* looks at the least counterexample.
LEMMA LeastNumber ==
  ASSUME NEW T, T \subseteq Nat, T # {}
  PROVE  \E n \in T : \A m \in T : n <= m
<1> DEFINE R == {ss \in Nat \X Nat : ss[1] < ss[2]}
<1>1. IsWellFoundedOn(R, Nat)
  BY NatLessThanWellFounded DEF OpToRel
<1> HIDE DEF R
<1>2. PICK n \in T : \A m \in T : ~(<<m, n>> \in R)
  BY <1>1, WFMin
<1>3. \A m \in T : ~(m < n)
  BY <1>2 DEF R
<1> QED
  BY <1>3

-----------------------------------------------------------------------------
(***************************************************************************)
(* Levels.                                                                 *)
(***************************************************************************)

\* What is behind the first piece is a string, and shorter, if there is more
\* than an empty piece.
LEMMA RestIsString ==
  ASSUME NEW s \in String
  PROVE  /\ Len(s) \in Nat \ {0} /\ DOMAIN s = 1 .. Len(s) /\ s \in Seq(Piece)
         /\ RestPart(s) \in String
         /\ Len(s) = 1 => RestPart(s) = EmptyString
         /\ Len(s) > 1 => /\ Len(RestPart(s)) = Len(s) - 1
                          /\ \A i \in 1 .. Len(s) - 1 : RestPart(s)[i] = s[i + 1]
<1>1. s \in Seq(Piece) /\ s # <<>>
  BY DEF String
<1>2. EmptyString \in String
  <2>1. EmptyPiece \in Piece
    BY PieceAssumption
  <2>2. <<EmptyPiece>> \in Seq(Piece) /\ <<EmptyPiece>> # <<>>
    BY <2>1
  <2> QED
    BY <2>2 DEF EmptyString, String
<1>3. Len(s) \in Nat \ {0} /\ DOMAIN s = 1 .. Len(s)
  BY <1>1, EmptySeq
<1>4. CASE Len(s) = 1
  BY <1>1, <1>2, <1>3, <1>4 DEF RestPart
<1>5. CASE Len(s) > 1
  <2>1. /\ Tail(s) \in Seq(Piece) /\ Len(Tail(s)) = Len(s) - 1
        /\ \A i \in 1 .. Len(s) - 1 : Tail(s)[i] = s[i + 1]
    BY <1>1, HeadTailProperties
  <2>2. Tail(s) # <<>>
    <3>1. Len(Tail(s)) # 0
      BY <1>5, <1>3, <2>1
    <3> QED
      BY <3>1, EmptySeq
  <2>3. RestPart(s) = Tail(s)
    BY <1>3, <1>5 DEF RestPart
  <2>4. RestPart(s) \in String
    BY <2>1, <2>2, <2>3 DEF String
  <2>5. Len(s) # 1
    BY <1>3, <1>5
  <2> QED
    BY <1>1, <1>3, <2>1, <2>3, <2>4, <2>5
<1>6. Len(s) = 1 \/ Len(s) > 1
  BY <1>3
<1> QED
  BY <1>4, <1>5, <1>6

\* The levels, counted: the last piece is none if it is empty.
NumLevels(s) == IF s[Len(s)] = EmptyPiece THEN Len(s) - 1 ELSE Len(s)

\* They are the first pieces.
LEMMA LevelsArePieces ==
  ASSUME NEW s \in String
  PROVE  /\ Levels(s) \in Seq(Piece)
         /\ NumLevels(s) \in 0 .. Len(s)
         /\ Len(Levels(s)) = NumLevels(s)
         /\ DOMAIN Levels(s) = 1 .. NumLevels(s)
         /\ \A i \in 1 .. NumLevels(s) : Levels(s)[i] = s[i]
         /\ NumLevels(s) = 0 <=> s = EmptyString
         /\ Levels(s) = <<>> <=> s = EmptyString
<1>1. s \in Seq(Piece) /\ s # <<>> /\ Len(s) \in Nat \ {0} /\ DOMAIN s = 1 .. Len(s)
  BY DEF String
<1>2. PICK n \in Nat \ {0} : n = Len(s)
  BY <1>1
<1>3. /\ Levels(s) \in Seq(Piece) /\ Len(Levels(s)) = NumLevels(s)
      /\ \A i \in 1 .. NumLevels(s) : Levels(s)[i] = s[i]
  <2>1. CASE s[n] = EmptyPiece
    <3>1. \A i \in 1 .. n - 1 : s[i] \in Piece
      BY <1>1, <1>2
    <3>2. /\ SubSeq(s, 1, n - 1) \in Seq(Piece)
          /\ Len(SubSeq(s, 1, n - 1)) = n - 1
          /\ \A i \in 1 .. n - 1 : SubSeq(s, 1, n - 1)[i] = s[i]
      BY <3>1, SubSeqProperties
    <3> QED
      BY <1>2, <2>1, <3>2 DEF Levels, NumLevels
  <2>2. CASE s[n] # EmptyPiece
    BY <1>1, <1>2, <2>2 DEF Levels, NumLevels
  <2> QED
    BY <2>1, <2>2
<1>4. NumLevels(s) \in 0 .. Len(s)
  BY <1>2 DEF NumLevels
<1>5. NumLevels(s) = 0 <=> s = EmptyString
  <2>1. ASSUME NumLevels(s) = 0 PROVE s = EmptyString
    <3>1. n = 1 /\ s[1] = EmptyPiece
      BY <1>2, <2>1 DEF NumLevels
    <3> QED
      BY <1>1, <1>2, <3>1 DEF EmptyString
  <2>2. ASSUME s = EmptyString PROVE NumLevels(s) = 0
    BY <2>2 DEF EmptyString, NumLevels
  <2> QED
    BY <2>1, <2>2
<1>6. DOMAIN Levels(s) = 1 .. NumLevels(s) /\ (Levels(s) = <<>> <=> NumLevels(s) = 0)
  BY <1>3
<1> QED
  BY <1>3, <1>4, <1>5, <1>6

\* The rest of a string has the other levels.
LEMMA LevelsOfRest ==
  ASSUME NEW s \in String, s # EmptyString
  PROVE  /\ NumLevels(RestPart(s)) = NumLevels(s) - 1
         /\ \A i \in 1 .. NumLevels(s) - 1 : Levels(RestPart(s))[i] = Levels(s)[i + 1]
         /\ Levels(s)[1] = FirstPart(s)
<1>1. PICK n \in Nat \ {0} : n = Len(s)
  BY RestIsString
<1>2. s \in Seq(Piece) /\ s # <<>> /\ DOMAIN s = 1 .. n /\ RestPart(s) \in String
  BY <1>1, RestIsString DEF String
<1>3. NumLevels(s) \in 1 .. n
  BY <1>1, LevelsArePieces
<1>4. Levels(s)[1] = FirstPart(s)
  BY <1>2, <1>3, LevelsArePieces DEF FirstPart
<1>5. CASE n = 1
  <2>1. RestPart(s) = EmptyString
    BY <1>1, <1>5, RestIsString
  <2>2. NumLevels(RestPart(s)) = 0 /\ NumLevels(s) = 1
    BY <1>2, <1>3, <1>5, <2>1, LevelsArePieces
  <2> QED
    BY <1>4, <2>2
<1>6. CASE n > 1
  <2> DEFINE r == RestPart(s)
  <2>1. Len(r) = n - 1 /\ \A i \in 1 .. n - 1 : r[i] = s[i + 1]
    BY <1>1, <1>6, RestIsString
  <2>2. r[n - 1] = s[n]
    BY <1>6, <2>1
  <2>3. NumLevels(r) = NumLevels(s) - 1
    BY <1>1, <2>1, <2>2 DEF NumLevels
  <2>4. ASSUME NEW i \in 1 .. NumLevels(s) - 1
        PROVE  Levels(r)[i] = Levels(s)[i + 1]
    <3>1. Levels(r)[i] = r[i]
      BY <1>2, <2>3, LevelsArePieces
    <3>2. r[i] = s[i + 1]
      BY <1>3, <2>1
    <3>3. Levels(s)[i + 1] = s[i + 1]
      BY <1>3, LevelsArePieces
    <3> QED
      BY <3>1, <3>2, <3>3
  <2> QED
    BY <1>4, <2>3, <2>4
<1> QED
  BY <1>5, <1>6
-----------------------------------------------------------------------------
(***************************************************************************)
(* Alignments, of x[1 .. n] along p[1 .. m].                               *)
(***************************************************************************)
Laid(f, p, m, x, n) ==
  /\ f \in [1 .. n -> 1 .. m]
  /\ \A k \in 1 .. n : Accepts(p[f[k]], x[k])
  /\ f[1] = 1 /\ f[n] = m
  /\ \A k \in 1 .. n - 1 : f[k + 1] = f[k] + 1 \/ (f[k + 1] = f[k] /\ p[f[k]] = "*")

CanLay(p, m, x, n) == \E f : Laid(f, p, m, x, n)

\* Covering is an alignment of the levels, or both have none.
LEMMA CoversIsLaid ==
  ASSUME NEW e \in String, NEW t \in String
  PROVE  Covers(e, t) <=>
           \/ NumLevels(e) = 0 /\ NumLevels(t) = 0
           \/ /\ NumLevels(e) # 0 /\ NumLevels(t) # 0
              /\ CanLay(Levels(e), NumLevels(e), Levels(t), NumLevels(t))
<1> DEFINE p == Levels(e)  x == Levels(t)
           m == NumLevels(e)  n == NumLevels(t)
<1>1. /\ DOMAIN p = 1 .. m /\ Len(p) = m /\ m \in Nat /\ (p = <<>> <=> m = 0)
      /\ DOMAIN x = 1 .. n /\ Len(x) = n /\ n \in Nat /\ (x = <<>> <=> n = 0)
  <2>1. Len(e) \in Nat /\ Len(t) \in Nat
    BY RestIsString
  <2> QED
    BY <2>1, LevelsArePieces
<1>2. Covers(e, t) <=>
        \/ p = <<>> /\ x = <<>>
        \/ /\ p # <<>> /\ x # <<>>
           /\ \E f \in [DOMAIN x -> DOMAIN p] : IsAlignment(f, p, x)
  BY DEF Covers
<1> HIDE DEF p, x, m, n
<1>3. \A f : f \in [DOMAIN x -> DOMAIN p] /\ IsAlignment(f, p, x) <=> Laid(f, p, m, x, n)
  BY <1>1 DEF IsAlignment, Laid
<1>4. Covers(e, t) <=>
        \/ m = 0 /\ n = 0
        \/ m # 0 /\ n # 0 /\ CanLay(p, m, x, n)
  <2>1. CanLay(p, m, x, n) <=> \E f \in [DOMAIN x -> DOMAIN p] : IsAlignment(f, p, x)
    BY <1>3 DEF CanLay
  <2> QED
    BY <1>1, <1>2, <2>1
<1> QED
  BY <1>4 DEF p, x, m, n

\* An alignment never goes back.
LEMMA NeverBack ==
  ASSUME NEW n \in Nat, NEW m \in Nat, NEW f \in [1 .. n -> 1 .. m],
         \A k \in 1 .. n - 1 : f[k + 1] = f[k] + 1 \/ f[k + 1] = f[k],
         NEW i \in 1 .. n
  PROVE  \A k \in i .. n : f[k] >= f[i]
<1> DEFINE T == {k \in i .. n : ~(f[k] >= f[i])}
<1> SUFFICES ASSUME T # {} PROVE FALSE
  OBVIOUS
<1>1. T \subseteq Nat
  OBVIOUS
<1> HIDE DEF T
<1>2. PICK k \in T : \A j \in T : k <= j
  BY <1>1, LeastNumber
<1>3. k \in i .. n /\ ~(f[k] >= f[i])
  BY <1>2 DEF T
<1>4. f[i] \in Nat /\ k # i
  BY <1>3
<1>5. k - 1 \in i .. n /\ k - 1 \in 1 .. n - 1 /\ k - 1 \notin T
  BY <1>2, <1>3, <1>4
<1>6. f[k - 1] >= f[i]
  BY <1>5 DEF T
<1>7. f[k - 1] \in Nat /\ f[k] \in Nat /\ (f[k] = f[k - 1] + 1 \/ f[k] = f[k - 1])
  <2>1. (k - 1) + 1 = k
    BY <1>3
  <2> QED
    BY <1>3, <1>5, <2>1
<1> QED
  BY <1>3, <1>4, <1>6, <1>7

\* How an alignment begins: with the first levels; and unless there is one
\* of each, either both are used up and the others are aligned, or the
\* pattern's is a "*" and is used again.
LEMMA FirstLevelLaid ==
  ASSUME NEW m \in Nat \ {0}, NEW n \in Nat \ {0}, NEW p, NEW x, NEW q, NEW y,
         \A i \in 1 .. m - 1 : q[i] = p[i + 1],
         \A i \in 1 .. n - 1 : y[i] = x[i + 1],
         CanLay(p, m, x, n)
  PROVE  /\ Accepts(p[1], x[1])
         /\ \/ m = 1 /\ n = 1
            \/ m # 1 /\ n # 1 /\ CanLay(q, m - 1, y, n - 1)
            \/ n # 1 /\ p[1] = "*" /\ CanLay(p, m, y, n - 1)
<1>1. PICK f : Laid(f, p, m, x, n)
  BY DEF CanLay
<1>2. /\ f \in [1 .. n -> 1 .. m]
      /\ \A k \in 1 .. n : Accepts(p[f[k]], x[k])
      /\ f[1] = 1 /\ f[n] = m
      /\ \A k \in 1 .. n - 1 : f[k + 1] = f[k] + 1 \/ (f[k + 1] = f[k] /\ p[f[k]] = "*")
  BY <1>1 DEF Laid
<1>3. Accepts(p[1], x[1])
  BY <1>2
<1>4. CASE n = 1
  BY <1>2, <1>3, <1>4
<1>5. CASE n # 1 /\ f[2] = 1
  <2> DEFINE g == [k \in 1 .. n - 1 |-> f[k + 1]]
  <2>1. p[1] = "*"
    <3>1. 1 \in 1 .. n - 1 /\ 1 + 1 = 2
      BY <1>5
    <3> QED
      BY <1>2, <1>5, <3>1
  <2>2. \A k \in 1 .. n - 1 : k + 1 \in 1 .. n /\ g[k] = f[k + 1]
    OBVIOUS
  <2>3. g \in [1 .. n - 1 -> 1 .. m]
    BY <1>2
  <2>4. \A k \in 1 .. n - 1 : Accepts(p[g[k]], y[k])
    BY <1>2, <2>2
  <2>5. g[1] = 1 /\ g[n - 1] = m
    <3>1. 1 \in 1 .. n - 1 /\ n - 1 \in 1 .. n - 1 /\ 1 + 1 = 2 /\ (n - 1) + 1 = n
      BY <1>5
    <3> QED
      BY <1>2, <1>5, <2>2, <3>1
  <2>6. \A k \in 1 .. (n - 1) - 1 : g[k + 1] = g[k] + 1 \/ (g[k + 1] = g[k] /\ p[g[k]] = "*")
    <3> TAKE k \in 1 .. (n - 1) - 1
    <3>1. k \in 1 .. n - 1 /\ k + 1 \in 1 .. n - 1
      OBVIOUS
    <3>2. g[k] = f[k + 1] /\ g[k + 1] = f[(k + 1) + 1]
      BY <2>2, <3>1
    <3> HIDE DEF g
    <3> QED
      BY <1>2, <3>1, <3>2
  <2> HIDE DEF g
  <2>7. Laid(g, p, m, y, n - 1)
    BY <2>3, <2>4, <2>5, <2>6 DEF Laid
  <2> QED
    BY <1>3, <1>5, <2>1, <2>7 DEF CanLay
<1>6. CASE n # 1 /\ f[2] # 1
  <2> DEFINE g == [k \in 1 .. n - 1 |-> f[k + 1] - 1]
  <2>1. f[2] = 2
    <3>1. 1 \in 1 .. n - 1 /\ 1 + 1 = 2
      BY <1>6
    <3> QED
      BY <1>2, <1>6, <3>1
  <2>2. \A k \in 2 .. n : f[k] >= 2
    <3>1. 2 \in 1 .. n
      BY <1>6
    <3>2. \A k \in 1 .. n - 1 : f[k + 1] = f[k] + 1 \/ f[k + 1] = f[k]
      BY <1>2
    <3>3. \A k \in 2 .. n : f[k] >= f[2]
      BY <1>2, <3>1, <3>2, NeverBack
    <3> QED
      BY <2>1, <3>3
  <2>3. \A k \in 1 .. n - 1 : /\ k + 1 \in 2 .. n /\ k + 1 \in 1 .. n
                              /\ g[k] = f[k + 1] - 1 /\ f[k + 1] = g[k] + 1
                              /\ g[k] \in 1 .. m - 1
    <3> TAKE k \in 1 .. n - 1
    <3>1. k + 1 \in 2 .. n /\ k + 1 \in 1 .. n
      OBVIOUS
    <3>2. f[k + 1] \in 2 .. m
      BY <1>2, <2>2, <3>1
    <3> QED
      BY <3>1, <3>2
  <2>4. g \in [1 .. n - 1 -> 1 .. m - 1]
    BY <2>3
  <2> HIDE DEF g
  <2>5. \A k \in 1 .. n - 1 : p[f[k + 1]] = q[g[k]]
    BY <2>3
  <2>6. \A k \in 1 .. n - 1 : Accepts(q[g[k]], y[k])
    BY <1>2, <2>3, <2>5
  <2>7. g[1] = 1 /\ g[n - 1] = m - 1
    <3>1. 1 \in 1 .. n - 1 /\ n - 1 \in 1 .. n - 1 /\ 1 + 1 = 2 /\ (n - 1) + 1 = n
      BY <1>6
    <3> QED
      BY <1>2, <2>1, <2>3, <3>1
  <2>8. \A k \in 1 .. (n - 1) - 1 : g[k + 1] = g[k] + 1 \/ (g[k + 1] = g[k] /\ q[g[k]] = "*")
    <3> TAKE k \in 1 .. (n - 1) - 1
    <3>1. k \in 1 .. n - 1 /\ k + 1 \in 1 .. n - 1
      OBVIOUS
    <3>2. g[k] = f[k + 1] - 1 /\ g[k + 1] = f[(k + 1) + 1] - 1 /\ p[f[k + 1]] = q[g[k]]
      BY <2>3, <2>5, <3>1
    <3>3. f[k + 1] \in Nat
      BY <1>2, <2>3, <3>1
    <3>4. \/ f[(k + 1) + 1] = f[k + 1] + 1
          \/ f[(k + 1) + 1] = f[k + 1] /\ p[f[k + 1]] = "*"
      BY <1>2, <3>1
    <3>5. PICK a : a = f[k + 1]
      OBVIOUS
    <3>6. PICK b : b = f[(k + 1) + 1]
      OBVIOUS
    <3>7. a \in Nat /\ g[k] = a - 1 /\ g[k + 1] = b - 1 /\ (b = a + 1 \/ (b = a /\ q[g[k]] = "*"))
      BY <3>2, <3>3, <3>4, <3>5, <3>6
    <3> QED
      BY ONLY <3>7
  <2>9. m # 1
    BY <1>6, <2>7, <2>4
  <2>10. Laid(g, q, m - 1, y, n - 1)
    BY <2>4, <2>6, <2>7, <2>8 DEF Laid
  <2> QED
    BY <1>3, <1>6, <2>9, <2>10 DEF CanLay
<1> QED
  BY <1>4, <1>5, <1>6

\* And how to begin one.
LEMMA FirstLevelOnly ==
  ASSUME NEW p, NEW x, Accepts(p[1], x[1])
  PROVE  CanLay(p, 1, x, 1)
<1> DEFINE f == [k \in 1 .. 1 |-> 1]
<1>1. /\ f \in [1 .. 1 -> 1 .. 1] /\ f[1] = 1
      /\ \A k \in 1 .. 1 : Accepts(p[f[k]], x[k])
  OBVIOUS
<1>2. 1 .. 1 - 1 = {}
  OBVIOUS
<1> HIDE DEF f
<1>3. Laid(f, p, 1, x, 1)
  BY <1>1, <1>2 DEF Laid
<1> QED
  BY <1>3 DEF CanLay

\* A first piece that accepts the first level, before a pattern that lies over
\* the other levels, lies over all of them.
LEMMA FirstLevelThenRest ==
  ASSUME NEW m \in Nat \ {0, 1}, NEW n \in Nat \ {0, 1}, NEW p, NEW x, NEW q, NEW y,
         \A i \in 1 .. m - 1 : q[i] = p[i + 1],
         \A i \in 1 .. n - 1 : y[i] = x[i + 1],
         Accepts(p[1], x[1]), CanLay(q, m - 1, y, n - 1)
  PROVE  CanLay(p, m, x, n)
<1>1. PICK g : Laid(g, q, m - 1, y, n - 1)
  BY DEF CanLay
<1>2. /\ g \in [1 .. n - 1 -> 1 .. m - 1]
      /\ \A k \in 1 .. n - 1 : Accepts(q[g[k]], y[k])
      /\ g[1] = 1 /\ g[n - 1] = m - 1
      /\ \A k \in 1 .. (n - 1) - 1 : g[k + 1] = g[k] + 1 \/ (g[k + 1] = g[k] /\ q[g[k]] = "*")
  BY <1>1 DEF Laid
<1> DEFINE f == [k \in 1 .. n |-> IF k = 1 THEN 1 ELSE g[k - 1] + 1]
<1>3. f[1] = 1 /\ \A k \in 2 .. n : f[k] = g[k - 1] + 1 /\ k - 1 \in 1 .. n - 1 /\ g[k - 1] \in 1 .. m - 1
  BY <1>2
<1>4. f \in [1 .. n -> 1 .. m]
  BY <1>2, <1>3
<1> HIDE DEF f
<1>5. \A k \in 1 .. n : Accepts(p[f[k]], x[k])
  <2> TAKE k \in 1 .. n
  <2>1. CASE k = 1
    BY <1>3, <2>1
  <2>2. CASE k # 1
    <3>1. PICK j \in 1 .. n - 1 : j = k - 1 /\ k = j + 1
      BY <2>2
    <3>2. g[j] \in 1 .. m - 1 /\ f[k] = g[j] + 1 /\ x[k] = y[j]
      BY <1>3, <2>2, <3>1
    <3>3. p[f[k]] = q[g[j]]
      BY <3>2
    <3> QED
      BY <1>2, <3>1, <3>2, <3>3
  <2> QED
    BY <2>1, <2>2
<1>6. f[n] = m
  <2>1. f[n] = g[n - 1] + 1
    BY <1>3
  <2> QED
    BY <1>2, <2>1
<1>7. \A k \in 1 .. n - 1 : f[k + 1] = f[k] + 1 \/ (f[k + 1] = f[k] /\ p[f[k]] = "*")
  <2> TAKE k \in 1 .. n - 1
  <2>0. f[k + 1] = g[k] + 1 /\ g[k] \in 1 .. m - 1
    <3>1. k + 1 \in 2 .. n /\ (k + 1) - 1 = k
      OBVIOUS
    <3> QED
      BY <1>3, <3>1
  <2>1. CASE k = 1
    BY <1>2, <1>3, <2>0, <2>1
  <2>2. CASE k # 1
    <3>1. PICK j \in 1 .. (n - 1) - 1 : j = k - 1 /\ k = j + 1
      BY <2>2
    <3>2. f[k] = g[j] + 1 /\ g[j] \in 1 .. m - 1
      BY <1>3, <2>2, <3>1
    <3>3. g[k] = g[j] + 1 \/ (g[k] = g[j] /\ q[g[j]] = "*")
      BY <1>2, <3>1
    <3>4. p[f[k]] = q[g[j]]
      BY <3>2
    <3> QED
      BY <2>0, <3>2, <3>3, <3>4
  <2> QED
    BY <2>1, <2>2
<1>8. Laid(f, p, m, x, n)
  BY <1>3, <1>4, <1>5, <1>6, <1>7 DEF Laid
<1> QED
  BY <1>8 DEF CanLay

\* A "*" in front that lies over the levels after the first takes the first
\* level too.
LEMMA StarThenRest ==
  ASSUME NEW m \in Nat \ {0}, NEW n \in Nat \ {0, 1}, NEW p, NEW x, NEW y,
         \A i \in 1 .. n - 1 : y[i] = x[i + 1],
         p[1] = "*", CanLay(p, m, y, n - 1)
  PROVE  CanLay(p, m, x, n)
<1>1. PICK g : Laid(g, p, m, y, n - 1)
  BY DEF CanLay
<1>2. /\ g \in [1 .. n - 1 -> 1 .. m]
      /\ \A k \in 1 .. n - 1 : Accepts(p[g[k]], y[k])
      /\ g[1] = 1 /\ g[n - 1] = m
      /\ \A k \in 1 .. (n - 1) - 1 : g[k + 1] = g[k] + 1 \/ (g[k + 1] = g[k] /\ p[g[k]] = "*")
  BY <1>1 DEF Laid
<1> DEFINE f == [k \in 1 .. n |-> IF k = 1 THEN 1 ELSE g[k - 1]]
<1>3. f[1] = 1 /\ \A k \in 2 .. n : f[k] = g[k - 1] /\ k - 1 \in 1 .. n - 1
  BY <1>2
<1>4. f \in [1 .. n -> 1 .. m]
  BY <1>2, <1>3
<1> HIDE DEF f
<1>5. \A k \in 1 .. n : Accepts(p[f[k]], x[k])
  <2> TAKE k \in 1 .. n
  <2>1. CASE k = 1
    BY <1>3, <2>1 DEF Accepts
  <2>2. CASE k # 1
    <3>1. PICK j \in 1 .. n - 1 : j = k - 1 /\ k = j + 1
      BY <2>2
    <3>2. f[k] = g[j] /\ x[k] = y[j]
      BY <1>3, <2>2, <3>1
    <3> QED
      BY <1>2, <3>1, <3>2
  <2> QED
    BY <2>1, <2>2
<1>6. f[n] = m
  BY <1>2, <1>3
<1>7. \A k \in 1 .. n - 1 : f[k + 1] = f[k] + 1 \/ (f[k + 1] = f[k] /\ p[f[k]] = "*")
  <2> TAKE k \in 1 .. n - 1
  <2>0. f[k + 1] = g[k]
    <3>1. k + 1 \in 2 .. n /\ (k + 1) - 1 = k
      OBVIOUS
    <3> QED
      BY <1>3, <3>1
  <2>1. CASE k = 1
    BY <1>2, <1>3, <2>0, <2>1
  <2>2. CASE k # 1
    <3>1. PICK j \in 1 .. (n - 1) - 1 : j = k - 1 /\ k = j + 1
      BY <2>2
    <3>2. f[k] = g[j]
      BY <1>3, <2>2, <3>1
    <3>3. g[k] = g[j] + 1 \/ (g[k] = g[j] /\ p[g[j]] = "*")
      BY <1>2, <3>1
    <3> QED
      BY <2>0, <3>2, <3>3
  <2> QED
    BY <2>1, <2>2
<1>8. Laid(f, p, m, x, n)
  BY <1>3, <1>4, <1>5, <1>6, <1>7 DEF Laid
<1> QED
  BY <1>8 DEF CanLay

-----------------------------------------------------------------------------
(***************************************************************************)
(* The matcher.                                                            *)
(***************************************************************************)

\* Covering, unfolded at the first pieces, is what the matcher does.
LEMMA CoversUnfolds ==
  ASSUME NEW e \in String, NEW t \in String
  PROVE  Covers(e, t) <=>
           IF e = EmptyString \/ t = EmptyString
           THEN e = t
           ELSE \/ /\ PieceMatches(FirstPart(e), FirstPart(t))
                   /\ Covers(RestPart(e), RestPart(t))
                \/ /\ FirstPart(e) = "*"
                   /\ Covers(e, RestPart(t))
<1> DEFINE p == Levels(e)  x == Levels(t)
           q == Levels(RestPart(e))  y == Levels(RestPart(t))
           m == NumLevels(e)  n == NumLevels(t)
<1>1. /\ m \in Nat /\ (m = 0 <=> e = EmptyString)
      /\ n \in Nat /\ (n = 0 <=> t = EmptyString)
  <2>1. Len(e) \in Nat /\ Len(t) \in Nat
    BY RestIsString
  <2> QED
    BY <2>1, LevelsArePieces
<1>2. /\ RestPart(e) \in String /\ RestPart(t) \in String
  BY RestIsString
<1>3. Covers(e, t) <=>
        \/ m = 0 /\ n = 0
        \/ m # 0 /\ n # 0 /\ CanLay(p, m, x, n)
  BY CoversIsLaid
<1>4. CASE e = EmptyString \/ t = EmptyString
  BY <1>1, <1>3, <1>4
<1>5. CASE e # EmptyString /\ t # EmptyString
  <2>1. /\ NumLevels(RestPart(e)) = m - 1 /\ \A i \in 1 .. m - 1 : q[i] = p[i + 1]
        /\ p[1] = FirstPart(e)
        /\ NumLevels(RestPart(t)) = n - 1 /\ \A i \in 1 .. n - 1 : y[i] = x[i + 1]
        /\ x[1] = FirstPart(t)
    BY <1>5, LevelsOfRest
  <2>2. Covers(RestPart(e), RestPart(t)) <=>
          \/ m - 1 = 0 /\ n - 1 = 0
          \/ m - 1 # 0 /\ n - 1 # 0 /\ CanLay(q, m - 1, y, n - 1)
    BY <1>2, <2>1, CoversIsLaid
  <2>3. Covers(e, RestPart(t)) <=>
          \/ m = 0 /\ n - 1 = 0
          \/ m # 0 /\ n - 1 # 0 /\ CanLay(p, m, y, n - 1)
    BY <1>2, <2>1, CoversIsLaid
  <2>4. PieceMatches(FirstPart(e), FirstPart(t)) <=> Accepts(p[1], x[1])
    BY <2>1 DEF PieceMatches, Accepts
  <2>5. FirstPart(e) = "*" <=> p[1] = "*"
    BY <2>1
  <2>6. p[1] = "*" => Accepts(p[1], x[1])
    BY DEF Accepts
  <2> HIDE DEF p, x, q, y, m, n
  <2>7. m \in Nat \ {0} /\ n \in Nat \ {0}
    BY <1>1, <1>5
  <2>8. CanLay(p, m, x, n) =>
          /\ Accepts(p[1], x[1])
          /\ \/ m = 1 /\ n = 1
             \/ m # 1 /\ n # 1 /\ CanLay(q, m - 1, y, n - 1)
             \/ n # 1 /\ p[1] = "*" /\ CanLay(p, m, y, n - 1)
    BY <2>1, <2>7, FirstLevelLaid
  <2>9. Accepts(p[1], x[1]) /\ m = 1 /\ n = 1 => CanLay(p, m, x, n)
    BY FirstLevelOnly
  <2>10. Accepts(p[1], x[1]) /\ m # 1 /\ n # 1 /\ CanLay(q, m - 1, y, n - 1) => CanLay(p, m, x, n)
    BY <2>1, <2>7, FirstLevelThenRest
  <2>11. n # 1 /\ p[1] = "*" /\ CanLay(p, m, y, n - 1) => CanLay(p, m, x, n)
    BY <2>1, <2>7, StarThenRest
  <2>12. (m - 1 = 0 <=> m = 1) /\ (n - 1 = 0 <=> n = 1) /\ m # 0 /\ n # 0
    BY <2>7
  <2> QED
    BY <1>3, <1>5, <2>2, <2>3, <2>4, <2>5, <2>6, <2>8, <2>9, <2>10, <2>11, <2>12
<1> QED
  BY <1>4, <1>5

\* So a function that satisfies the matcher's recursive equation exists, and
\* the matcher is one.
LEMMA MatcherUnfolds ==
  ASSUME NEW e \in String, NEW t \in String
  PROVE  RegExMatch(e, t) =
           IF e = EmptyString \/ t = EmptyString
           THEN e = t
           ELSE \/ /\ PieceMatches(FirstPart(e), FirstPart(t))
                   /\ RegExMatch(RestPart(e), RestPart(t))
                \/ /\ FirstPart(e) = "*"
                   /\ RegExMatch(e, RestPart(t))
<1> DEFINE Body(f, s) ==
             IF s[1] = EmptyString \/ s[2] = EmptyString
             THEN s[1] = s[2]
             ELSE \/ /\ PieceMatches(FirstPart(s[1]), FirstPart(s[2]))
                     /\ f[<<RestPart(s[1]), RestPart(s[2])>>]
                  \/ /\ FirstPart(s[1]) = "*"
                     /\ f[<<s[1], RestPart(s[2])>>]
           C == [s \in String \X String |-> Covers(s[1], s[2])]
<1>1. C = [s \in String \X String |-> Body(C, s)]
  <2>1. ASSUME NEW s \in String \X String
        PROVE  Covers(s[1], s[2]) = Body(C, s)
    <3>1. RestPart(s[1]) \in String /\ RestPart(s[2]) \in String
      BY RestIsString
    <3>2. /\ C[<<RestPart(s[1]), RestPart(s[2])>>] = Covers(RestPart(s[1]), RestPart(s[2]))
          /\ C[<<s[1], RestPart(s[2])>>] = Covers(s[1], RestPart(s[2]))
      BY <3>1
    <3>3. Covers(s[1], s[2]) \in BOOLEAN /\ Body(C, s) \in BOOLEAN
      BY <3>2 DEF Covers
    <3> HIDE DEF C
    <3>4. Covers(s[1], s[2]) <=> Body(C, s)
      BY <3>2, CoversUnfolds
    <3> QED
      BY <3>3, <3>4
  <2> QED
    BY <2>1
<1>2. RegExMatcher = CHOOSE f : f = [s \in String \X String |-> Body(f, s)]
  BY DEF RegExMatcher
<1> HIDE DEF C, Body
<1>3. RegExMatcher = [s \in String \X String |-> Body(RegExMatcher, s)]
  BY <1>1, <1>2
<1>4. RegExMatcher[<<e, t>>] = Body(RegExMatcher, <<e, t>>)
  BY <1>3
<1> QED
  BY <1>4 DEF Body, RegExMatch

\* The matcher of regExSubscription answers, for every pattern and every
\* topic, whether the topic's levels can be laid along the pattern's.  The
\* topic becomes shorter in each branch, so that a shortest topic on which the
\* two differ would not be the shortest.
THEOREM MatcherIsCoverage ==
  ASSUME NEW e \in String, NEW t \in String
  PROVE  RegExMatch(e, t) = Covers(e, t)
<1> DEFINE Differ(n) == \E u, v \in String : NumLevels(v) = n /\ RegExMatch(u, v) # Covers(u, v)
           T == {n \in Nat : Differ(n)}
<1>1. \A v \in String : NumLevels(v) \in Nat /\ (NumLevels(v) = 0 <=> v = EmptyString)
  <2> TAKE v \in String
  <2>1. Len(v) \in Nat
    BY RestIsString
  <2> QED
    BY <2>1, LevelsArePieces
<1> SUFFICES ASSUME RegExMatch(e, t) # Covers(e, t) PROVE FALSE
  OBVIOUS
<1>2. NumLevels(t) \in T
  BY <1>1
<1>3. PICK n \in T : \A k \in T : n <= k
  <2>1. T \subseteq Nat /\ T # {}
    BY <1>2
  <2> HIDE DEF T
  <2> QED
    BY <2>1, LeastNumber
<1>4. PICK u \in String, v \in String : NumLevels(v) = n /\ RegExMatch(u, v) # Covers(u, v)
  OBVIOUS
<1>5. RegExMatch(u, v) \in BOOLEAN /\ Covers(u, v) \in BOOLEAN
  BY MatcherUnfolds DEF Covers
<1>6. CASE u = EmptyString \/ v = EmptyString
  <2>1. RegExMatch(u, v) <=> u = v
    BY <1>6, MatcherUnfolds
  <2>2. Covers(u, v) <=> u = v
    BY <1>6, CoversUnfolds
  <2> QED
    BY <1>4, <1>5, <2>1, <2>2
<1>7. CASE u # EmptyString /\ v # EmptyString
  <2>1. RestPart(u) \in String /\ RestPart(v) \in String
    BY RestIsString
  <2>2. NumLevels(RestPart(v)) = n - 1 /\ n - 1 \in Nat
    BY <1>1, <1>4, <1>7, LevelsOfRest
  <2>3. n - 1 \notin T
    BY <1>3, <2>2
  <2>4. /\ RegExMatch(RestPart(u), RestPart(v)) = Covers(RestPart(u), RestPart(v))
        /\ RegExMatch(u, RestPart(v)) = Covers(u, RestPart(v))
    BY <2>1, <2>2, <2>3
  <2>5. RegExMatch(u, v) <=> Covers(u, v)
    BY <1>7, <2>4, MatcherUnfolds, CoversUnfolds
  <2> QED
    BY <1>4, <1>5, <2>5
<1> QED
  BY <1>6, <1>7

\* With a "*" for a "+" a pattern covers what it covered: the alignment is the
\* same.
LEMMA StarCoversMore ==
  ASSUME NEW e \in String, NEW t \in String, NEW i \in DOMAIN e, e[i] = "+",
         Covers(e, t)
  PROVE  /\ [e EXCEPT ![i] = "*"] \in String
         /\ Covers([e EXCEPT ![i] = "*"], t)
<1> DEFINE d == [e EXCEPT ![i] = "*"]
           m == NumLevels(e)
           n == NumLevels(t)
<1>1. PICK l \in Nat \ {0} : l = Len(e)
  BY RestIsString
<1>2. e \in Seq(Piece) /\ DOMAIN e = 1 .. l
  BY <1>1, RestIsString
<1>3. "*" \in Piece /\ EmptyPiece # "*" /\ EmptyPiece # "+"
  <2>1. EmptyPiece # "*" /\ EmptyPiece # "+"
    BY Zenon DEF EmptyPiece
  <2> QED
    BY <2>1, PieceAssumption
<1>4. d \in Seq(Piece) /\ Len(d) = l /\ \A j \in 1 .. l : d[j] = IF j = i THEN "*" ELSE e[j]
  BY <1>1, <1>2, <1>3, ExceptSeq
<1> HIDE DEF d
<1>5. d \in String
  <2>1. d # <<>>
    BY <1>4, EmptySeq
  <2> QED
    BY <1>4, <2>1 DEF String
<1>6. NumLevels(d) = m
  <2>1. d[l] = EmptyPiece <=> e[l] = EmptyPiece
    BY <1>3, <1>4
  <2> QED
    BY <1>1, <1>4, <2>1 DEF NumLevels
<1>7. \A j \in 1 .. m : /\ Levels(d)[j] = d[j] /\ Levels(e)[j] = e[j]
                         /\ d[j] = IF j = i THEN "*" ELSE e[j]
  <2>1. m \in 0 .. l
    BY <1>1, LevelsArePieces
  <2>2. \A j \in 1 .. m : j \in 1 .. l
    BY <2>1
  <2> QED
    BY <1>4, <1>5, <1>6, <2>2, LevelsArePieces
<1>8. CASE m = 0 /\ n = 0
  <2>1. Covers(d, t)
    BY <1>5, <1>6, <1>8, CoversIsLaid
  <2> QED
    BY <1>5, <2>1 DEF d
<1>9. CASE m # 0 /\ n # 0 /\ CanLay(Levels(e), m, Levels(t), n)
  <2> DEFINE p == Levels(e)  q == Levels(d)  x == Levels(t)
  <2>1. PICK f : Laid(f, p, m, x, n)
    BY <1>9 DEF CanLay
  <2> HIDE DEF p, q, x, m, n
  <2>2. \A j \in 1 .. m : q[j] = "*" \/ q[j] = p[j]
    BY <1>7 DEF p, q
  <2>3. \A k \in 1 .. n : f[k] \in 1 .. m
    BY <2>1 DEF Laid
  <2>4. \A k \in 1 .. n : Accepts(q[f[k]], x[k])
    BY <2>1, <2>2, <2>3 DEF Laid, Accepts
  <2>5. n \in Nat
    <3>1. Len(t) \in Nat
      BY RestIsString
    <3> QED
      BY <3>1, LevelsArePieces DEF n
  <2>6. \A k \in 1 .. n - 1 : f[k + 1] = f[k] + 1 \/ (f[k + 1] = f[k] /\ q[f[k]] = "*")
    <3> TAKE k \in 1 .. n - 1
    <3>1. k \in 1 .. n
      BY <2>5
    <3> QED
      BY <2>1, <2>2, <2>3, <3>1 DEF Laid
  <2>7. Laid(f, q, m, x, n)
    BY <2>1, <2>4, <2>6 DEF Laid
  <2>8. CanLay(q, m, x, n)
    BY <2>7 DEF CanLay
  <2>9. Covers(d, t)
    BY <1>5, <1>6, <1>9, <2>8, CoversIsLaid DEF q, x, m, n
  <2> QED
    BY <1>5, <2>9 DEF d
<1>10. \/ m = 0 /\ n = 0
       \/ m # 0 /\ n # 0 /\ CanLay(Levels(e), m, Levels(t), n)
  BY CoversIsLaid
<1> QED
  BY <1>8, <1>9, <1>10

-----------------------------------------------------------------------------
\* Whatever is written, it is a pattern and a topic.
LEMMA Strings == Spec => [](expression \in String /\ target \in String)
<1> DEFINE Inv == expression \in String /\ target \in String
<1>1. Init => Inv
  <2>1. EmptyPiece \in Piece
    BY PieceAssumption
  <2>2. <<EmptyPiece>> \in Seq(Piece) /\ <<EmptyPiece>> # <<>>
    BY <2>1
  <2> QED
    BY <2>2 DEF Init, EmptyString, String
<1>2. ASSUME NEW s \in String, NEW x \in Piece PROVE Written(s, x) \in String
  <2>1. <<x>> \in Seq(Piece) /\ <<x>> # <<>>
    OBVIOUS
  <2>2. Append(s, x) \in Seq(Piece) /\ Append(s, x) # <<>>
    BY RestIsString, AppendProperties
  <2> QED
    BY <2>1, <2>2 DEF Written, String
<1>3. Inv /\ [Next]_vars => Inv'
  BY <1>2 DEF Next, WriteExpression, WriteTarget, vars
<1> QED
  BY <1>1, <1>3, PTL DEF Spec

\* MatchIsCoverage, of patterns and topics of any length over any pieces.
THEOREM MatchesExactly == Spec => []MatchIsCoverage
<1>1. expression \in String /\ target \in String => MatchIsCoverage
  BY MatcherIsCoverage DEF MatchIsCoverage
<1> QED
  BY <1>1, Strings, PTL

\* StarIncludesPlus, of patterns and topics of any length over any pieces.
THEOREM StarIsWider == Spec => []StarIncludesPlus
<1>1. ASSUME expression \in String, target \in String PROVE StarIncludesPlus
  <2> SUFFICES ASSUME NEW i \in DOMAIN expression, expression[i] = "+",
                      Match(expression, target)
               PROVE  Match([expression EXCEPT ![i] = "*"], target)
    BY DEF StarIncludesPlus
  <2> DEFINE d == [expression EXCEPT ![i] = "*"]
  <2>1. IsItRegEx(expression)
    BY DEF IsItRegEx
  <2>2. d[i] = "*" /\ i \in DOMAIN d
    OBVIOUS
  <2>3. Covers(expression, target)
    BY <1>1, <2>1, MatcherIsCoverage DEF Match
  <2>4. d \in String /\ Covers(d, target)
    BY <1>1, <2>3, StarCoversMore
  <2> HIDE DEF d
  <2>5. RegExMatch(d, target)
    BY <1>1, <2>4, MatcherIsCoverage
  <2>6. IsItRegEx(d)
    BY <2>2 DEF IsItRegEx
  <2>7. Match(d, target)
    BY <2>5, <2>6 DEF Match
  <2> QED
    BY <2>7 DEF d
<1> QED
  BY <1>1, Strings, PTL
=============================================================================
