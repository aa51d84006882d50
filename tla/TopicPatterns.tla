--------------------------- MODULE TopicPatterns ---------------------------
(***************************************************************************)
(* Topic strings and the wildcard matcher of subscriptions.cpp.            *)
(*                                                                         *)
(* A topic string is the sequence of the pieces between its '/'            *)
(* characters, so "a/b/" is <<"a", "b", "">> and the empty string is       *)
(* <<"">>.  The representation is one to one: nothing the matcher or       *)
(* strcmp can see is lost.                                                 *)
(***************************************************************************)
EXTENDS Naturals, Sequences

CONSTANT Piece   \* the texts that occur between two separators

EmptyPiece == ""

ASSUME PieceAssumption == {EmptyPiece, "+", "*"} \subseteq Piece

String == Seq(Piece) \ {<<>>}

EmptyString == <<EmptyPiece>>

\* split_at_first_separator: the text before the first '/', and the text
\* after it, which is the empty string when there is no '/' at all.
FirstPart(s) == Head(s)
RestPart(s) == IF Len(s) = 1 THEN EmptyString ELSE Tail(s)

\* isItRegEx: some piece is exactly "+" or "*".  (Mutant: "*" is not known.)
IsItRegEx_PlusOnly(s) == \E i \in DOMAIN s : s[i] = "+"
IsItRegEx(s) == \E i \in DOMAIN s : s[i] \in {"+", "*"}

\* The pieces agree.  (Mutant: a "*" is not tried as a "+".)
PieceMatches_NoStar(x, y) == x \in {"+", y}
PieceMatches(x, y) == x \in {"+", "*", y}

\* regExSubscription::match.  A "*" first consumes one piece of the target
\* and is done, or else consumes it and stays (the copies of the expression
\* and of the rest of the target that the code keeps for the second try).
RegExMatcher[s \in String \X String] ==
  LET e == s[1]
      t == s[2]
  IN  IF e = EmptyString \/ t = EmptyString
      THEN e = t
      ELSE \/ /\ PieceMatches(FirstPart(e), FirstPart(t))
              /\ RegExMatcher[<<RestPart(e), RestPart(t)>>]
           \/ /\ FirstPart(e) = "*"
              /\ RegExMatcher[<<e, RestPart(t)>>]

RegExMatch(e, t) == RegExMatcher[<<e, t>>]

\* nonRegExSubscription::match is strcmp.
Match(e, t) == IF IsItRegEx(e) THEN RegExMatch(e, t) ELSE e = t

-----------------------------------------------------------------------------
(***************************************************************************)
(* What the pattern language promises, without the algorithm.              *)
(***************************************************************************)

\* The levels of a topic: its pieces, where one '/' at the very end opens no
\* further level.
Levels(s) == IF s[Len(s)] = EmptyPiece THEN SubSeq(s, 1, Len(s) - 1) ELSE s

\* Pattern level p accepts topic level x.
Accepts(p, x) == p \in {"+", "*", x}

\* An alignment sends each topic level to the pattern level that accepts it:
\* from the first to the last, in order, leaving no pattern level out, and
\* only a "*" takes more than one topic level.
IsAlignment(f, p, x) ==
  /\ \A k \in DOMAIN x : Accepts(p[f[k]], x[k])
  /\ f[1] = 1
  /\ f[Len(x)] = Len(p)
  /\ \A k \in 1 .. Len(x) - 1 :
        \/ f[k+1] = f[k] + 1
        \/ f[k+1] = f[k] /\ p[f[k]] = "*"

\* Topic t is covered by pattern e.
Covers(e, t) ==
  LET p == Levels(e)
      x == Levels(t)
  IN  \/ p = <<>> /\ x = <<>>
      \/ /\ p # <<>> /\ x # <<>>
         /\ \E f \in [DOMAIN x -> DOMAIN p] : IsAlignment(f, p, x)
=============================================================================
