-------------------------- MODULE MCTopicPatterns --------------------------
(***************************************************************************)
(* Every pattern and every topic of up to MaxPieces pieces, reached by     *)
(* writing them piece by piece.                                            *)
(***************************************************************************)
EXTENDS TopicPatterns

CONSTANT MaxPieces

VARIABLES expression, target

vars == <<expression, target>>

Init == expression = EmptyString /\ target = EmptyString

\* The next piece of s: an empty string is overwritten, otherwise a '/' and
\* the piece are written behind it.
Written(s, x) == IF s = EmptyString /\ x # EmptyPiece THEN <<x>> ELSE Append(s, x)

WriteExpression ==
  \E x \in Piece :
     /\ Len(Written(expression, x)) <= MaxPieces
     /\ expression' = Written(expression, x)
     /\ UNCHANGED target

WriteTarget ==
  \E x \in Piece \ {"+", "*"} :
     /\ Len(Written(target, x)) <= MaxPieces
     /\ target' = Written(target, x)
     /\ UNCHANGED expression

Next == WriteExpression \/ WriteTarget

Spec == Init /\ [][Next]_vars

-----------------------------------------------------------------------------
\* The backtracking matcher of regExSubscription answers exactly whether the
\* topic's levels can be laid along the pattern's: no backtracking branch is
\* lost by the in-place splitting, and none accepts too much.
MatchIsCoverage == RegExMatch(expression, target) = Covers(expression, target)

\* Widening a "+" to a "*" never loses a topic, so that subscribing to
\* .../* after .../+ keeps every notification (the set inclusion test).
StarIncludesPlus ==
  \A i \in DOMAIN expression :
     expression[i] = "+" /\ Match(expression, target)
        => Match([expression EXCEPT ![i] = "*"], target)
=============================================================================
