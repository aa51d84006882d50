------------------------------ MODULE Interest ------------------------------
(***************************************************************************)
(* What subscribing promises a user: a set of topics, which a subscribe    *)
(* request widens and an unsubscribe request narrows by all the topics the *)
(* request's pattern selects, whatever was requested before.  Nobody has   *)
(* to know how the set is stored, or in which order it came to be.         *)
(***************************************************************************)
CONSTANTS Topic,            \* the topics that are published
          Pattern,          \* the patterns that are asked for
          Selected(_)       \* the topics a pattern selects

VARIABLE interest

Init == interest = {}

Subscribe(e) == interest' = interest \cup Selected(e)

Unsubscribe(e) == interest' = interest \ Selected(e)

Next == \E e \in Pattern : Subscribe(e) \/ Unsubscribe(e)

Spec == Init /\ [][Next]_interest
=============================================================================
