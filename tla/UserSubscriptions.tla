------------------------- MODULE UserSubscriptions -------------------------
(***************************************************************************)
(* The subscription log of one user over the user's whole history, and     *)
(* the set of topics it stands for.                                        *)
(***************************************************************************)
EXTENDS Subscriptions

CONSTANTS Topic,         \* the topics that are published
          Pattern,       \* the second word of the requests that arrive
          MaxRequests    \* bound: requests in one history

ASSUME TopicAssumption == Topic \subseteq String
ASSUME PatternAssumption == Pattern \subseteq String
ASSUME MaxRequestsAssumption == MaxRequests \in Nat

VARIABLE subscriptions

TypeOK == subscriptions \in Seq(Subscription)

Init == subscriptions = <<>>

\* The request handlers of the server's main loop on this user's vector.
Request(e, on) ==
  /\ Len(subscriptions) < MaxRequests
  /\ subscriptions' = AddSubscription(subscriptions, e, on)

Next == \E e \in Pattern : Request(e, TRUE) \/ Request(e, FALSE)

Spec == Init /\ [][Next]_subscriptions

-----------------------------------------------------------------------------
\* The topics a pattern selects.  An empty topic is refused by addSubscribe
\* and addUnsubscribe alike, so asking for it selects nothing.
Selected(e) ==
  IF e = EmptyString THEN {} ELSE {t \in Topic : Match(e, t)}

\* The topics whose notifications the user gets while logged in.
CurrentInterest == {t \in Topic : LastMatch(subscriptions, t)}

\* "The subscription is decided by the last action on the path": the log,
\* searched backwards for the first match, is a set of topics to which each
\* request adds, or from which it takes, exactly what its pattern selects.
Interest == INSTANCE Interest WITH interest <- CurrentInterest
ImplementsInterest == Interest!Spec
=============================================================================
