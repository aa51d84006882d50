--------------------------- MODULE Subscriptions ---------------------------
(***************************************************************************)
(* struct userIdSubscriptions of subscriptions.h: what the server keeps    *)
(* about one user id.  The vector of subscriptions is a log of subscribe   *)
(* and unsubscribe requests, read from its end.                            *)
(***************************************************************************)
EXTENDS TopicPatterns

\* One element of the vector.  Whether it is a regExSubscription or a
\* nonRegExSubscription is a function of the expression (see Match).
Subscription == [expression : String, subscribed : BOOLEAN]

\* addSubscribe (on = TRUE) and addUnsubscribe (on = FALSE).  (Mutant: the
\* newest element goes to the front.)
AddSubscription_AtFront(subscriptions, topic, on) ==
  IF topic = EmptyString
  THEN subscriptions
  ELSE <<[expression |-> topic, subscribed |-> on]>> \o subscriptions

AddSubscription(subscriptions, topic, on) ==
  IF topic = EmptyString
  THEN subscriptions
  ELSE Append(subscriptions, [expression |-> topic, subscribed |-> on])

\* The loop of getMatch: from the last element to the first, the first one
\* found to match decides; with none, the user never touched the topic.
\* (Mutants: the first match from the beginning decides; any match will do.)
LastMatch_FromBeginning(subscriptions, target) ==
  \E i \in DOMAIN subscriptions :
     /\ Match(subscriptions[i].expression, target)
     /\ subscriptions[i].subscribed
     /\ \A j \in 1 .. i-1 : ~Match(subscriptions[j].expression, target)

LastMatch_Any(subscriptions, target) ==
  \E i \in DOMAIN subscriptions : Match(subscriptions[i].expression, target)

LastMatch(subscriptions, target) ==
  \E i \in DOMAIN subscriptions :
     /\ Match(subscriptions[i].expression, target)
     /\ subscriptions[i].subscribed
     /\ \A j \in i+1 .. Len(subscriptions) :
           ~Match(subscriptions[j].expression, target)

\* getMatch
GetMatch(user, target) ==
  user.active /\ LastMatch(user.subscriptions, target)
=============================================================================
