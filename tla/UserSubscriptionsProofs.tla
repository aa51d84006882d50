---------------------- MODULE UserSubscriptionsProofs ----------------------
(***************************************************************************)
(* The subscription log, searched backwards, implements the set of topics  *)
(* the user is interested in: for all topics, patterns and histories.      *)
(***************************************************************************)
EXTENDS UserSubscriptions, SequenceTheorems, TLAPS

\* The element appended last decides for the topics it matches, and the rest
\* of the log for all others.
LEMMA LastRequestDecides ==
  ASSUME NEW s \in Seq(Subscription), NEW e \in String, NEW on \in BOOLEAN, NEW t
  PROVE  LastMatch(Append(s, [expression |-> e, subscribed |-> on]), t)
           <=> IF Match(e, t) THEN on ELSE LastMatch(s, t)
<1> DEFINE r == [expression |-> e, subscribed |-> on]
           n == Len(s)
           s2 == Append(s, r)
<1>1. n \in Nat /\ DOMAIN s = 1 .. n
  OBVIOUS
<1>2. /\ DOMAIN s2 = 1 .. n + 1 /\ Len(s2) = n + 1
      /\ s2[n + 1] = r
      /\ \A i \in 1 .. n : s2[i] = s[i]
  BY DEF Subscription
<1>3. CASE Match(e, t)
  <2>1. \A i \in 1 .. n : n + 1 \in i + 1 .. Len(s2)
    BY <1>1, <1>2
  <2>2. LastMatch(s2, t) => on
    BY <1>1, <1>2, <1>3, <2>1 DEF LastMatch
  <2>3. on => LastMatch(s2, t)
    BY <1>1, <1>2, <1>3 DEF LastMatch
  <2> QED
    BY <1>3, <2>2, <2>3
<1>4. CASE ~ Match(e, t)
  <2>1. ASSUME LastMatch(s2, t) PROVE LastMatch(s, t)
    <3>1. PICK i \in 1 .. n + 1 :
             /\ Match(s2[i].expression, t) /\ s2[i].subscribed
             /\ \A j \in i + 1 .. n + 1 : ~ Match(s2[j].expression, t)
      BY <1>2, <2>1 DEF LastMatch
    <3>2. i \in 1 .. n
      BY <1>1, <1>2, <1>4, <3>1
    <3> QED
      BY <1>1, <1>2, <3>1, <3>2 DEF LastMatch
  <2>2. ASSUME LastMatch(s, t) PROVE LastMatch(s2, t)
    <3>1. PICK i \in 1 .. n :
             /\ Match(s[i].expression, t) /\ s[i].subscribed
             /\ \A j \in i + 1 .. n : ~ Match(s[j].expression, t)
      BY <1>1, <2>2 DEF LastMatch
    <3>2. \A j \in i + 1 .. n + 1 : ~ Match(s2[j].expression, t)
      BY <1>1, <1>2, <1>4, <3>1
    <3>3. i \in DOMAIN s2 /\ s2[i] = s[i] /\ Len(s2) = n + 1
      BY <1>1, <1>2, <3>1
    <3> HIDE DEF s2, n
    <3> QED
      BY <3>1, <3>2, <3>3 DEF LastMatch
  <2> QED
    BY <1>4, <2>1, <2>2
<1> QED
  BY <1>3, <1>4

\* The vector of a user holds subscriptions only, whatever is requested.
THEOREM TypeCorrect == Spec => []TypeOK
<1>1. Init => TypeOK
  BY DEF Init, TypeOK
<1>2. TypeOK /\ [Next]_subscriptions => TypeOK'
  <2>1. ASSUME TypeOK, NEW e \in Pattern, NEW on \in BOOLEAN
        PROVE  Append(subscriptions, [expression |-> e, subscribed |-> on]) \in Seq(Subscription)
    <3>1. [expression |-> e, subscribed |-> on] \in Subscription
      BY PatternAssumption DEF Subscription
    <3> QED
      BY <2>1, <3>1, AppendProperties DEF TypeOK
  <2> QED
    BY <2>1 DEF TypeOK, Next, Request, AddSubscription
<1> QED
  BY <1>1, <1>2, PTL DEF Spec

\* "The subscription is decided by the last action on the path": each request
\* adds to, or takes from, the user's topics exactly those its pattern
\* selects, for every pattern and every history.
THEOREM LogImplementsInterest == Spec => ImplementsInterest
<1>1. Init => Interest!Init
  BY DEF Init, Interest!Init, CurrentInterest, LastMatch
<1>2. TypeOK /\ [Next]_subscriptions => [Interest!Next]_CurrentInterest
  <2> SUFFICES ASSUME TypeOK, Next
               PROVE  [Interest!Next]_CurrentInterest
    BY DEF CurrentInterest
  <2>1. PICK e \in Pattern, on \in BOOLEAN : Request(e, on)
    BY DEF Next
  <2>2. e \in String /\ subscriptions \in Seq(Subscription)
    BY PatternAssumption DEF TypeOK
  <2>3. CASE e = EmptyString
    BY <2>1, <2>3 DEF Request, AddSubscription, CurrentInterest
  <2>4. CASE e # EmptyString
    <3>1. \A t \in Topic : LastMatch(subscriptions', t)
             <=> IF Match(e, t) THEN on ELSE LastMatch(subscriptions, t)
      BY <2>1, <2>2, <2>4, LastRequestDecides DEF Request, AddSubscription
    <3>2. CASE on
      <4>1. CurrentInterest' = CurrentInterest \cup Selected(e)
        BY <2>4, <3>1, <3>2 DEF CurrentInterest, Selected
      <4> QED
        BY <4>1 DEF Interest!Next, Interest!Subscribe
    <3>3. CASE ~ on
      <4>1. CurrentInterest' = CurrentInterest \ Selected(e)
        BY <2>4, <3>1, <3>3 DEF CurrentInterest, Selected
      <4> QED
        BY <4>1 DEF Interest!Next, Interest!Unsubscribe
    <3> QED
      BY <3>2, <3>3
  <2> QED
    BY <2>3, <2>4
<1> QED
  BY <1>1, <1>2, TypeCorrect, PTL DEF Spec, ImplementsInterest, Interest!Spec
=============================================================================
