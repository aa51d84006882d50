------------------------ MODULE MCUserSubscriptions ------------------------
(***************************************************************************)
(* A user who mixes plain, "+" and "*" requests that overlap.              *)
(***************************************************************************)
EXTENDS UserSubscriptions

MCTopic == {<<"a">>, <<"a", "b">>, <<"a", "">>}
MCPattern == {<<"a">>, <<"*">>, <<"a", "+">>, <<"+">>, EmptyString}
=============================================================================
