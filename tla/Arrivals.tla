------------------------------ MODULE Arrivals -------------------------------
(***************************************************************************)
(* The UDP socket between publishers and the server's main loop, as the    *)
(* rest of the system sees it: datagrams arrive one after another and are  *)
(* taken once each, in that order.  What is lost never arrives.            *)
(***************************************************************************)
EXTENDS Naturals, Sequences

CONSTANT Item     \* a topic, or a datagram that is dropped

VARIABLES arrived, taken

Init == arrived = <<>> /\ taken = 0

Arrive == (\E d \in Item : arrived' = Append(arrived, d)) /\ UNCHANGED taken

Take == taken < Len(arrived) /\ taken' = taken + 1 /\ UNCHANGED arrived

Next == Arrive \/ Take

Spec == Init /\ [][Next]_<<arrived, taken>>
==============================================================================
