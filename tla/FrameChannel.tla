---------------------------- MODULE FrameChannel -----------------------------
(***************************************************************************)
(* What sendTcp and applicationProtocol make of a connection: texts arrive *)
(* whole and in order.  Once the connection is broken they may be missed   *)
(* or cut; what arrives is still a piece of one that was sent, of each at  *)
(* most one, in order.                                                     *)
(***************************************************************************)
EXTENDS Naturals, Sequences

CONSTANTS Texts, Frame(_)    \* and the bytes that a text is sent as

VARIABLES
  sent,       \* texts handed over
  passed,     \* how many of them are past
  received,   \* what arrived
  broken

Init == sent = <<>> /\ passed = 0 /\ received = <<>> /\ broken = FALSE

Send ==
  /\ \E t \in Texts : sent' = Append(sent, t)
  /\ UNCHANGED <<passed, received, broken>>

Break == broken' = TRUE /\ UNCHANGED <<sent, passed, received>>

Receive ==
  /\ passed < Len(sent)
  /\ received' = Append(received, sent[passed + 1])
  /\ passed' = passed + 1
  /\ UNCHANGED <<sent, broken>>

\* An empty text says nothing.
Skip ==
  /\ passed < Len(sent) /\ sent[passed + 1] = <<>>
  /\ passed' = passed + 1
  /\ UNCHANGED <<sent, received, broken>>

\* Texts are missed, but for a piece of one.
Miss ==
  /\ broken
  /\ passed' \in passed .. Len(sent)
  /\ \/ received' = received
     \/ \E k \in passed + 1 .. passed' :
          \E m, n \in 1 .. Len(Frame(sent[k])) :
            m <= n /\ received' = Append(received, SubSeq(Frame(sent[k]), m, n))
  /\ UNCHANGED <<sent, broken>>

Next == Send \/ Break \/ Receive \/ Skip \/ Miss

Spec == Init /\ [][Next]_<<sent, passed, received, broken>>
==============================================================================
