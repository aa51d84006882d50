----------------------------- MODULE Publishing ------------------------------
(***************************************************************************)
(* Publishers, the kernel, and the UDP branch of the server up to the text *)
(* of the notification: from a payload in a file to what subscribers read. *)
(***************************************************************************)
EXTENDS Publisher, Notification

CONSTANTS NoJob, Forever, Malformed

ASSUME DatagramFitsAssumption ==
  \A x \in Payload : /\ x.datagram.topic \in Topic /\ x.datagram.rest \in Seq(Byte)
                     /\ Len(x.datagram.rest) < BufferLength
ASSUME JobAssumption ==
  /\ Forever \notin Int
  /\ NoJob \notin [mode : Mode, length : Nat, count : Int \cup {Forever}]
ASSUME MalformedAssumption == Malformed \notin Topic

VARIABLES
  udp_recv,   \* the server's buffer
  log         \* history: what recvfrom returned, and the text made of it

vars == <<kernel, publisher, udp_recv, log>>

Init ==
  /\ DatagramsInit /\ PublisherInit
  /\ udp_recv = [topic |-> NoTopic, rest |-> [i \in 1 .. BufferLength |-> 0]]
  /\ log = <<>>

\* The server's UDP branch.  (Mutant: it reads all there is and keeps the
\* last.)
Take_LatestOnly ==
  /\ serverUp /\ queue # <<>>
  /\ LET datagram == queue[Len(queue)].payload.datagram
     IN /\ udp_recv' = Received(Cleared(udp_recv), datagram)
        /\ log' = Append(log, [datagram |-> queue[Len(queue)],
                               topic    |-> udp_recv'.topic,
                               text     |-> ManageUdp(udp_recv', Len(datagram.rest))])
  /\ queue' = <<>>
  /\ UNCHANGED <<bound, lost, serverUp, publisher>>

Take ==
  /\ serverUp /\ queue # <<>>
  /\ LET datagram == Head(queue).payload.datagram
     IN /\ udp_recv' = Received(Cleared(udp_recv), datagram)
        /\ log' = Append(log, [datagram |-> Head(queue),
                               topic    |-> udp_recv'.topic,
                               text     |-> ManageUdp(udp_recv', Len(datagram.rest))])
  /\ queue' = Tail(queue)
  /\ UNCHANGED <<bound, lost, serverUp, publisher>>

\* The server ends; its socket is closed and what is queued there never read.
ServerStops ==
  /\ serverUp
  /\ serverUp' = FALSE
  /\ UNCHANGED <<bound, queue, lost, publisher, udp_recv, log>>

Next ==
  \/ \E p \in Publisher :
       (PublisherStep(p) \/ Type(p) \/ Interrupt(p)) /\ UNCHANGED <<udp_recv, log>>
  \/ Take \/ ServerStops

Spec == Init /\ [][Next]_vars

\* Publishers that run go on running, and sleeps end.  Nobody has to type, no
\* signal has to come, and the server need not come to its UDP branch.
Fairness ==
  \A p \in Publisher : WF_vars(PublisherStep(p) /\ UNCHANGED <<udp_recv, log>>)

FairSpec == Spec /\ Fairness

-----------------------------------------------------------------------------
TypeOK ==
  /\ DatagramsTypeOK /\ PublisherTypeOK
  /\ udp_recv \in Buffer
  /\ log \in Seq([datagram : Datagram, topic : Topic \cup {NoTopic}, text : Text])

-----------------------------------------------------------------------------
(***************************************************************************)
(* The publisher's promises.                                               *)
(***************************************************************************)

\* What the modes' descriptions in the help say holds however a run ends: the
\* publisher implements Workload.
JobOf(p) ==
  IF Accepted(commandLine[p])
  THEN [mode |-> Args(p).mode, length |-> Len(List(p)),
        count |-> IF Args(p).count = NotGiven THEN Forever ELSE Args(p).count]
  ELSE NoJob

StatusOf(p) ==
  IF stage[p] \notin Ended THEN "running"
  ELSE IF stage[p] = "done" THEN "done" ELSE "failed"

W == INSTANCE Workload WITH
       job <- [p \in Publisher |-> JobOf(p)],
       status <- [p \in Publisher |-> StatusOf(p)]

ImplementsWorkload == W!Spec

\* What the loops go by is right whenever they look at it: the position and
\* the count agree with what was sent, a publisher that sends has a port, and
\* only one whose command line was accepted ever sends or fails to.
BookOf(p) ==
  /\ (stage[p] \in {"bind", "loop", "sleep", "raised", "done"} \/ sent[p] # <<>>)
       => Accepted(commandLine[p])
  /\ stage[p] \in {"loop", "sleep"} => bound[p] # Unbound
  /\ stage[p] \in {"parse", "bind"} => sent[p] = <<>> /\ message[p] = 0 /\ count[p] = 0
  /\ stage[p] \in {"loop", "sleep"} /\ Args(p).mode = "all_once" =>
       message[p] = Len(sent[p])
  /\ stage[p] = "loop" /\ Args(p).mode = "random" => count[p] = Len(sent[p])
  /\ stage[p] = "sleep" /\ Args(p).mode = "random" => count[p] + 1 = Len(sent[p])
  /\ \A i \in DOMAIN sent[p] : sent[p][i] \in DOMAIN List(p)
  /\ \A e \in lost : e[1] = p => e[2] \in DOMAIN sent[p]

Bookkeeping == \A p \in Publisher : BookOf(p)

\* The inductive invariant: types, and the loops of the three modes keep count
\* of what they really sent, whatever raises or interrupts them in between.
PInv == TypeOK /\ Bookkeeping

\* Nothing that is wrong with a payload or the delay is passed over: a
\* publisher that goes on, or ends well, has met none of it, and one that
\* raises has sent at most one datagram since.
Sound(p, k) == List(p)[k].described /\ Args(p).delay >= 0

FailuresAreFinal ==
  \A p \in Publisher : \A i \in DOMAIN sent[p] :
    /\ List(p)[sent[p][i]].sendable
    /\ \/ Sound(p, sent[p][i])
       \/ i = Len(sent[p]) /\ stage[p] = "raised"

\* In manual mode the publisher sends what was chosen, in the order chosen,
\* each time it was chosen, whatever was typed in between or ahead: what it
\* sent are the lines that choose something, of those it read, without the
\* last of them if it raised.
Obeys(positions, lines, n, choices, raised) ==
  /\ n <= Len(lines)
  /\ \E at \in [DOMAIN positions -> 1 .. n] :
       /\ \A i, j \in DOMAIN positions : i < j => at[i] < at[j]
       /\ \A i \in DOMAIN positions : positions[i] = lines[at[i]] + 1
       /\ LET chosen == {j \in 1 .. n : lines[j] \in choices}
              served == {at[i] : i \in DOMAIN positions}
          IN served = chosen \/ (raised /\ served = chosen \ {n})

ManualObeys ==
  \A p \in Publisher : Args(p).mode = "manual" =>
    Obeys(sent[p], typed[p], read[p], 0 .. Len(List(p)) - 1, stage[p] = "raised")

\* A run that has an end comes to it, although others take the ports and the
\* server may be gone; and "exit" ends a manual run, whatever came before it.
RunsEnd ==
  \A p \in Publisher :
    (\/ Args(p).mode = "all_once"
     \/ Args(p).mode = "random" /\ Args(p).count # NotGiven
     \/ \E i \in DOMAIN typed[p] : typed[p][i] = Exit)
      ~> stage[p] \in Ended

-----------------------------------------------------------------------------
(***************************************************************************)
(* From the publishers to the notifications.                               *)
(***************************************************************************)

Positions(p, s) == {i \in DOMAIN s : s[i].by = p}
Joined(entries, rest) ==
  [i \in 1 .. Len(entries) + Len(rest) |->
     IF i <= Len(entries) THEN entries[i].datagram ELSE rest[i - Len(entries)]]
Arrived == Joined(log, queue)

\* Every datagram that was sent is in one place: lost, queued, or taken; and
\* those of one publisher come in the order it sent them, whoever else sends
\* in between and whichever ports change hands.
Conservation ==
  \A p \in Publisher :
    /\ \A n \in DOMAIN sent[p] :
         <<p, n>> \in lost <=> ~(\E i \in Positions(p, Arrived) : Arrived[i].nth = n)
    /\ \A i, j \in Positions(p, Arrived) : i < j => Arrived[i].nth < Arrived[j].nth
    /\ \A i \in Positions(p, Arrived) :
         /\ Arrived[i].nth \in DOMAIN sent[p]
         /\ Arrived[i].payload = List(p)[sent[p][Arrived[i].nth]]

\* A notification says what its own datagram says, and is dropped only if
\* the type or the sign cannot be known: nothing of the datagrams that went
\* through the buffer before is left in it.
AnnouncesWhatWasSent ==
  \A i \in DOMAIN log :
    LET datagram == log[i].datagram.payload.datagram IN
    IF Readable(datagram.rest)
    THEN /\ log[i].topic = datagram.topic
         /\ log[i].text # NoText /\ Denotes(log[i].text, datagram.rest)
    ELSE log[i].text = NoText

\* To the main loop this is the queue of topics it expects.
ItemOf(payload) ==
  IF Readable(payload.datagram.rest) THEN payload.datagram.topic ELSE Malformed

Announced ==
  [i \in 1 .. Len(log) + Len(queue) |->
     IF i > Len(log) THEN ItemOf(queue[i - Len(log)].payload)
     ELSE IF log[i].text = NoText THEN Malformed ELSE log[i].topic]

A == INSTANCE Arrivals WITH
       Item <- Topic \cup {Malformed}, arrived <- Announced, taken <- Len(log)

ImplementsArrivals == A!Spec
==============================================================================
