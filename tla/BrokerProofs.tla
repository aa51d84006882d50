---------------------------- MODULE BrokerProofs -----------------------------
(***************************************************************************)
(* The type invariant, the session invariant, the delivery invariant and   *)
(* the command invariant of Broker, for any number of processes, users and *)
(* descriptors and any choice of failing calls.                            *)
(*                                                                         *)
(* IInv is inductive.  The lemmas take the steps one by one: first the     *)
(* steps that only move the server's loop, then the login, the             *)
(* notification, the scan, and last the steps of the subscriber processes  *)
(* and of the network.  The second part, on delivery, goes by the parts of *)
(* DeliveryInv, which is inductive together with IInv: what one step does  *)
(* to what a process has received, and then each part in turn.  The third, *)
(* on commands, is CommandInv, inductive with IInv too: a step either is   *)
(* quiet, and every log keeps its account, or it lets a user enter, or it  *)
(* serves one command, whose entry in the log has that command as origin.  *)
(***************************************************************************)
EXTENDS Broker, SequenceTheorems, TLAPS

\* AddSubscription leaves the log a log: the two request handlers cannot put
\* anything else into the vector.
LEMMA AddSubscriptionType ==
  ASSUME NEW s \in Seq(Subscription), NEW e \in String, NEW on \in BOOLEAN
  PROVE  AddSubscription(s, e, on) \in Seq(Subscription)
<1>1. [expression |-> e, subscribed |-> on] \in Subscription
  BY DEF Subscription
<1>2. Append(s, [expression |-> e, subscribed |-> on]) \in Seq(Subscription)
  BY <1>1, AppendProperties
<1> QED
  BY <1>2 DEF AddSubscription

\* A log is its own beginning, and stays the beginning of what becomes of it.
LEMMA AddSubscriptionExtends ==
  ASSUME NEW s \in Seq(Subscription), NEW e \in String, NEW on \in BOOLEAN
  PROVE  /\ SubSeq(s, 1, Len(s)) = s
         /\ Len(s) <= Len(AddSubscription(s, e, on))
         /\ SubSeq(AddSubscription(s, e, on), 1, Len(s)) = s
<1> DEFINE r == [expression |-> e, subscribed |-> on]
           s2 == Append(s, r)
<1>1. Len(s) \in Nat /\ DOMAIN s = 1 .. Len(s)
  OBVIOUS
<1>2. SubSeq(s, 1, Len(s)) = s
  OBVIOUS
<1>3. /\ s2 \in Seq(Subscription) /\ Len(s2) = Len(s) + 1
      /\ \A i \in 1 .. Len(s) : s2[i] = s[i]
  <2>1. r \in Subscription
    BY DEF Subscription
  <2> QED
    BY <2>1, AppendProperties
<1>4. SubSeq(s2, 1, Len(s)) = s
  BY <1>1, <1>3
<1> QED
  BY <1>1, <1>2, <1>3, <1>4 DEF AddSubscription

\* In the initial state nobody is connected.
LEMMA InitCorrect == Init => IInv
<1> SUFFICES ASSUME Init PROVE IInv
  OBVIOUS
<1> USE DEF Init, NetworkInit, ServerInit, SubscriberInit
<1>1. TypeOK
  <2>1. NetworkTypeOK
    BY DEF NetworkTypeOK, SocketState
  <2>2. ServerTypeOK
    <3>1. [active |-> FALSE, fd |-> NoFd, subscriptions |-> <<>>] \in User
      BY DEF User
    <3>2. pollfds \in Seq(PollFd) /\ arrived \in Seq(Topic \cup {Malformed})
      OBVIOUS
    <3>3. exitTyped \in BOOLEAN
      OBVIOUS
    <3> QED
      BY <3>1, <3>2, <3>3 DEF ServerTypeOK
  <2>3. SubscriberTypeOK
    BY DEF SubscriberTypeOK
  <2> QED
    BY <2>1, <2>2, <2>3 DEF TypeOK
<1>2. TableExact /\ FdUserBijection /\ TableFits /\ RefusalIsSafe /\ FramesInPlace
  BY FdAssumption DEF TableExact, FdUserBijection, TableFits, RefusalIsSafe,
     FramesInPlace, nfds
<1>3. ConnfdExact /\ PolledOpen /\ QueueExact /\ NothingSentYet
  BY FdAssumption DEF ConnfdExact, PolledOpen, QueueExact, NothingSentYet, Queued
<1>4. ProcessExact /\ IntroducedFirst /\ UsersKnown
  BY FdAssumption DEF ProcessExact, IntroducedFirst, UsersKnown, Queued, Introduced
<1> QED
  BY <1>1, <1>2, <1>3, <1>4 DEF IInv, SessionInv

-----------------------------------------------------------------------------
\* A step that leaves connections, tables and processes as they are and only
\* moves the loop, not into or out of a login unless to stop, keeps the
\* session invariant when the branch it moves to finds what it takes.
LEMMA LoopMove ==
  ASSUME SessionInv, ~Ended,
         UNCHANGED <<network, conn, connfd, maxSize, tables, subscriber>>,
         DOMAIN pollfds' = DOMAIN pollfds, Len(pollfds') = Len(pollfds),
         \A i \in DOMAIN pollfds : pollfds'[i].fd = pollfds[i].fd,
         \/ pc' = pc
         \/ pc' = "free"
         \/ pc \notin {"register", "login", "free"} /\ pc' \notin {"register", "login"},
         pc' = "accept" => backlog # <<>>,
         taken' <= Len(arrived'),
         pc' = "udp" => taken' < Len(arrived'),
         pc' = "fanout" => \A u \in todo' : userSubscriptions[u].active
  PROVE  SessionInv'
<1> USE DEF SessionInv, network, tables, subscriber, Ended
<1>1. TableExact'
  BY DEF TableExact, Polled
<1>2. FdUserBijection'
  BY DEF FdUserBijection
<1>3. TableFits' /\ RefusalIsSafe' /\ FramesInPlace'
  BY DEF TableFits, nfds, RefusalIsSafe, FramesInPlace
<1>4. ConnfdExact' /\ PolledOpen'
  BY DEF ConnfdExact, PolledOpen
<1>5. QueueExact' /\ NothingSentYet'
  BY DEF QueueExact, NothingSentYet, Queued
<1>6. ProcessExact'
  BY DEF ProcessExact, Queued
<1>7. IntroducedFirst'
  BY DEF IntroducedFirst, Queued, Introduced
<1>8. UsersKnown'
  BY DEF UsersKnown
<1> QED
  BY <1>1, <1>2, <1>3, <1>4, <1>5, <1>6, <1>7, <1>8

\* poll looks at everything and changes only what it saw.
LEMMA PollKeeps ==
  ASSUME IInv, Poll, UNCHANGED subscriber
  PROVE  IInv'
<1> USE DEF Poll
<1>1. ~Ended
  BY DEF Ended
<1>2. /\ DOMAIN pollfds' = DOMAIN pollfds /\ Len(pollfds') = Len(pollfds)
      /\ pollfds' \in Seq(PollFd)
      /\ \A i \in DOMAIN pollfds : pollfds'[i].fd = pollfds[i].fd
  <2>1. pollfds \in Seq(PollFd) /\ Len(pollfds) \in Nat /\ DOMAIN pollfds = 1 .. Len(pollfds)
    BY DEF IInv, TypeOK, ServerTypeOK
  <2>2. \A i \in DOMAIN pollfds : pollfds[i] \in PollFd
    BY <2>1
  <2>3. \A i \in DOMAIN pollfds :
           [pollfds[i] EXCEPT !.pollin = FdReadable(pollfds[i].fd)] \in PollFd
    BY <2>2 DEF PollFd, FdReadable
  <2> QED
    BY <2>1, <2>2, <2>3 DEF PollFd
<1>3. TypeOK'
  <2>1. exitTyped' \in BOOLEAN
    BY DEF IInv, TypeOK, ServerTypeOK
  <2>2. ServerTypeOK'
    BY <1>2, <2>1 DEF IInv, TypeOK, ServerTypeOK, network, tables, udp
  <2> QED
    BY <2>2 DEF IInv, TypeOK, NetworkTypeOK, SubscriberTypeOK, network, subscriber
<1>4. SessionInv'
  BY <1>1, <1>2, LoopMove DEF IInv, SessionInv, QueueExact, network, tables, udp, TypeOK, ServerTypeOK
<1> QED
  BY <1>3, <1>4 DEF IInv

\* Standard input, a failing accept, the end of a scan and a signal only say
\* where the loop goes on.
LEMMA TurnKeeps ==
  ASSUME IInv, Stdin \/ AcceptFails \/ ScanDone \/ Signal, UNCHANGED subscriber
  PROVE  IInv'
<1> USE DEF Stdin, AcceptFails, ScanDone, Signal
<1>1. ~Ended
  BY DEF Ended
<1>2. TypeOK'
  <2> USE DEF IInv, TypeOK, NetworkTypeOK, ServerTypeOK, SubscriberTypeOK, network,
              tables, udp, subscriber
  <2>1. CASE Stdin
    <3>1. exitTyped' \in BOOLEAN
      BY <2>1
    <3> QED
      BY <2>1, <3>1
  <2>2. CASE AcceptFails
    BY <2>2
  <2>3. CASE ScanDone
    BY <2>3
  <2>4. CASE Signal
    BY <2>4
  <2> QED
    BY <2>1, <2>2, <2>3, <2>4
<1>3. taken' = taken /\ arrived' = arrived /\ taken <= Len(arrived)
  BY <1>1 DEF IInv, SessionInv, QueueExact, udp
<1>4. /\ UNCHANGED <<network, conn, connfd, maxSize, tables, subscriber>>
      /\ pollfds' = pollfds
  OBVIOUS
<1>5. /\ \/ pc' = "free"
         \/ pc \notin {"register", "login", "free"} /\ pc' \notin {"register", "login"}
      /\ pc' \notin {"accept", "udp", "fanout"}
  OBVIOUS
<1>6. SessionInv'
  <2> HIDE DEF Stdin, AcceptFails, ScanDone, Signal
  <2>1. /\ DOMAIN pollfds' = DOMAIN pollfds /\ Len(pollfds') = Len(pollfds)
        /\ \A i \in DOMAIN pollfds : pollfds'[i].fd = pollfds[i].fd
        /\ taken' <= Len(arrived')
    BY <1>3, <1>4
  <2> QED
    BY <1>1, <1>4, <1>5, <2>1, LoopMove DEF IInv
<1> QED
  BY <1>2, <1>6 DEF IInv

\* Datagrams and "exit" only wait to be read.
LEMMA ArrivalKeeps ==
  ASSUME IInv, Arrive \/ TypeExit, UNCHANGED subscriber
  PROVE  IInv'
<1> USE DEF Arrive, TypeExit
<1>1. ~Ended
  BY DEF Ended
<1>2. /\ arrived' \in Seq(Topic \cup {Malformed})
      /\ Len(arrived) <= Len(arrived') /\ Len(arrived) \in Nat /\ Len(arrived') \in Nat
      /\ taken \in Nat
  <2>1. taken \in Nat /\ arrived \in Seq(Topic \cup {Malformed})
    BY DEF IInv, TypeOK, ServerTypeOK
  <2>2. CASE Arrive
    BY <2>1, <2>2
  <2>3. CASE TypeExit
    BY <2>1, <2>3 DEF udp
  <2> QED
    BY <2>1, <2>2, <2>3
<1>3. TypeOK'
  BY <1>2 DEF IInv, TypeOK, NetworkTypeOK, ServerTypeOK, SubscriberTypeOK, network,
     tables, udp, subscriber
<1>4. taken' = taken /\ taken <= Len(arrived) /\ (pc' = "udp" => taken < Len(arrived))
  BY <1>1 DEF IInv, SessionInv, QueueExact, udp
<1>5. pc' = "fanout" => \A u \in todo' : userSubscriptions[u].active
  BY <1>1 DEF IInv, SessionInv, UsersKnown
<1>6. pc' = pc /\ (pc' = "accept" => backlog # <<>>)
  BY <1>1 DEF IInv, SessionInv, QueueExact
<1>7. /\ UNCHANGED <<network, conn, connfd, maxSize, tables, subscriber>>
      /\ pollfds' = pollfds
  OBVIOUS
<1>8. SessionInv'
  <2> HIDE DEF Arrive, TypeExit
  <2>1. /\ DOMAIN pollfds' = DOMAIN pollfds /\ Len(pollfds') = Len(pollfds)
        /\ \A i \in DOMAIN pollfds : pollfds'[i].fd = pollfds[i].fd
    BY <1>7
  <2>2. taken' <= Len(arrived') /\ (pc' = "udp" => taken' < Len(arrived'))
    BY <1>2, <1>4
  <2> QED
    BY <1>1, <1>5, <1>6, <1>7, <2>1, <2>2, LoopMove DEF IInv
<1> QED
  BY <1>3, <1>8 DEF IInv

\* A datagram is taken, and only users who are logged in are selected.
LEMMA UdpKeeps ==
  ASSUME IInv, Udp, UNCHANGED subscriber
  PROVE  IInv'
<1> USE DEF Udp
<1>1. ~Ended
  BY DEF Ended
<1>2. /\ taken \in Nat /\ Len(arrived) \in Nat /\ taken < Len(arrived)
      /\ \A u \in todo' : u \in userIdSet /\ userSubscriptions[u].active
  BY DEF IInv, TypeOK, ServerTypeOK, SessionInv, QueueExact, GetMatch, Ended
<1>3. TypeOK'
  BY <1>2 DEF IInv, TypeOK, NetworkTypeOK, ServerTypeOK, SubscriberTypeOK, network,
     tables, udp, subscriber
<1>4. SessionInv'
  BY <1>1, <1>2, LoopMove DEF IInv, network, tables, udp
<1> QED
  BY <1>3, <1>4 DEF IInv

-----------------------------------------------------------------------------
\* The oldest queued connection gets a descriptor nobody uses.
LEMMA AcceptKeeps ==
  ASSUME IInv, Accept, UNCHANGED subscriber
  PROVE  IInv'
<1> USE DEF Accept, Ended
<1>1. /\ TypeOK /\ SessionInv
      /\ pc = "accept" /\ pc' = "register" /\ backlog # <<>> /\ connfd = NoFd
  BY DEF IInv, SessionInv, QueueExact, ConnfdExact
<1>2. /\ backlog \in Seq(Proc) /\ Len(backlog) \in Nat /\ Len(backlog) >= 1
      /\ Head(backlog) = backlog[1] /\ backlog[1] \in Proc
      /\ backlog' = Tail(backlog) /\ backlog' \in Seq(Proc)
      /\ Len(backlog') = Len(backlog) - 1
      /\ \A i \in DOMAIN backlog' : backlog'[i] = backlog[i+1] /\ i+1 \in DOMAIN backlog
  BY <1>1 DEF TypeOK, NetworkTypeOK
<1>3. PICK f \in Fd : /\ conn[f] = NoProc /\ connfd' = f
                      /\ conn' = [conn EXCEPT ![f] = backlog[1]]
  BY <1>2
<1>4. TypeOK'
  BY <1>1, <1>2, <1>3 DEF TypeOK, NetworkTypeOK, ServerTypeOK, SubscriberTypeOK,
     tables, udp, subscriber
<1>5. /\ conn \in [Fd -> Proc \cup {NoProc}]
      /\ fdsToUsers' = fdsToUsers /\ pollfds' = pollfds
      /\ \A g \in Fd : conn'[g] = IF g = f THEN backlog[1] ELSE conn[g]
      /\ backlog[1] # NoProc /\ 1 \in DOMAIN backlog
  BY <1>1, <1>2, <1>3, NoProcAssumption DEF TypeOK, ServerTypeOK, tables
<1>6. Queued(backlog[1]) /\ \A g \in Fd : conn[g] # backlog[1]
  BY <1>1, <1>5 DEF SessionInv, QueueExact, Queued
<1>7. TableExact'
  <2>1. f # NoFd /\ fdsToUsers[f] = NoUser
    BY <1>1, <1>3, <1>5, FdAssumption DEF SessionInv, TableExact
  <2>2. \A g \in Fd : conn'[g] # NoProc <=> fdsToUsers'[g] # NoUser \/ g = connfd'
    BY <1>1, <1>3, <1>5, <2>1, FdAssumption DEF SessionInv, TableExact
  <2>3. \A g, h \in Fd : conn'[g] = conn'[h] /\ conn'[g] # NoProc => g = h
    BY <1>1, <1>5, <1>6 DEF SessionInv, TableExact
  <2> QED
    BY <1>1, <1>5, <2>2, <2>3 DEF SessionInv, TableExact, Polled
<1>8. FdUserBijection'
  BY <1>1, <1>3, <1>5 DEF SessionInv, FdUserBijection, TableExact, TypeOK, ServerTypeOK,
     tables
<1>9. TableFits' /\ FramesInPlace'
  BY <1>1, <1>3, <1>5 DEF SessionInv, TableFits, nfds, FramesInPlace, TableExact
<1>10. RefusalIsSafe'
  BY <1>1, <1>2, <1>3, <1>5, <1>6 DEF SessionInv, RefusalIsSafe, NothingSentYet
<1>11. ConnfdExact' /\ PolledOpen'
  BY <1>1, <1>2, <1>3, <1>5, FdAssumption DEF SessionInv, ConnfdExact, PolledOpen,
     TableExact, TypeOK, ServerTypeOK
<1>12. QueueExact' /\ NothingSentYet'
  <2>1. QueueExact'
    BY <1>1, <1>2, <1>3, <1>5, <1>6 DEF SessionInv, QueueExact, Queued, udp
  <2>2. \A p \in Proc : Queued(p)' => Queued(p)
    BY <1>2 DEF Queued
  <2>3. toClient[backlog[1]] = <<>> /\ conn'[connfd'] = backlog[1]
    BY <1>1, <1>2, <1>3, <1>5, <1>6 DEF SessionInv, NothingSentYet
  <2>4. NothingSentYet'
    BY <1>1, <2>2, <2>3 DEF SessionInv, NothingSentYet, subscriber
  <2> QED
    BY <2>1, <2>4
<1>13. ProcessExact'
  BY <1>1, <1>2, <1>3, <1>5, <1>6 DEF SessionInv, ProcessExact, Queued, subscriber, TableExact
<1>14. IntroducedFirst'
  <2>1. \A p \in Proc : Introduced(p)' <=> Introduced(p)
    BY DEF Introduced, subscriber
  <2>2. \A p \in Proc : Queued(p)' => Queued(p)
    BY <1>2 DEF Queued
  <2> QED
    BY <1>1, <1>2, <1>3, <1>5, <1>6, <2>1, <2>2 DEF SessionInv, IntroducedFirst
<1>15. UsersKnown'
  BY <1>1 DEF SessionInv, UsersKnown, tables
<1> QED
  BY <1>4, <1>7, <1>8, <1>9, <1>10, <1>11, <1>12, <1>13, <1>14, <1>15 DEF IInv, SessionInv

\* The table grows by the descriptor being set up, and only when it is full
\* is it enlarged, twofold.
LEMMA AddFdKeeps ==
  ASSUME IInv, AddFd, UNCHANGED subscriber
  PROVE  IInv'
<1> USE DEF AddFd, Ended
<1>1. /\ TypeOK /\ SessionInv
      /\ pc = "register" /\ pc' = "login" /\ connfd \in Fd /\ connfd' = connfd
      /\ conn' = conn /\ fdsToUsers' = fdsToUsers
  BY DEF IInv, SessionInv, ConnfdExact, tables
<1>2. PICK e \in PollFd : e.fd = connfd /\ pollfds' = Append(pollfds, e)
  BY <1>1 DEF PollFd
<1>3. /\ pollfds \in Seq(PollFd) /\ Len(pollfds) \in Nat /\ DOMAIN pollfds = 1 .. Len(pollfds)
      /\ pollfds' \in Seq(PollFd) /\ Len(pollfds') = Len(pollfds) + 1
      /\ DOMAIN pollfds' = 1 .. Len(pollfds) + 1
      /\ \A i \in DOMAIN pollfds : pollfds'[i] = pollfds[i]
      /\ pollfds'[Len(pollfds) + 1] = e
      /\ maxSize \in Nat
  BY <1>1, <1>2 DEF TypeOK, ServerTypeOK
<1>4. TypeOK'
  <2>1. ServerTypeOK'
    <3>1. maxSize' \in Nat /\ exitTyped' \in BOOLEAN
      BY <1>1, <1>3 DEF TypeOK, ServerTypeOK
    <3> QED
      BY <1>1, <1>3, <3>1 DEF TypeOK, ServerTypeOK, tables, udp
  <2> QED
    BY <1>1, <2>1 DEF TypeOK, NetworkTypeOK, SubscriberTypeOK, network, subscriber
<1>5. TableExact'
  <2>1. \A i, j \in DOMAIN pollfds' : pollfds'[i].fd = pollfds'[j].fd => i = j
    BY <1>1, <1>2, <1>3 DEF SessionInv, TableExact, PolledOpen
  <2>2. \A f \in Polled : f \in Polled'
    BY <1>3 DEF Polled
  <2> QED
    BY <1>1, <2>1, <2>2 DEF SessionInv, TableExact
<1>6. TableFits'
  BY <1>1, <1>3 DEF SessionInv, TableFits, nfds
<1>7. PolledOpen'
  BY <1>1, <1>2, <1>3 DEF SessionInv, PolledOpen, ConnfdExact
<1>8. FdUserBijection' /\ RefusalIsSafe' /\ FramesInPlace' /\ ConnfdExact'
  BY <1>1 DEF SessionInv, FdUserBijection, RefusalIsSafe, FramesInPlace, ConnfdExact,
     network, tables
<1>9. QueueExact' /\ NothingSentYet' /\ UsersKnown'
  BY <1>1 DEF SessionInv, QueueExact, NothingSentYet, Queued, UsersKnown, network, tables, udp,
     subscriber
<1>10. ProcessExact' /\ IntroducedFirst'
  BY <1>1 DEF SessionInv, ProcessExact, IntroducedFirst, Introduced, Queued, network,
     subscriber
<1> QED
  BY <1>4, <1>5, <1>6, <1>7, <1>8, <1>9, <1>10 DEF IInv, SessionInv

\* Closing a descriptor changes the two ends of its connection and drops what
\* was not read.
LEMMA CloseEffect ==
  ASSUME TypeOK, NEW p \in Proc, NEW n \in Nat, Close(p, n)
  PROVE  /\ srvSock' = [srvSock EXCEPT ![p] = "closed"]
         /\ toServer' = [toServer EXCEPT ![p] = <<>>]
         /\ cliSock' \in [Proc -> SocketState]
         /\ backlog' = backlog
         /\ \A q \in Proc \ {p} : /\ srvSock'[q] = srvSock[q] /\ cliSock'[q] = cliSock[q]
                                  /\ toServer'[q] = toServer[q]
<1>1. PICK s \in PeerAfterClose(cliSock[p], Len(toServer[p]) > n) :
         cliSock' = [cliSock EXCEPT ![p] = s]
  BY DEF Close
<1>2. cliSock \in [Proc -> SocketState] /\ srvSock \in [Proc -> SocketState]
  BY DEF TypeOK, NetworkTypeOK
<1>3. toServer \in [Proc -> Seq(IdFrame \cup Request)]
  BY DEF TypeOK
<1>4. s \in SocketState
  BY <1>1, <1>2 DEF PeerAfterClose, SocketState
<1>5. cliSock' \in [Proc -> SocketState] /\ \A q \in Proc \ {p} : cliSock'[q] = cliSock[q]
  BY <1>1, <1>2, <1>4
<1>6. /\ srvSock' = [srvSock EXCEPT ![p] = "closed"]
      /\ toServer' = [toServer EXCEPT ![p] = <<>>]
      /\ backlog' = backlog
  BY DEF Close
<1>7. \A q \in Proc \ {p} : srvSock'[q] = srvSock[q] /\ toServer'[q] = toServer[q]
  BY <1>2, <1>3, <1>6
<1> QED
  BY <1>5, <1>6, <1>7

\* A connection is given up before its login: either it is not in the table
\* yet, or removeLast takes it out.
LEMMA DropKeeps ==
  ASSUME IInv, NEW n \in Nat, Drop(n), UNCHANGED subscriber,
         toClient' \in [Proc -> Seq(Nat)],
         \A q \in Proc \ {conn[connfd]} : toClient'[q] = toClient[q],
         \/ pc = "register" /\ pollfds' = pollfds
         \/ pc = "login" /\ RemoveLast
  PROVE  IInv'
<1> USE DEF Drop, Ended
<1>1. /\ TypeOK /\ SessionInv
      /\ pc \in {"register", "login"} /\ pc' = "poll" /\ connfd \in Fd /\ connfd' = NoFd
      /\ fdsToUsers' = fdsToUsers /\ backlog' = backlog
  BY DEF IInv, SessionInv, ConnfdExact, tables, Close
<1> DEFINE p == conn[connfd]
<1>2. /\ conn \in [Fd -> Proc \cup {NoProc}] /\ p \in Proc
      /\ conn' = [conn EXCEPT ![connfd] = NoProc]
      /\ \A f \in Fd : conn'[f] = IF f = connfd THEN NoProc ELSE conn[f]
      /\ fdsToUsers[connfd] = NoUser
      /\ \A f \in Fd : conn[f] = p => f = connfd
  BY <1>1 DEF TypeOK, ServerTypeOK, SessionInv, ConnfdExact, TableExact
<1>3. ~Queued(p)
  BY <1>1 DEF SessionInv, QueueExact
<1>4. /\ pollfds \in Seq(PollFd) /\ Len(pollfds) \in Nat /\ DOMAIN pollfds = 1 .. Len(pollfds)
      /\ pollfds' \in Seq(PollFd) /\ Len(pollfds') \in Nat /\ Len(pollfds') <= Len(pollfds)
      /\ DOMAIN pollfds' \subseteq DOMAIN pollfds
      /\ \A i \in DOMAIN pollfds' : pollfds'[i] = pollfds[i] /\ pollfds[i].fd # connfd
      /\ \A i \in DOMAIN pollfds : pollfds[i].fd # connfd => i \in DOMAIN pollfds'
  <2>1. pollfds \in Seq(PollFd) /\ Len(pollfds) \in Nat /\ DOMAIN pollfds = 1 .. Len(pollfds)
    BY <1>1 DEF TypeOK, ServerTypeOK
  <2>2. CASE pc = "register" /\ pollfds' = pollfds
    BY <1>1, <2>1, <2>2 DEF SessionInv, PolledOpen
  <2>3. CASE pc = "login" /\ RemoveLast
    <3>1. Len(pollfds) > 0 /\ pollfds[Len(pollfds)].fd = connfd
      BY <1>1, <2>3 DEF SessionInv, PolledOpen
    <3>2. /\ pollfds' \in Seq(PollFd) /\ Len(pollfds') = Len(pollfds) - 1
          /\ DOMAIN pollfds' = 1 .. Len(pollfds) - 1
          /\ \A i \in DOMAIN pollfds' : pollfds'[i] = pollfds[i]
      BY <2>1, <2>3, <3>1 DEF RemoveLast
    <3>3. \A i \in DOMAIN pollfds : pollfds[i].fd = connfd <=> i = Len(pollfds)
      <4>1. \A i, j \in DOMAIN pollfds : pollfds[i].fd = pollfds[j].fd => i = j
        BY <1>1 DEF SessionInv, TableExact
      <4>2. Len(pollfds) \in DOMAIN pollfds
        BY <2>1, <3>1
      <4> QED
        BY <3>1, <4>1, <4>2
    <3> QED
      BY <2>1, <3>1, <3>2, <3>3
  <2> QED
    BY <2>2, <2>3
<1>5. /\ srvSock' = [srvSock EXCEPT ![p] = "closed"]
      /\ toServer' = [toServer EXCEPT ![p] = <<>>]
      /\ cliSock' \in [Proc -> SocketState]
      /\ \A q \in Proc \ {p} : /\ srvSock'[q] = srvSock[q] /\ cliSock'[q] = cliSock[q]
                               /\ toServer'[q] = toServer[q]
  BY <1>1, <1>2, CloseEffect DEF Drop
<1>6. TypeOK'
  <2>1. toServer' \in [Proc -> Seq(IdFrame \cup Request)]
    <3>1. toServer \in [Proc -> Seq(IdFrame \cup Request)] /\ <<>> \in Seq(IdFrame \cup Request)
      BY <1>1 DEF TypeOK
    <3> QED
      BY <1>5, <3>1
  <2>2. NetworkTypeOK'
    BY <1>1, <1>5 DEF TypeOK, NetworkTypeOK, SocketState
  <2>3. ServerTypeOK'
    BY <1>1, <1>2, <1>4 DEF TypeOK, ServerTypeOK, tables, udp
  <2> QED
    BY <1>1, <2>1, <2>2, <2>3 DEF TypeOK, SubscriberTypeOK, subscriber
<1>7. TableExact'
  <2>1. \A f \in Polled : f # connfd => f \in Polled'
    BY <1>4 DEF Polled
  <2>2. \A f \in Fd : fdsToUsers'[f] # NoUser => f \in Polled'
    BY <1>1, <1>2, <2>1 DEF SessionInv, TableExact
  <2>3. \A f \in Fd : conn'[f] # NoProc <=> fdsToUsers'[f] # NoUser \/ f = connfd'
    BY <1>1, <1>2, FdAssumption DEF SessionInv, TableExact
  <2>4. \A i, j \in DOMAIN pollfds' : pollfds'[i].fd = pollfds'[j].fd => i = j
    BY <1>1, <1>4 DEF SessionInv, TableExact
  <2> QED
    BY <1>1, <1>2, <2>2, <2>3, <2>4 DEF SessionInv, TableExact
<1>8. FdUserBijection'
  BY <1>1, <1>2 DEF SessionInv, FdUserBijection, tables
<1>9. TableFits' /\ RefusalIsSafe'
  BY <1>1, <1>4 DEF SessionInv, TableFits, RefusalIsSafe, nfds, TypeOK, ServerTypeOK
<1>10. FramesInPlace'
  <2> SUFFICES ASSUME NEW f \in Fd, fdsToUsers[f] # NoUser
               PROVE  \A k \in DOMAIN toServer'[conn'[f]] : toServer'[conn'[f]][k] \in Request
    BY <1>1 DEF FramesInPlace
  <2>1. f # connfd /\ conn[f] \in Proc \ {p} /\ conn'[f] = conn[f]
    BY <1>1, <1>2 DEF SessionInv, TableExact
  <2>2. toServer'[conn'[f]] = toServer[conn[f]]
    BY <1>5, <2>1
  <2>3. \A k \in DOMAIN toServer[conn[f]] : toServer[conn[f]][k] \in Request
    BY <1>1 DEF SessionInv, FramesInPlace
  <2> QED
    BY <2>2, <2>3
<1>11. ConnfdExact' /\ UsersKnown'
  BY <1>1, FdAssumption DEF SessionInv, ConnfdExact, UsersKnown, tables
<1>12. PolledOpen'
  BY <1>1, <1>2, <1>4 DEF SessionInv, PolledOpen, PollFd
<1>13. QueueExact' /\ NothingSentYet'
  <2>1. \A q : Queued(q)' => Queued(q) /\ q \in Proc /\ q # p
    BY <1>1, <1>3 DEF Queued, TypeOK, NetworkTypeOK
  <2>2. \A f \in Fd : ~Queued(conn[f])'
    <3> SUFFICES ASSUME NEW f \in Fd, Queued(conn[f])' PROVE FALSE
      OBVIOUS
    <3>1. /\ Queued(conn'[f]) /\ conn'[f] \in Proc
      BY <1>1, <2>1 DEF Queued, TypeOK, NetworkTypeOK
    <3> QED
      BY <1>1, <1>2, <3>1, NoProcAssumption DEF SessionInv, QueueExact
  <2>3. QueueExact'
    BY <1>1, <2>2 DEF SessionInv, QueueExact, udp
  <2>4. client[p] # "idle"
    BY <1>1, <1>2, NoProcAssumption DEF SessionInv, ProcessExact
  <2>5. NothingSentYet'
    <3>1. NothingSentYet /\ pc' = "poll" /\ client' = client
      BY <1>1 DEF SessionInv, subscriber
    <3>2. \A q \in Proc \ {p} : srvSock'[q] = srvSock[q] /\ toClient'[q] = toClient[q]
      BY <1>5
    <3> HIDE DEF Drop, Ended, p
    <3> QED
      BY <2>1, <2>4, <3>1, <3>2 DEF NothingSentYet
  <2> QED
    BY <2>3, <2>5
<1>14. ProcessExact'
  <2>1. \A q \in Proc : Queued(q)' => Queued(q) /\ q # p
    BY <1>1, <1>3 DEF Queued
  <2>2. \A f \in Fd : conn'[f] # NoProc => conn[f] \in Proc \ {p} /\ conn'[f] = conn[f] /\ f # connfd
    BY <1>2
  <2>3. client' = client
    BY DEF subscriber
  <2>4. \A q \in Proc : toServer[q] = <<>> => toServer'[q] = <<>>
    BY <1>1, <1>5 DEF TypeOK
  <2>5. \A f \in Fd : fdsToUsers'[f] # NoUser => fdsToUsers[f] # NoUser /\ conn'[f] # NoProc
    BY <1>1, <1>2 DEF SessionInv, TableExact
  <2>6. ProcessExact /\ \A q \in Proc \ {p} : cliSock'[q] = cliSock[q]
    BY <1>1, <1>5 DEF SessionInv
  <2> HIDE DEF Drop, Ended, p
  <2> QED
    BY <2>1, <2>2, <2>3, <2>4, <2>5, <2>6 DEF ProcessExact
<1>15. IntroducedFirst'
  <2>1. \A q \in Proc : Queued(q)' => Queued(q) /\ q # p
    BY <1>1, <1>3 DEF Queued
  <2>2. \A q \in Proc \ {p} : Introduced(q)' <=> Introduced(q)
    BY <1>5 DEF Introduced, subscriber
  <2> QED
    BY <1>1, <2>1, <2>2, FdAssumption DEF SessionInv, IntroducedFirst
<1> QED
  BY <1>6, <1>7, <1>8, <1>9, <1>10, <1>11, <1>12, <1>13, <1>14, <1>15 DEF IInv, SessionInv

\* The four ways to give a connection up.
LEMMA RefusalKeeps ==
  ASSUME IInv, SetsockoptFails \/ AddFdFails \/ LoginRefused \/ LoginInvalid,
         UNCHANGED subscriber
  PROVE  IInv'
<1>1. pc \in {"register", "login"} => connfd \in Fd /\ conn[connfd] \in Proc
  BY DEF IInv, SessionInv, ConnfdExact, TypeOK, ServerTypeOK, Ended
<1>2. CASE SetsockoptFails
  BY <1>2, DropKeeps DEF SetsockoptFails, IInv, TypeOK
<1>3. ASSUME NEW n \in Nat, pc \in {"register", "login"}, Refuse(n)
      PROVE  /\ toClient' \in [Proc -> Seq(Nat)]
             /\ \A q \in Proc \ {conn[connfd]} : toClient'[q] = toClient[q]
  BY <1>1, <1>3 DEF Refuse, Delivered, Shutdown, IInv, TypeOK
<1>4. CASE AddFdFails
  BY <1>3, <1>4, DropKeeps DEF AddFdFails, Refuse
<1>5. CASE LoginRefused
  BY <1>3, <1>5, DropKeeps DEF LoginRefused, Refuse, IdReceived
<1>6. CASE LoginInvalid
  BY <1>3, <1>6, DropKeeps DEF LoginInvalid, Refuse
<1> QED
  BY <1>2, <1>4, <1>5, <1>6

\* A session begins: the id read is the process's own, its user was not
\* logged in, and what is left to read are commands.
LEMMA EnterKeeps ==
  ASSUME IInv, NEW u \in UserId, NEW log \in Seq(Subscription),
         IdReceived(u), ~userSubscriptions[u].active, Enter(u, log),
         UNCHANGED subscriber
  PROVE  IInv'
<1> USE DEF IdReceived, Enter, Taken, Ended
<1> DEFINE p == conn[connfd]
<1>1. /\ TypeOK /\ SessionInv
      /\ pc = "login" /\ pc' = "poll" /\ connfd \in Fd /\ connfd' = NoFd
      /\ conn' = conn /\ backlog' = backlog /\ pollfds' = pollfds /\ srvSock' = srvSock
      /\ cliSock' = cliSock /\ client' = client /\ toClient' = toClient
  BY DEF IInv, SessionInv, ConnfdExact, subscriber
<1>2. /\ conn \in [Fd -> Proc \cup {NoProc}] /\ p \in Proc
      /\ fdsToUsers[connfd] = NoUser
      /\ \A f \in Fd : conn[f] = p => f = connfd
      /\ ~Queued(p)
  BY <1>1 DEF TypeOK, ServerTypeOK, SessionInv, ConnfdExact, TableExact, QueueExact
<1>3. /\ toServer \in [Proc -> Seq(IdFrame \cup Request)]
      /\ toServer[p] \in Seq(IdFrame \cup Request) /\ toServer[p] # <<>>
      /\ toServer' = [toServer EXCEPT ![p] = Tail(@)]
      /\ toServer'[p] = Tail(toServer[p])
      /\ \A q \in Proc \ {p} : toServer'[q] = toServer[q]
      /\ toServer[p][1] = [id |-> u]
  BY <1>1, <1>2 DEF TypeOK
<1>4. u = IdOf[p] /\ \A k \in DOMAIN toServer'[p] : toServer'[p][k] \in Request
  <2>1. Introduced(p)
    BY <1>1, <1>2 DEF SessionInv, IntroducedFirst
  <2>2. [id |-> u] = [id |-> IdOf[p]] /\ \A k \in 2 .. Len(toServer[p]) : toServer[p][k] \in Request
    BY <1>3, <2>1 DEF Introduced
  <2>3. u = IdOf[p]
    <3>1. [id |-> u].id = [id |-> IdOf[p]].id
      BY <2>2
    <3> QED
      BY <3>1
  <2>4. /\ Len(toServer[p]) \in Nat /\ Len(Tail(toServer[p])) = Len(toServer[p]) - 1
        /\ DOMAIN Tail(toServer[p]) = 1 .. Len(toServer[p]) - 1
        /\ \A k \in DOMAIN Tail(toServer[p]) : Tail(toServer[p])[k] = toServer[p][k+1]
    BY <1>3
  <2>5. ASSUME NEW k \in DOMAIN Tail(toServer[p])
        PROVE  Tail(toServer[p])[k] \in Request
    <3>1. k + 1 \in 2 .. Len(toServer[p])
      BY <2>4
    <3> QED
      BY <2>2, <2>4, <3>1
  <2> QED
    BY <1>3, <2>3, <2>5
<1>5. /\ userSubscriptions' = [userSubscriptions EXCEPT ![u] =
             [active |-> TRUE, fd |-> connfd, subscriptions |-> log]]
      /\ userSubscriptions'[u].active /\ userSubscriptions'[u].fd = connfd
      /\ \A v \in UserId \ {u} : userSubscriptions'[v] = userSubscriptions[v]
      /\ \A f \in Fd : fdsToUsers'[f] = IF f = connfd THEN u ELSE fdsToUsers[f]
      /\ fdsToUsers' \in [Fd -> UserId \cup {NoUser}]
      /\ u # NoUser
  BY <1>1, IdAssumption DEF TypeOK, ServerTypeOK
<1>6. TypeOK'
  <2>1. [active |-> TRUE, fd |-> connfd, subscriptions |-> log] \in User
    BY <1>1 DEF User
  <2>2. ServerTypeOK'
    BY <1>1, <1>5, <2>1, <1>2 DEF TypeOK, ServerTypeOK, udp
  <2>3. toServer' \in [Proc -> Seq(IdFrame \cup Request)]
    <3>1. Tail(toServer[p]) \in Seq(IdFrame \cup Request)
      BY <1>3, HeadTailProperties
    <3> QED
      BY <1>2, <1>3, <3>1
  <2> QED
    BY <1>1, <2>2, <2>3 DEF TypeOK, NetworkTypeOK, SubscriberTypeOK, subscriber
<1>7. TableExact'
  <2>1. connfd \in Polled
    BY <1>1 DEF SessionInv, PolledOpen, Polled, TypeOK, ServerTypeOK
  <2>2. Polled' = Polled
    BY <1>1 DEF Polled
  <2> QED
    BY <1>1, <1>2, <1>5, <2>1, <2>2, FdAssumption DEF SessionInv, TableExact
<1>8. FdUserBijection'
  <2>1. \A f \in Fd : fdsToUsers[f] # u
    BY <1>1, <1>5 DEF SessionInv, FdUserBijection
  <2>2. ASSUME NEW v \in UserId, userSubscriptions'[v].active
        PROVE  userSubscriptions'[v].fd \in Fd /\ fdsToUsers'[userSubscriptions'[v].fd] = v
    BY <1>1, <1>2, <1>5, <2>2, IdAssumption DEF SessionInv, FdUserBijection
  <2>3. ASSUME NEW f \in Fd, fdsToUsers'[f] # NoUser
        PROVE  /\ userSubscriptions'[fdsToUsers'[f]].active
               /\ userSubscriptions'[fdsToUsers'[f]].fd = f
               /\ IdOf[conn[f]] = fdsToUsers'[f]
    <3>1. CASE f = connfd
      BY <1>4, <1>5, <3>1
    <3>2. CASE f # connfd
      BY <1>1, <1>5, <2>1, <2>3, <3>2 DEF SessionInv, FdUserBijection, TypeOK, ServerTypeOK
    <3> QED
      BY <3>1, <3>2
  <2> QED
    BY <1>1, <2>2, <2>3 DEF FdUserBijection
<1>9. TableFits' /\ RefusalIsSafe'
  BY <1>1 DEF SessionInv, TableFits, RefusalIsSafe, nfds
<1>10. FramesInPlace'
  <2> SUFFICES ASSUME NEW f \in Fd, fdsToUsers'[f] # NoUser
               PROVE  \A k \in DOMAIN toServer'[conn[f]] : toServer'[conn[f]][k] \in Request
    BY <1>1 DEF FramesInPlace
  <2>1. CASE f = connfd
    BY <1>4, <2>1
  <2>2. CASE f # connfd
    <3>1. fdsToUsers[f] # NoUser /\ conn[f] \in Proc \ {p}
      BY <1>1, <1>2, <1>5, <2>2 DEF SessionInv, TableExact
    <3>2. \A k \in DOMAIN toServer[conn[f]] : toServer[conn[f]][k] \in Request
      BY <1>1, <3>1 DEF SessionInv, FramesInPlace
    <3> QED
      BY <1>3, <3>1, <3>2
  <2> QED
    BY <2>1, <2>2
<1>11. ConnfdExact' /\ PolledOpen' /\ QueueExact' /\ NothingSentYet'
  BY <1>1, FdAssumption DEF SessionInv, ConnfdExact, PolledOpen, QueueExact, NothingSentYet,
     Queued, udp
<1>12. ProcessExact'
  <2>1. \A q \in Proc : Queued(q)' <=> Queued(q)
    BY <1>1 DEF Queued
  <2>2. client[p] # "connected" /\ client[p] # "idle"
    BY <1>1, <1>2, <1>3 DEF SessionInv, ProcessExact
  <2>3. \A q \in Proc : client[q] \in {"idle", "connected"} => toServer'[q] = <<>>
    BY <1>1, <1>3, <2>2 DEF SessionInv, ProcessExact
  <2>4. \A f \in Fd : fdsToUsers'[f] # NoUser => client[conn[f]] # "connected"
    BY <1>1, <1>5, <2>2 DEF SessionInv, ProcessExact
  <2> QED
    BY <1>1, <2>1, <2>3, <2>4 DEF SessionInv, ProcessExact
<1>13. IntroducedFirst'
  <2>1. \A q \in Proc : Queued(q)' => Queued(q) /\ q # p
    BY <1>1, <1>2 DEF Queued
  <2>2. \A q \in Proc \ {p} : Introduced(q)' <=> Introduced(q)
    BY <1>1, <1>3 DEF Introduced
  <2> QED
    BY <1>1, <2>1, <2>2, FdAssumption DEF SessionInv, IntroducedFirst
<1>14. UsersKnown'
  BY <1>1, <1>5 DEF SessionInv, UsersKnown
<1> QED
  BY <1>6, <1>7, <1>8, <1>9, <1>10, <1>11, <1>12, <1>13, <1>14 DEF IInv, SessionInv

\* Login, of a new user or of one who was here before.
LEMMA LoginKeeps ==
  ASSUME IInv, LoginNew \/ LoginBack, UNCHANGED subscriber
  PROVE  IInv'
<1>1. CASE LoginNew
  <2>1. PICK u \in UserId : IdReceived(u) /\ u \notin userIdSet /\ Enter(u, <<>>)
    BY <1>1 DEF LoginNew
  <2>2. ~userSubscriptions[u].active
    BY <2>1 DEF IInv, SessionInv, UsersKnown, IdReceived, Ended
  <2>3. <<>> \in Seq(Subscription)
    OBVIOUS
  <2> QED
    BY <2>1, <2>2, <2>3, EnterKeeps
<1>2. CASE LoginBack
  <2>1. PICK u \in UserId :
          /\ IdReceived(u) /\ u \in userIdSet /\ ~userSubscriptions[u].active
          /\ Enter(u, userSubscriptions[u].subscriptions)
    BY <1>2 DEF LoginBack
  <2>2. userSubscriptions[u].subscriptions \in Seq(Subscription)
    BY DEF IInv, TypeOK, ServerTypeOK, User
  <2> QED
    BY <2>1, <2>2, EnterKeeps
<1> QED
  BY <1>1, <1>2

-----------------------------------------------------------------------------
\* Sending to somebody who is not in the listening queue, outside a login,
\* changes only that connection.
LEMMA SendKeeps ==
  ASSUME IInv, NEW f \in Fd, NEW m \in Nat, conn[f] \in Proc, SendTo(f, m),
         pc \in {"fanout", "free"},
         pc' = pc \/ (pc = "fanout" /\ pc' = "poll"),
         UNCHANGED <<pollfds, maxSize, connfd, conn, tables, udp, exitTyped, subscriber>>,
         todo' \subseteq todo, idx' \in Nat \ {0}
  PROVE  IInv'
<1> USE DEF SendTo, Ended
<1> DEFINE p == conn[f]
<1>1. /\ TypeOK /\ SessionInv
      /\ backlog' = backlog /\ cliSock' = cliSock /\ toServer' = toServer
      /\ \A q \in Proc \ {p} : srvSock'[q] = srvSock[q]
  BY DEF IInv, TypeOK, NetworkTypeOK
<1>2. ~Queued(p)
  BY <1>1 DEF SessionInv, QueueExact
<1>3. TypeOK'
  <2>1. toClient' \in [Proc -> Seq(Nat)]
    BY <1>1 DEF Delivered, TypeOK
  <2>2. NetworkTypeOK'
    BY <1>1 DEF TypeOK, NetworkTypeOK, AfterSend, SocketState
  <2>3. ServerTypeOK'
    BY <1>1 DEF TypeOK, ServerTypeOK, tables, udp
  <2> QED
    BY <1>1, <2>1, <2>2, <2>3 DEF TypeOK, SubscriberTypeOK, subscriber
<1>4. TableExact' /\ FdUserBijection' /\ TableFits' /\ RefusalIsSafe' /\ FramesInPlace'
  <2>1. TableExact'
    BY <1>1 DEF SessionInv, TableExact, Polled, tables
  <2>2. FdUserBijection'
    BY <1>1 DEF SessionInv, FdUserBijection, tables, subscriber
  <2>3. TableFits' /\ RefusalIsSafe'
    BY <1>1 DEF SessionInv, TableFits, RefusalIsSafe, nfds
  <2>4. FramesInPlace'
    BY <1>1 DEF SessionInv, FramesInPlace, tables
  <2> QED
    BY <2>1, <2>2, <2>3, <2>4
<1>5. ConnfdExact' /\ PolledOpen' /\ QueueExact' /\ UsersKnown'
  BY <1>1 DEF SessionInv, ConnfdExact, PolledOpen, QueueExact, UsersKnown, Queued, tables, udp
<1>6. NothingSentYet'
  <2>1. \A q \in Proc : Queued(q)' => Queued(q) /\ q # p
    BY <1>1, <1>2 DEF Queued
  <2>2. \A q \in Proc \ {p} : toClient'[q] = toClient[q]
    BY <1>1 DEF Delivered, TypeOK
  <2>3. client[p] # "idle"
    BY <1>1, NoProcAssumption DEF SessionInv, ProcessExact
  <2> QED
    BY <1>1, <2>1, <2>2, <2>3 DEF SessionInv, NothingSentYet, subscriber
<1>7. ProcessExact' /\ IntroducedFirst'
  BY <1>1 DEF SessionInv, ProcessExact, IntroducedFirst, Introduced, Queued, tables, subscriber
<1> QED
  BY <1>3, <1>4, <1>5, <1>6, <1>7 DEF IInv, SessionInv

\* A notification goes to a user who is logged in, hence to an open
\* connection.
LEMMA FanoutKeeps ==
  ASSUME IInv, Fanout, UNCHANGED subscriber
  PROVE  IInv'
<1>1. PICK u \in todo : SendTo(userSubscriptions[u].fd, taken) /\ todo' = todo \ {u}
  BY DEF Fanout
<1>2. u \in UserId /\ userSubscriptions[u].active /\ ~Ended
  BY DEF IInv, TypeOK, ServerTypeOK, SessionInv, UsersKnown, Fanout, Ended
<1>3. userSubscriptions[u].fd \in Fd /\ conn[userSubscriptions[u].fd] \in Proc
  BY <1>2, IdAssumption DEF IInv, TypeOK, ServerTypeOK, SessionInv, FdUserBijection, TableExact
<1>4. /\ taken \in Nat /\ idx' \in Nat \ {0} /\ todo' \subseteq todo
      /\ pc \in {"fanout", "free"}
      /\ pc' = pc \/ (pc = "fanout" /\ pc' = "poll")
  BY <1>1 DEF IInv, TypeOK, ServerTypeOK, Fanout
<1>5. UNCHANGED <<pollfds, maxSize, connfd, conn, tables, udp, exitTyped, subscriber>>
  BY DEF Fanout
<1> QED
  BY <1>1, <1>3, <1>4, <1>5, SendKeeps

\* "shutdown" goes to an entry of the table, hence to an open connection.
LEMMA FreeStepKeeps ==
  ASSUME IInv, FreeStep, UNCHANGED subscriber
  PROVE  IInv'
<1>1. pollfds \in Seq(PollFd) /\ idx \in Nat \ {0} /\ idx <= Len(pollfds) /\ ~Ended
  BY DEF IInv, TypeOK, ServerTypeOK, FreeStep, Ended
<1>2. idx \in DOMAIN pollfds
  BY <1>1
<1>3. pollfds[idx].fd \in Fd
  <2>1. pollfds[idx] \in PollFd
    BY <1>1, <1>2
  <2> QED
    BY <2>1 DEF PollFd
<1>4. conn[pollfds[idx].fd] \in Proc
  BY <1>1, <1>2, <1>3 DEF IInv, TypeOK, ServerTypeOK, SessionInv, PolledOpen
<1>5. /\ Shutdown \in Nat /\ idx' \in Nat \ {0} /\ todo' \subseteq todo
      /\ pc \in {"fanout", "free"}
      /\ pc' = pc \/ (pc = "fanout" /\ pc' = "poll")
  BY <1>1 DEF Shutdown, FreeStep
<1>6. UNCHANGED <<pollfds, maxSize, connfd, conn, tables, udp, exitTyped, subscriber>>
  BY DEF FreeStep
<1>7. SendTo(pollfds[idx].fd, Shutdown)
  BY DEF FreeStep
<1> QED
  BY <1>3, <1>4, <1>5, <1>6, <1>7, SendKeeps

-----------------------------------------------------------------------------
\* What the scan finds at entry i: the connection of a user who is logged in.
LEMMA ScanFinds ==
  ASSUME IInv, NEW i \in DOMAIN pollfds, Scanning(i)
  PROVE  LET f == pollfds[i].fd
         IN  /\ ~Ended /\ connfd = NoFd /\ pc = "scan" /\ i \in Nat \ {0}
             /\ f \in Fd /\ f # NoFd /\ conn[f] \in Proc
             /\ fdsToUsers[f] \in UserId \cap userIdSet
             /\ ~Queued(conn[f])
             /\ \A g \in Fd : conn[g] = conn[f] => g = f
<1> DEFINE f == pollfds[i].fd
<1>1. pc = "scan" /\ ~Ended
  BY DEF Scanning, Ended
<1>2. /\ pollfds \in Seq(PollFd) /\ conn \in [Fd -> Proc \cup {NoProc}]
      /\ fdsToUsers \in [Fd -> UserId \cup {NoUser}]
  BY DEF IInv, TypeOK, ServerTypeOK
<1>3. f \in Fd /\ i \in Nat \ {0}
  <2>1. pollfds[i] \in PollFd
    BY <1>2
  <2> QED
    BY <1>2, <2>1 DEF PollFd
<1>4. connfd = NoFd /\ f # NoFd /\ conn[f] # NoProc
  BY <1>1, <1>3, FdAssumption DEF IInv, SessionInv, ConnfdExact, PolledOpen
<1>5. fdsToUsers[f] # NoUser /\ \A g \in Fd : conn[g] = conn[f] => g = f
  BY <1>1, <1>3, <1>4 DEF IInv, SessionInv, TableExact
<1>6. ~Queued(conn[f])
  BY <1>1, <1>3 DEF IInv, SessionInv, QueueExact
<1>7. fdsToUsers[f] \in userIdSet
  BY <1>1, <1>2, <1>3, <1>5 DEF IInv, SessionInv, FdUserBijection, UsersKnown
<1> QED
  BY <1>1, <1>2, <1>3, <1>4, <1>5, <1>6, <1>7

\* A command is read from a user's connection and, unless strdup fails, noted
\* in that user's log and nowhere else.
LEMMA ScanCommandKeeps ==
  ASSUME IInv, ScanCommand, UNCHANGED subscriber
  PROVE  IInv'
<1>1. PICK i \in DOMAIN pollfds :
       LET f == pollfds[i].fd
           p == conn[f]
           u == fdsToUsers[f]
           frame == Head(toServer[p])
       IN /\ Scanning(i)
          /\ idx' = i + 1
          /\ toServer[p] # <<>>
          /\ toServer' = Taken(p)
          /\ \/ userSubscriptions' = userSubscriptions
             \/ userSubscriptions' = [userSubscriptions EXCEPT ![u].subscriptions =
                  AddSubscription(@, FirstWord[frame.topic], frame.command = "subscribe")]
  BY DEF ScanCommand, Scanning
<1> DEFINE f == pollfds[i].fd
           p == conn[f]
           u == fdsToUsers[f]
           frame == Head(toServer[p])
<1>2. /\ ~Ended /\ connfd = NoFd /\ pc = "scan" /\ i \in Nat \ {0}
      /\ f \in Fd /\ p \in Proc /\ u \in UserId \cap userIdSet /\ u # NoUser /\ ~Queued(p)
      /\ \A g \in Fd : conn[g] = p => g = f
  BY <1>1, ScanFinds, IdAssumption
<1>3. /\ UNCHANGED <<backlog, srvSock, cliSock, toClient, pc, pollfds, maxSize, connfd,
                     conn, userIdSet, fdsToUsers, udp, todo, exitTyped, subscriber>>
      /\ TypeOK /\ SessionInv
  BY DEF ScanCommand, IInv
<1>4. /\ toServer[p] \in Seq(IdFrame \cup Request) /\ toServer[p] # <<>>
      /\ toServer' = [toServer EXCEPT ![p] = Tail(@)]
      /\ toServer'[p] = Tail(toServer[p])
      /\ \A q \in Proc \ {p} : toServer'[q] = toServer[q]
      /\ \A k \in DOMAIN toServer[p] : toServer[p][k] \in Request
  <2>1. \A k \in DOMAIN toServer[p] : toServer[p][k] \in Request
    BY <1>2, <1>3 DEF SessionInv, FramesInPlace
  <2> QED
    BY <1>1, <1>2, <1>3, <2>1 DEF TypeOK, Taken
<1>5. /\ Tail(toServer[p]) \in Seq(IdFrame \cup Request)
      /\ \A k \in DOMAIN Tail(toServer[p]) : Tail(toServer[p])[k] \in Request
      /\ frame \in Request
  <2>1. /\ Len(toServer[p]) \in Nat \ {0} /\ frame = toServer[p][1] /\ 1 \in DOMAIN toServer[p]
        /\ DOMAIN toServer[p] = 1 .. Len(toServer[p])
    BY <1>4
  <2>2. /\ Tail(toServer[p]) \in Seq(IdFrame \cup Request)
        /\ DOMAIN Tail(toServer[p]) = 1 .. Len(toServer[p]) - 1
        /\ \A k \in DOMAIN Tail(toServer[p]) : Tail(toServer[p])[k] = toServer[p][k+1]
    <3>1. toServer[p] \in Seq(IdFrame \cup Request) /\ toServer[p] # <<>>
      BY <1>4
    <3> HIDE DEF p
    <3> QED
      BY <2>1, <3>1, HeadTailProperties
  <2>3. ASSUME NEW k \in DOMAIN Tail(toServer[p]) PROVE Tail(toServer[p])[k] \in Request
    <3>1. k + 1 \in DOMAIN toServer[p]
      BY <2>1, <2>2
    <3>2. Tail(toServer[p])[k] = toServer[p][k+1]
      BY <2>2
    <3> QED
      BY <1>4, <3>1, <3>2
  <2> QED
    BY <1>4, <2>1, <2>2, <2>3
<1>6. /\ userSubscriptions' \in [UserId -> User]
      /\ \A v \in UserId : /\ userSubscriptions'[v].active = userSubscriptions[v].active
                           /\ userSubscriptions'[v].fd = userSubscriptions[v].fd
      /\ \A v \in UserId \ {u} : userSubscriptions'[v] = userSubscriptions[v]
  <2> DEFINE log == AddSubscription(userSubscriptions[u].subscriptions, FirstWord[frame.topic],
                                    frame.command = "subscribe")
  <2>1. userSubscriptions \in [UserId -> User]
    BY <1>3 DEF TypeOK, ServerTypeOK
  <2>2. log \in Seq(Subscription)
    <3>1. FirstWord[frame.topic] \in String
      BY <1>5, FirstWordAssumption DEF Request
    <3>2. userSubscriptions[u].subscriptions \in Seq(Subscription)
      BY <1>2, <2>1 DEF User
    <3> QED
      BY <3>1, <3>2, AddSubscriptionType
  <2>3. CASE userSubscriptions' = userSubscriptions
    BY <2>1, <2>3
  <2>4. CASE userSubscriptions' = [userSubscriptions EXCEPT ![u].subscriptions = log]
    <3> HIDE DEF log
    <3>1. userSubscriptions' = [userSubscriptions EXCEPT ![u] =
                                  [userSubscriptions[u] EXCEPT !.subscriptions = log]]
      BY <1>2, <2>1, <2>4
    <3>2. /\ [userSubscriptions[u] EXCEPT !.subscriptions = log] \in User
          /\ [userSubscriptions[u] EXCEPT !.subscriptions = log].active
               = userSubscriptions[u].active
          /\ [userSubscriptions[u] EXCEPT !.subscriptions = log].fd
               = userSubscriptions[u].fd
      BY <1>2, <2>1, <2>2 DEF User
    <3> QED
      BY <1>2, <2>1, <3>1, <3>2
  <2> QED
    BY <1>1, <2>3, <2>4
<1>7. TypeOK'
  <2>1. toServer' \in [Proc -> Seq(IdFrame \cup Request)]
    BY <1>2, <1>3, <1>4, <1>5 DEF TypeOK
  <2>2. ServerTypeOK'
    <3>1. idx' \in Nat \ {0}
      BY <1>1, <1>2
    <3>2. exitTyped' \in BOOLEAN
      BY <1>3 DEF TypeOK, ServerTypeOK
    <3> QED
      BY <1>3, <1>6, <3>1, <3>2 DEF TypeOK, ServerTypeOK, udp
  <2> QED
    BY <1>3, <2>1, <2>2 DEF TypeOK, NetworkTypeOK, SubscriberTypeOK, subscriber
<1>8. TableExact' /\ TableFits' /\ RefusalIsSafe'
  BY <1>2, <1>3 DEF SessionInv, TableExact, Polled, TableFits, nfds, RefusalIsSafe, Ended
<1>9. FdUserBijection'
  <2>1. ASSUME NEW g \in Fd, fdsToUsers[g] # NoUser
        PROVE  fdsToUsers[g] \in UserId
    BY <1>3, <2>1 DEF TypeOK, ServerTypeOK
  <2> QED
    BY <1>2, <1>3, <1>6, <2>1 DEF SessionInv, FdUserBijection, Ended
<1>10. FramesInPlace'
  <2> SUFFICES ASSUME NEW g \in Fd, fdsToUsers[g] # NoUser
               PROVE  \A k \in DOMAIN toServer'[conn[g]] : toServer'[conn[g]][k] \in Request
    BY <1>3 DEF FramesInPlace
  <2>1. CASE conn[g] = p
    BY <1>4, <1>5, <2>1
  <2>2. CASE conn[g] # p
    <3>1. conn[g] \in Proc \ {p}
      BY <1>2, <1>3, <2>2 DEF SessionInv, TableExact, TypeOK, ServerTypeOK
    <3> QED
      BY <1>2, <1>3, <1>4, <3>1 DEF SessionInv, FramesInPlace
  <2> QED
    BY <2>1, <2>2
<1>11. ConnfdExact' /\ PolledOpen' /\ QueueExact' /\ NothingSentYet'
  BY <1>2, <1>3 DEF SessionInv, ConnfdExact, PolledOpen, QueueExact, NothingSentYet,
     Queued, udp, subscriber
<1>12. ProcessExact'
  <2>1. \A q \in Proc : toServer[q] = <<>> => toServer'[q] = <<>>
    BY <1>4
  <2> QED
    BY <1>2, <1>3, <2>1 DEF SessionInv, ProcessExact, Queued, subscriber
<1>13. IntroducedFirst'
  <2>1. \A q \in Proc : Queued(q)' => Queued(q) /\ q # p
    BY <1>2, <1>3 DEF Queued
  <2>2. \A q \in Proc \ {p} : Introduced(q)' <=> Introduced(q)
    BY <1>3, <1>4 DEF Introduced, subscriber
  <2> QED
    BY <1>2, <1>3, <2>1, <2>2, FdAssumption DEF SessionInv, IntroducedFirst
<1>14. UsersKnown'
  BY <1>2, <1>3, <1>6 DEF SessionInv, UsersKnown
<1> QED
  BY <1>7, <1>8, <1>9, <1>10, <1>11, <1>12, <1>13, <1>14 DEF IInv, SessionInv

\* A user's connection is gone: the descriptor leaves the table, wherever it
\* was, together with its user, and is free.
LEMMA ScanDisconnectKeeps ==
  ASSUME IInv, ScanDisconnect, UNCHANGED subscriber
  PROVE  IInv'
<1>1. PICK i \in DOMAIN pollfds :
       LET f == pollfds[i].fd
           p == conn[f]
       IN /\ Scanning(i)
          /\ idx' = i + 1
          /\ LogOut(f)
          /\ pollfds' = [j \in 1 .. Len(pollfds) - 1 |->
                           IF j < i THEN pollfds[j] ELSE pollfds[j + 1]]
          /\ Close(p, 0)
          /\ conn' = [conn EXCEPT ![f] = NoProc]
  BY DEF ScanDisconnect, Scanning
<1> DEFINE f == pollfds[i].fd
           p == conn[f]
           u == fdsToUsers[f]
<1>2. /\ ~Ended /\ connfd = NoFd /\ pc = "scan" /\ i \in Nat \ {0}
      /\ f \in Fd /\ f # NoFd /\ p \in Proc /\ u \in UserId \cap userIdSet /\ u # NoUser /\ ~Queued(p)
      /\ \A g \in Fd : conn[g] = p => g = f
  BY <1>1, ScanFinds, IdAssumption
<1>3. /\ UNCHANGED <<toClient, pc, maxSize, connfd, userIdSet, udp, todo, exitTyped,
                     subscriber>>
      /\ backlog' = backlog
      /\ TypeOK /\ SessionInv
  BY <1>1 DEF ScanDisconnect, IInv, Close
<1>4. /\ srvSock' = [srvSock EXCEPT ![p] = "closed"]
      /\ toServer' = [toServer EXCEPT ![p] = <<>>]
      /\ cliSock' \in [Proc -> SocketState]
      /\ \A q \in Proc \ {p} : /\ srvSock'[q] = srvSock[q] /\ cliSock'[q] = cliSock[q]
                               /\ toServer'[q] = toServer[q]
  BY <1>1, <1>2, <1>3, CloseEffect
<1>5. /\ conn' = [conn EXCEPT ![f] = NoProc]
      /\ conn \in [Fd -> Proc \cup {NoProc}]
      /\ \A g \in Fd : conn'[g] = IF g = f THEN NoProc ELSE conn[g]
  BY <1>1, <1>2, <1>3 DEF TypeOK, ServerTypeOK
<1>6. /\ fdsToUsers' \in [Fd -> UserId \cup {NoUser}]
      /\ \A g \in Fd : fdsToUsers'[g] = IF g = f THEN NoUser ELSE fdsToUsers[g]
      /\ userSubscriptions' \in [UserId -> User]
      /\ ~userSubscriptions'[u].active
      /\ \A v \in UserId \ {u} : userSubscriptions'[v] = userSubscriptions[v]
  <2>1. /\ userSubscriptions \in [UserId -> User]
        /\ fdsToUsers \in [Fd -> UserId \cup {NoUser}]
        /\ fdsToUsers' = [fdsToUsers EXCEPT ![f] = NoUser]
        /\ userSubscriptions' = [userSubscriptions EXCEPT ![u].active = FALSE]
    BY <1>1, <1>3 DEF TypeOK, ServerTypeOK, LogOut
  <2>2. userSubscriptions' = [userSubscriptions EXCEPT ![u] =
                                [userSubscriptions[u] EXCEPT !.active = FALSE]]
    BY <1>2, <2>1
  <2>3. /\ [userSubscriptions[u] EXCEPT !.active = FALSE] \in User
        /\ ~[userSubscriptions[u] EXCEPT !.active = FALSE].active
    <3>1. userSubscriptions[u] \in User
      BY <1>2, <2>1
    <3> QED
      BY <3>1 DEF User
  <2>4. /\ userSubscriptions'[u] = [userSubscriptions[u] EXCEPT !.active = FALSE]
        /\ \A v \in UserId \ {u} : userSubscriptions'[v] = userSubscriptions[v]
    BY <1>2, <2>1, <2>2
  <2>5. userSubscriptions' \in [UserId -> User]
    BY <1>2, <2>1, <2>2, <2>3
  <2>6. ~userSubscriptions'[u].active
    BY <2>3, <2>4
  <2> QED
    BY <1>2, <2>1, <2>4, <2>5, <2>6
<1>7. /\ pollfds \in Seq(PollFd) /\ Len(pollfds) \in Nat \ {0}
      /\ DOMAIN pollfds = 1 .. Len(pollfds)
      /\ pollfds' \in Seq(PollFd) /\ Len(pollfds') = Len(pollfds) - 1
      /\ DOMAIN pollfds' = 1 .. Len(pollfds) - 1
      /\ \A j \in DOMAIN pollfds' :
            /\ j < i => j \in DOMAIN pollfds /\ pollfds'[j] = pollfds[j]
            /\ j >= i => j + 1 \in DOMAIN pollfds /\ pollfds'[j] = pollfds[j + 1]
  <2>1. pollfds \in Seq(PollFd) /\ Len(pollfds) \in Nat /\ DOMAIN pollfds = 1 .. Len(pollfds)
    BY <1>3 DEF TypeOK, ServerTypeOK
  <2>2. /\ Len(pollfds) # 0 /\ i \in 1 .. Len(pollfds)
        /\ pollfds' = [j \in 1 .. Len(pollfds) - 1 |->
                         IF j < i THEN pollfds[j] ELSE pollfds[j + 1]]
    BY <1>1, <2>1
  <2>3. ASSUME NEW j \in 1 .. Len(pollfds) - 1
        PROVE  /\ j \in 1 .. Len(pollfds) /\ j + 1 \in 1 .. Len(pollfds)
               /\ (IF j < i THEN pollfds[j] ELSE pollfds[j + 1]) \in PollFd
    BY <2>1
  <2>4. Len(pollfds) - 1 \in Nat
    BY <2>1, <2>2
  <2>5. pollfds' \in Seq(PollFd) /\ Len(pollfds') = Len(pollfds) - 1
    BY <2>2, <2>3, <2>4
  <2> QED
    BY <2>1, <2>2, <2>3, <2>5
<1>8. /\ \A j \in DOMAIN pollfds : pollfds[j].fd = f => j = i
      /\ \A g \in Polled : g # f => g \in Polled'
      /\ \A j \in DOMAIN pollfds' : pollfds'[j].fd # f /\ \E k \in DOMAIN pollfds : pollfds'[j] = pollfds[k]
  <2>1. \A j, k \in DOMAIN pollfds : pollfds[j].fd = pollfds[k].fd => j = k
    BY <1>2, <1>3 DEF SessionInv, TableExact
  <2>2. ASSUME NEW j \in DOMAIN pollfds, pollfds[j].fd # f
        PROVE  \E k \in DOMAIN pollfds' : pollfds'[k] = pollfds[j]
    <3>1. CASE j < i
      BY <1>1, <1>7, <3>1
    <3>2. CASE j > i
      <4>1. j - 1 \in DOMAIN pollfds' /\ j - 1 >= i /\ (j - 1) + 1 = j
        BY <1>2, <1>7, <3>2
      <4> QED
        BY <1>7, <4>1
    <3> QED
      BY <1>1, <1>7, <2>2, <3>1, <3>2
  <2>3. \A j \in DOMAIN pollfds' : pollfds'[j].fd # f /\ \E k \in DOMAIN pollfds : pollfds'[j] = pollfds[k]
    BY <1>1, <1>2, <1>7, <2>1
  <2>4. \A g \in Polled : g # f => g \in Polled'
    BY <2>2 DEF Polled
  <2>5. \A j \in DOMAIN pollfds : pollfds[j].fd = f => j = i
    BY <2>1
  <2> QED
    BY <2>3, <2>4, <2>5
<1>9. TypeOK'
  <2>1. toServer' \in [Proc -> Seq(IdFrame \cup Request)]
    <3>1. toServer \in [Proc -> Seq(IdFrame \cup Request)] /\ <<>> \in Seq(IdFrame \cup Request)
      BY <1>3 DEF TypeOK
    <3> QED
      BY <1>4, <3>1
  <2>2. NetworkTypeOK'
    BY <1>3, <1>4 DEF TypeOK, NetworkTypeOK, SocketState
  <2>3. ServerTypeOK'
    <3>1. conn' \in [Fd -> Proc \cup {NoProc}] /\ idx' \in Nat \ {0}
      BY <1>1, <1>2, <1>5
    <3>2. exitTyped' \in BOOLEAN
      BY <1>3 DEF TypeOK, ServerTypeOK
    <3> QED
      BY <1>3, <1>6, <1>7, <3>1, <3>2 DEF TypeOK, ServerTypeOK, udp
  <2> QED
    BY <1>3, <2>1, <2>2, <2>3 DEF TypeOK, SubscriberTypeOK, subscriber
<1>10. TableExact'
  <2>1. \A j, k \in DOMAIN pollfds' : pollfds'[j].fd = pollfds'[k].fd => j = k
    <3>1. \A j, k \in DOMAIN pollfds : pollfds[j].fd = pollfds[k].fd => j = k
      BY <1>2, <1>3 DEF SessionInv, TableExact
    <3>2. SUFFICES ASSUME NEW j \in DOMAIN pollfds', NEW k \in DOMAIN pollfds',
                          pollfds'[j].fd = pollfds'[k].fd
                   PROVE  j = k
      OBVIOUS
    <3> DEFINE from(n) == IF n < i THEN n ELSE n + 1
    <3>3. /\ from(j) \in DOMAIN pollfds /\ pollfds'[j] = pollfds[from(j)]
          /\ from(k) \in DOMAIN pollfds /\ pollfds'[k] = pollfds[from(k)]
      BY <1>2, <1>7, <3>2
    <3>4. from(j) = from(k)
      BY <3>1, <3>2, <3>3
    <3>5. i \in Nat /\ j \in Nat /\ k \in Nat
      BY <1>2, <1>7, <3>2
    <3> QED
      BY <3>4, <3>5
  <2>2. \A g \in Fd : conn'[g] # NoProc <=> fdsToUsers'[g] # NoUser \/ g = connfd'
    BY <1>2, <1>3, <1>5, <1>6 DEF SessionInv, TableExact
  <2>3. \A g \in Fd : fdsToUsers'[g] # NoUser => g \in Polled'
    BY <1>2, <1>3, <1>6, <1>8 DEF SessionInv, TableExact
  <2>4. \A g, h \in Fd : conn'[g] = conn'[h] /\ conn'[g] # NoProc => g = h
    BY <1>2, <1>3, <1>5 DEF SessionInv, TableExact
  <2> QED
    BY <2>1, <2>2, <2>3, <2>4 DEF TableExact
<1>11. FdUserBijection'
  <2>1. \A g \in Fd : g # f => fdsToUsers[g] # u
    BY <1>2, <1>3 DEF SessionInv, FdUserBijection
  <2>2. ASSUME NEW v \in UserId, userSubscriptions'[v].active
        PROVE  userSubscriptions'[v].fd \in Fd /\ fdsToUsers'[userSubscriptions'[v].fd] = v
    <3>1. v # u /\ userSubscriptions'[v] = userSubscriptions[v]
      BY <1>6, <2>2
    <3>2. userSubscriptions[v].fd \in Fd /\ fdsToUsers[userSubscriptions[v].fd] = v
      BY <1>2, <1>3, <2>2, <3>1 DEF SessionInv, FdUserBijection
    <3>3. userSubscriptions[v].fd # f
      BY <3>1, <3>2
    <3> QED
      BY <1>6, <3>1, <3>2, <3>3
  <2>3. ASSUME NEW g \in Fd, fdsToUsers'[g] # NoUser
        PROVE  /\ userSubscriptions'[fdsToUsers'[g]].active
               /\ userSubscriptions'[fdsToUsers'[g]].fd = g
               /\ IdOf[conn'[g]] = fdsToUsers'[g]
    <3>1. g # f /\ fdsToUsers'[g] = fdsToUsers[g] /\ conn'[g] = conn[g]
      BY <1>5, <1>6, <2>3
    <3>2. fdsToUsers[g] \in UserId \ {u}
      BY <1>3, <2>1, <2>3, <3>1 DEF TypeOK, ServerTypeOK
    <3> QED
      BY <1>2, <1>3, <1>6, <2>3, <3>1, <3>2 DEF SessionInv, FdUserBijection
  <2> QED
    BY <2>2, <2>3 DEF FdUserBijection
<1>12. TableFits' /\ RefusalIsSafe'
  BY <1>2, <1>3, <1>7 DEF SessionInv, TableFits, RefusalIsSafe, nfds, TypeOK, ServerTypeOK
<1>13. FramesInPlace'
  <2> SUFFICES ASSUME NEW g \in Fd, fdsToUsers'[g] # NoUser
               PROVE  \A k \in DOMAIN toServer'[conn'[g]] : toServer'[conn'[g]][k] \in Request
    BY DEF FramesInPlace
  <2>1. g # f /\ fdsToUsers[g] # NoUser /\ conn'[g] = conn[g] /\ conn[g] \in Proc \ {p}
    BY <1>2, <1>3, <1>5, <1>6 DEF SessionInv, TableExact
  <2>2. \A k \in DOMAIN toServer[conn[g]] : toServer[conn[g]][k] \in Request
    BY <1>2, <1>3, <2>1 DEF SessionInv, FramesInPlace
  <2> QED
    BY <1>4, <2>1, <2>2
<1>14. ConnfdExact'
  BY <1>2, <1>3, FdAssumption DEF SessionInv, ConnfdExact
<1>15. PolledOpen'
  <2>1. ASSUME NEW j \in DOMAIN pollfds' PROVE conn'[pollfds'[j].fd] # NoProc
    <3>1. PICK k \in DOMAIN pollfds : pollfds'[j] = pollfds[k]
      BY <1>8
    <3>2. pollfds[k].fd \in Fd
      <4>1. pollfds[k] \in PollFd
        BY <1>7
      <4> QED
        BY <4>1 DEF PollFd
    <3>3. pollfds'[j].fd # f
      BY <1>8
    <3>4. conn[pollfds[k].fd] # NoProc
      BY <1>2, <1>3 DEF SessionInv, PolledOpen
    <3> QED
      BY <1>5, <3>1, <3>2, <3>3, <3>4
  <2> QED
    BY <1>2, <1>3, <2>1 DEF PolledOpen
<1>16. QueueExact' /\ NothingSentYet'
  <2>1. \A q : Queued(q)' => Queued(q) /\ q \in Proc /\ q # p
    BY <1>2, <1>3 DEF Queued, TypeOK, NetworkTypeOK
  <2>2. \A g \in Fd : ~Queued(conn[g])'
    <3> SUFFICES ASSUME NEW g \in Fd, Queued(conn[g])' PROVE FALSE
      OBVIOUS
    <3>1. Queued(conn'[g]) /\ conn'[g] \in Proc
      BY <1>3, <2>1 DEF Queued, TypeOK, NetworkTypeOK
    <3> QED
      BY <1>2, <1>3, <1>5, <3>1, NoProcAssumption DEF SessionInv, QueueExact
  <2>3. QueueExact'
    BY <1>2, <1>3, <2>2 DEF SessionInv, QueueExact, udp
  <2>4. client[p] # "idle"
    BY <1>2, <1>3, NoProcAssumption DEF SessionInv, ProcessExact
  <2>5. NothingSentYet'
    BY <1>2, <1>3, <1>4, <2>1, <2>4 DEF SessionInv, NothingSentYet, subscriber
  <2> QED
    BY <2>3, <2>5
<1>17. ProcessExact'
  <2>1. \A q \in Proc : Queued(q)' => Queued(q) /\ q # p
    BY <1>2, <1>3 DEF Queued
  <2>2. \A g \in Fd : conn'[g] # NoProc => conn[g] \in Proc \ {p} /\ conn'[g] = conn[g] /\ g # f
    BY <1>2, <1>5
  <2>3. client' = client
    BY <1>3 DEF subscriber
  <2>4. \A q \in Proc : toServer[q] = <<>> => toServer'[q] = <<>>
    BY <1>3, <1>4 DEF TypeOK
  <2>5. \A g \in Fd : fdsToUsers'[g] # NoUser => fdsToUsers[g] # NoUser /\ conn'[g] = conn[g]
    BY <1>5, <1>6
  <2> QED
    BY <1>2, <1>3, <1>4, <2>1, <2>2, <2>3, <2>4, <2>5 DEF SessionInv, ProcessExact
<1>18. IntroducedFirst'
  <2>1. \A q \in Proc : Queued(q)' => Queued(q) /\ q # p
    BY <1>2, <1>3 DEF Queued
  <2>2. \A q \in Proc \ {p} : Introduced(q)' <=> Introduced(q)
    BY <1>3, <1>4 DEF Introduced, subscriber
  <2> QED
    BY <1>2, <1>3, <2>1, <2>2, FdAssumption DEF SessionInv, IntroducedFirst
<1>19. UsersKnown'
  BY <1>2, <1>3, <1>6 DEF SessionInv, UsersKnown
<1> QED
  BY <1>9, <1>10, <1>11, <1>12, <1>13, <1>14, <1>15, <1>16, <1>17, <1>18, <1>19
     DEF IInv, SessionInv

\* The process ends, in order or by SIGPIPE.
LEMMA EndKeeps ==
  ASSUME IInv, FreeDone \/ Sigpipe, UNCHANGED subscriber
  PROVE  IInv'
<1>1. PICK how \in {"exited", "crashed"} : End(how)
  BY DEF FreeDone, Sigpipe
<1>2. NetworkTypeOK' /\ toServer' \in [Proc -> Seq(IdFrame \cup Request)]
  <2>1. PICK reset \in [Proc -> {"rst", "sent"}] :
          cliSock' = [p \in Proc |->
            IF cliSock[p] # "open" THEN cliSock[p]
            ELSE IF \E i \in DOMAIN backlog : backlog[i] = p THEN "rst"
            ELSE IF toServer[p] # <<>> THEN reset[p]
            ELSE "fin"]
    BY <1>1 DEF End
  <2>2. cliSock' \in [Proc -> SocketState]
    BY <2>1 DEF IInv, TypeOK, NetworkTypeOK, SocketState
  <2>3. srvSock' \in [Proc -> SocketState] /\ backlog' \in Seq(Proc)
    BY <1>1 DEF End, SocketState
  <2> QED
    BY <1>1, <2>2, <2>3 DEF End, NetworkTypeOK
<1>3. ServerTypeOK' /\ SubscriberTypeOK' /\ toClient' \in [Proc -> Seq(Nat)]
  BY <1>1 DEF End, IInv, TypeOK, ServerTypeOK, SubscriberTypeOK, tables, udp, subscriber
<1>4. Ended'
  BY <1>1 DEF End, Ended
<1>5. SessionInv'
  BY <1>4 DEF Ended, SessionInv, TableExact, FdUserBijection, TableFits, RefusalIsSafe,
     FramesInPlace
<1> QED
  BY <1>2, <1>3, <1>5 DEF IInv, TypeOK
-----------------------------------------------------------------------------
\* The server's own tables do not notice what the processes do.
LEMMA ServerKept ==
  ASSUME IInv, UNCHANGED server
  PROVE  /\ ServerTypeOK' /\ TableExact' /\ FdUserBijection' /\ TableFits'
         /\ (~Ended)' => ~Ended /\ ConnfdExact' /\ PolledOpen' /\ UsersKnown'
<1> USE DEF IInv, TypeOK, SessionInv, server, tables, udp, Ended
<1>1. exitTyped' \in BOOLEAN
  BY DEF ServerTypeOK
<1>2. ServerTypeOK'
  BY <1>1 DEF ServerTypeOK
<1>3. TableExact'
  BY DEF TableExact, Polled
<1>4. FdUserBijection' /\ TableFits'
  BY DEF FdUserBijection, TableFits, nfds
<1>5. (~Ended)' => ~Ended /\ ConnfdExact' /\ PolledOpen' /\ UsersKnown'
  BY DEF ConnfdExact, PolledOpen, UsersKnown
<1> QED
  BY <1>2, <1>3, <1>4, <1>5

\* The ends of a connection that a send on it does not make fatal.
Harmless == {"open", "fin", "rst"}

\* One process, which has connected before, takes a step of its own or its
\* connection a step of the network's: what has to hold of that process alone.
LEMMA OneProcess ==
  ASSUME IInv, NEW p \in Proc, UNCHANGED <<server, backlog>>,
         NetworkTypeOK', SubscriberTypeOK',
         toServer' \in [Proc -> Seq(IdFrame \cup Request)],
         toClient' \in [Proc -> Seq(Nat)],
         \A q \in Proc \ {p} :
            /\ srvSock'[q] = srvSock[q] /\ cliSock'[q] = cliSock[q]
            /\ toServer'[q] = toServer[q] /\ toClient'[q] = toClient[q]
            /\ client'[q] = client[q],
         toClient[p] = <<>> => toClient'[p] = <<>>,
         srvSock[p] \in Harmless /\ toClient[p] = <<>> => srvSock'[p] \in Harmless,
         client'[p] \in {"idle", "connected"} =>
            client'[p] = client[p] /\ toServer'[p] = toServer[p],
         client'[p] \in {"connected", "running"} =>
            /\ client[p] \in {"connected", "running"}
            /\ cliSock[p] = "open" => cliSock'[p] = "open",
         (client[p] \in {"connected", "running"} => cliSock[p] = "open")
            /\ (client[p] = "connected" => toServer[p] = <<>>)
            /\ Introduced(p) => Introduced(p)',
         client[p] # "connected"
            /\ (\A k \in DOMAIN toServer[p] : toServer[p][k] \in Request)
            => \A k \in DOMAIN toServer'[p] : toServer'[p][k] \in Request
  PROVE  IInv'
<1>1. /\ ServerTypeOK' /\ TableExact' /\ FdUserBijection' /\ TableFits'
      /\ (~Ended)' => ~Ended /\ ConnfdExact' /\ PolledOpen' /\ UsersKnown'
  BY ServerKept
<1>2. /\ TypeOK /\ SessionInv
      /\ UNCHANGED <<pc, pollfds, connfd, conn, fdsToUsers, arrived, taken, backlog>>
  BY DEF IInv, server, tables, udp
<1>3. TypeOK'
  BY <1>1 DEF TypeOK
<1>4. CASE Ended'
  <2>1. SessionInv'
    BY <1>1, <1>4 DEF SessionInv, RefusalIsSafe, FramesInPlace, Ended
  <2> QED
    BY <1>3, <2>1 DEF IInv
<1>5. CASE ~Ended'
  <2>1. ~Ended /\ ConnfdExact' /\ PolledOpen' /\ UsersKnown'
    BY <1>1, <1>5
  <2>2. /\ conn \in [Fd -> Proc \cup {NoProc}]
        /\ \A f \in Fd : conn[f] # NoProc => conn[f] \in Proc
        /\ connfd \in Fd => conn[connfd] \in Proc
        /\ pc \in {"register", "login"} => connfd \in Fd
        /\ \A f \in Fd : fdsToUsers[f] # NoUser => conn[f] \in Proc
    BY <1>2, <2>1 DEF TypeOK, ServerTypeOK, SessionInv, ConnfdExact, TableExact
  <2>3. \A q : Queued(q)' <=> Queued(q)
    BY <1>2 DEF Queued
  <2>4. RefusalIsSafe'
    BY <1>2, <2>1, <2>2 DEF SessionInv, RefusalIsSafe, NothingSentYet, Harmless
  <2>5. FramesInPlace'
    <3> SUFFICES ASSUME NEW f \in Fd, fdsToUsers[f] # NoUser
                 PROVE  \A k \in DOMAIN toServer'[conn[f]] : toServer'[conn[f]][k] \in Request
      BY <1>2 DEF FramesInPlace
    <3>1. \A k \in DOMAIN toServer[conn[f]] : toServer[conn[f]][k] \in Request
      BY <1>2, <2>1 DEF SessionInv, FramesInPlace
    <3>2. client[conn[f]] # "connected" /\ conn[f] \in Proc
      BY <1>2, <2>1, <2>2 DEF SessionInv, ProcessExact
    <3> QED
      BY <3>1, <3>2
  <2>6. QueueExact'
    BY <1>2, <2>1, <2>3 DEF SessionInv, QueueExact, Queued
  <2>7. NothingSentYet'
    BY <1>2, <2>1, <2>2, <2>3 DEF SessionInv, NothingSentYet, Harmless
  <2>8. ProcessExact'
    <3>1. /\ \A q \in Proc : client'[q] = "idle" => client[q] = "idle"
          /\ \A q \in Proc : client'[q] = "connected" => client[q] = "connected"
          /\ \A q \in Proc : client'[q] \in {"idle", "connected"} =>
                client'[q] = client[q] /\ toServer'[q] = toServer[q]
          /\ \A q \in Proc : client'[q] \in {"connected", "running"} =>
                client[q] \in {"connected", "running"}
                  /\ (cliSock[q] = "open" => cliSock'[q] = "open")
      OBVIOUS
    <3>2. \A q \in Proc : Queued(q)' => Queued(q)
      BY <2>3
    <3>3. ProcessExact
      BY <1>2, <2>1 DEF SessionInv
    <3>4. /\ \A q \in Proc : Queued(q)' => client'[q] # "idle"
          /\ \A q \in Proc : Queued(q)' /\ client'[q] \in {"connected", "running"}
                               => cliSock'[q] = "open"
      BY <3>1, <3>2, <3>3 DEF ProcessExact
    <3>5. /\ \A f \in Fd : conn[f] # NoProc => client'[conn[f]] # "idle"
          /\ \A f \in Fd : conn[f] # NoProc /\ client'[conn[f]] \in {"connected", "running"}
                               => cliSock'[conn[f]] = "open"
      BY <2>2, <3>1, <3>3 DEF ProcessExact
    <3>6. \A f \in Fd : fdsToUsers[f] # NoUser => client'[conn[f]] # "connected"
      BY <2>2, <3>1, <3>3 DEF ProcessExact
    <3>7. \A q \in Proc : client'[q] \in {"idle", "connected"} => toServer'[q] = <<>>
      <4>1. \A q \in Proc : client[q] \in {"idle", "connected"} => toServer[q] = <<>>
        BY <3>3 DEF ProcessExact
      <4>2. SUFFICES ASSUME NEW q \in Proc, client'[q] \in {"idle", "connected"}
                     PROVE  toServer'[q] = <<>>
        OBVIOUS
      <4>3. client'[q] = client[q] /\ toServer'[q] = toServer[q]
        BY <3>1, <4>2
      <4>4. toServer[q] = <<>>
        BY <4>1, <4>2, <4>3
      <4> QED
        BY <4>3, <4>4
    <3> QED
      BY <1>2, <3>4, <3>5, <3>6, <3>7 DEF ProcessExact
  <2>9. IntroducedFirst'
    <3>1. ASSUME NEW q \in Proc, Introduced(q),
                 client[q] \in {"connected", "running"} => cliSock[q] = "open"
          PROVE  Introduced(q)'
      <4>1. client[q] = "connected" => toServer[q] = <<>>
        BY <1>2, <2>1 DEF SessionInv, ProcessExact
      <4>2. CASE q = p
        BY <3>1, <4>1, <4>2
      <4>3. CASE q # p
        BY <3>1, <4>3 DEF Introduced
      <4> QED
        BY <4>2, <4>3
    <3>2. ASSUME NEW q \in Proc, Queued(q)' PROVE Introduced(q)'
      <4>1. Queued(q)
        BY <2>3, <3>2
      <4>2. Introduced(q)
        BY <1>2, <2>1, <4>1 DEF SessionInv, IntroducedFirst
      <4>3. client[q] \in {"connected", "running"} => cliSock[q] = "open"
        BY <1>2, <2>1, <4>1 DEF SessionInv, ProcessExact
      <4> QED
        BY <3>1, <4>2, <4>3
    <3>3. ASSUME connfd \in Fd PROVE Introduced(conn[connfd])'
      <4>1. conn[connfd] \in Proc /\ Introduced(conn[connfd]) /\ conn[connfd] # NoProc
        BY <1>2, <2>1, <2>2, <3>3, NoProcAssumption DEF SessionInv, IntroducedFirst
      <4>2. client[conn[connfd]] \in {"connected", "running"} => cliSock[conn[connfd]] = "open"
        BY <1>2, <2>1, <3>3, <4>1 DEF SessionInv, ProcessExact
      <4>3. \A q \in Proc : q = conn[connfd] => Introduced(q)'
        BY <3>1, <4>1, <4>2
      <4> QED
        BY <1>2, <4>1, <4>3 DEF Introduced
    <3> QED
      BY <1>2, <3>2, <3>3 DEF IntroducedFirst
  <2>10. SessionInv'
    BY <1>1, <2>1, <2>4, <2>5, <2>6, <2>7, <2>8, <2>9 DEF SessionInv
  <2> QED
    BY <1>3, <2>10 DEF IInv
<1> QED
  BY <1>4, <1>5

\* A process introduces itself: the first frame on its connection is its id.
LEMMA SendIdKeeps ==
  ASSUME IInv, NEW p \in Proc, SendId(p), UNCHANGED server
  PROVE  IInv'
<1> USE DEF SendId, ClientSend
<1>1. TypeOK
  BY DEF IInv
<1>2. IdOf[p] \in UserId \cup {BadId} /\ [id |-> IdOf[p]] \in IdFrame
  BY IdOfAssumption DEF IdFrame
<1>3. /\ client[p] = "connected" /\ client'[p] = "running"
      /\ UNCHANGED <<server, backlog>> /\ srvSock' = srvSock /\ toClient' = toClient
      /\ confirmed' = confirmed /\ printed' = printed
      /\ toServer'[p] = IF cliSock[p] = "open" THEN Append(toServer[p], [id |-> IdOf[p]])
                                                ELSE toServer[p]
      /\ cliSock[p] = "open" => cliSock'[p] = "open"
      /\ \A q \in Proc \ {p} :
            /\ cliSock'[q] = cliSock[q] /\ toServer'[q] = toServer[q]
            /\ client'[q] = client[q]
  BY <1>1 DEF TypeOK, NetworkTypeOK, SubscriberTypeOK, Delivered, AfterSend
<1>4. NetworkTypeOK' /\ SubscriberTypeOK'
  BY <1>1, <1>3 DEF TypeOK, NetworkTypeOK, SubscriberTypeOK, AfterSend, SocketState
<1>5. /\ toServer' \in [Proc -> Seq(IdFrame \cup Request)]
      /\ toClient' \in [Proc -> Seq(Nat)]
  <2>1. /\ toServer[p] \in Seq(IdFrame \cup Request)
        /\ Append(toServer[p], [id |-> IdOf[p]]) \in Seq(IdFrame \cup Request)
    BY <1>1, <1>2 DEF TypeOK
  <2> QED
    BY <1>1, <2>1 DEF TypeOK, Delivered
<1>6. ASSUME client[p] \in {"connected", "running"} => cliSock[p] = "open",
             client[p] = "connected" => toServer[p] = <<>>
      PROVE  Introduced(p)'
  <2>1. toServer'[p] = Append(<<>>, [id |-> IdOf[p]])
    BY <1>3, <1>6
  <2> QED
    BY <2>1 DEF Introduced
<1> HIDE DEF SendId, ClientSend
<1>7. client'[p] \in {"connected", "running"} =>
            /\ client[p] \in {"connected", "running"}
            /\ cliSock[p] = "open" => cliSock'[p] = "open"
  BY <1>3
<1>8. client'[p] \in {"idle", "connected"} =>
            client'[p] = client[p] /\ toServer'[p] = toServer[p]
  BY <1>3
<1> QED
  BY <1>3, <1>4, <1>5, <1>6, <1>7, <1>8, OneProcess

\* A command goes behind everything the process sent before.
LEMMA TypeCommandKeeps ==
  ASSUME IInv, NEW p \in Proc, TypeCommand(p), UNCHANGED server
  PROVE  IInv'
<1>1. TypeOK
  BY DEF IInv
<1>2. PICK r \in Request :
        ClientSend(p, r) /\ confirmed' = [confirmed EXCEPT ![p] = Append(@, r)]
  BY DEF TypeCommand
<1>3. /\ client[p] = "running" /\ client' = client
      /\ UNCHANGED <<server, backlog>> /\ srvSock' = srvSock /\ toClient' = toClient
      /\ printed' = printed
      /\ toServer'[p] = IF cliSock[p] = "open" THEN Append(toServer[p], r) ELSE toServer[p]
      /\ cliSock[p] = "open" => cliSock'[p] = "open"
      /\ \A q \in Proc \ {p} :
            cliSock'[q] = cliSock[q] /\ toServer'[q] = toServer[q]
  BY <1>1, <1>2 DEF TypeOK, NetworkTypeOK, TypeCommand, ClientSend, Delivered, AfterSend
<1>4. NetworkTypeOK' /\ SubscriberTypeOK'
  <2>1. NetworkTypeOK'
    BY <1>1, <1>2, <1>3 DEF TypeOK, NetworkTypeOK, ClientSend, AfterSend, SocketState
  <2>2. Append(confirmed[p], r) \in Seq(Request)
    BY <1>1 DEF TypeOK, SubscriberTypeOK
  <2> QED
    BY <1>1, <1>2, <1>3, <2>1, <2>2 DEF TypeOK, SubscriberTypeOK
<1>5. toServer[p] \in Seq(IdFrame \cup Request)
  BY <1>1 DEF TypeOK
<1>6. /\ toServer' \in [Proc -> Seq(IdFrame \cup Request)]
      /\ toClient' \in [Proc -> Seq(Nat)]
  <2>1. Append(toServer[p], r) \in Seq(IdFrame \cup Request)
    BY <1>5
  <2> QED
    BY <1>1, <1>2, <2>1 DEF TypeOK, ClientSend, Delivered
<1>7. /\ Len(toServer[p]) \in Nat /\ DOMAIN toServer[p] = 1 .. Len(toServer[p])
      /\ toServer'[p] = toServer[p]
         \/ /\ Len(toServer'[p]) = Len(toServer[p]) + 1
            /\ DOMAIN toServer'[p] = 1 .. Len(toServer[p]) + 1
            /\ toServer'[p][Len(toServer[p]) + 1] = r
            /\ \A k \in 1 .. Len(toServer[p]) : toServer'[p][k] = toServer[p][k]
  BY <1>3, <1>5
<1>8. ASSUME Introduced(p) PROVE Introduced(p)'
  <2>1. /\ toServer[p] # <<>> /\ toServer[p][1] = [id |-> IdOf[p]] /\ Len(toServer[p]) >= 1
        /\ \A k \in 2 .. Len(toServer[p]) : toServer[p][k] \in Request
    BY <1>3, <1>5, <1>8 DEF Introduced
  <2> QED
    BY <1>3, <1>7, <2>1 DEF Introduced
<1>9. ASSUME \A k \in DOMAIN toServer[p] : toServer[p][k] \in Request
      PROVE  \A k \in DOMAIN toServer'[p] : toServer'[p][k] \in Request
  <2> SUFFICES ASSUME NEW k \in DOMAIN toServer'[p] PROVE toServer'[p][k] \in Request
    OBVIOUS
  <2>1. CASE toServer'[p] = toServer[p]
    BY <1>9, <2>1
  <2>2. CASE toServer'[p] # toServer[p]
    <3>1. k \in 1 .. Len(toServer[p]) \/ k = Len(toServer[p]) + 1
      BY <1>7, <2>2
    <3> QED
      BY <1>7, <1>9, <2>2, <3>1
  <2> QED
    BY <2>1, <2>2
<1>10. /\ client'[p] \in {"connected", "running"} =>
            /\ client[p] \in {"connected", "running"}
            /\ cliSock[p] = "open" => cliSock'[p] = "open"
       /\ client'[p] \in {"idle", "connected"} =>
            client'[p] = client[p] /\ toServer'[p] = toServer[p]
  BY <1>3
<1> QED
  BY <1>3, <1>4, <1>6, <1>8, <1>9, <1>10, OneProcess

\* A process that ends leaves an end behind that is not fatal if nothing had
\* been sent to it.
LEMMA LeavingKeeps ==
  ASSUME IInv, NEW p \in Proc, UNCHANGED <<server, backlog, toServer>>,
         NEW how \in {"exited", "crashed"}, NEW unread \in BOOLEAN,
         toClient[p] = <<>> => ~unread,
         client' = [client EXCEPT ![p] = how],
         cliSock' = [cliSock EXCEPT ![p] = "closed"],
         \E s \in PeerAfterClose(srvSock[p], unread) :
            srvSock' = [srvSock EXCEPT ![p] = s],
         toClient' = [toClient EXCEPT ![p] = <<>>],
         UNCHANGED <<confirmed, printed>>
  PROVE  IInv'
<1>1. TypeOK
  BY DEF IInv
<1>2. PICK s \in PeerAfterClose(srvSock[p], unread) :
         srvSock' = [srvSock EXCEPT ![p] = s]
  OBVIOUS
<1>3. /\ client'[p] = how /\ toClient'[p] = <<>> /\ srvSock'[p] = s
      /\ toServer'[p] = toServer[p]
      /\ \A q \in Proc \ {p} :
            /\ srvSock'[q] = srvSock[q] /\ cliSock'[q] = cliSock[q]
            /\ toServer'[q] = toServer[q] /\ toClient'[q] = toClient[q]
            /\ client'[q] = client[q]
  BY <1>1, <1>2 DEF TypeOK, NetworkTypeOK, SubscriberTypeOK
<1>4. /\ s \in SocketState
      /\ srvSock[p] \in Harmless /\ toClient[p] = <<>> => s \in Harmless
  BY <1>1, <1>2 DEF TypeOK, NetworkTypeOK, PeerAfterClose, SocketState, Harmless
<1>5. NetworkTypeOK' /\ SubscriberTypeOK'
  BY <1>1, <1>2, <1>4 DEF TypeOK, NetworkTypeOK, SubscriberTypeOK, SocketState
<1>6. /\ toServer' \in [Proc -> Seq(IdFrame \cup Request)]
      /\ toClient' \in [Proc -> Seq(Nat)]
  BY <1>1 DEF TypeOK
<1>7. client'[p] \notin {"idle", "connected", "running"}
  BY <1>3
<1>8. Introduced(p) => Introduced(p)'
  BY <1>3, <1>7 DEF Introduced
<1> QED
  BY <1>3, <1>4, <1>5, <1>6, <1>7, <1>8, OneProcess

\* "exit", a signal, and SIGPIPE.
LEMMA QuitKeeps ==
  ASSUME IInv, NEW p \in Proc, TypeCommandSigpipe(p) \/ Quit(p), UNCHANGED server
  PROVE  IInv'
<1> DEFINE unread == toClient[p] # <<>>
<1>1. PICK how \in {"exited", "crashed"} : Leave(p, how)
  BY DEF TypeCommandSigpipe, Quit
<1>2. UNCHANGED <<server, backlog, toServer>> /\ UNCHANGED <<confirmed, printed>>
  BY DEF TypeCommandSigpipe, Quit
<1>3. unread \in BOOLEAN /\ (toClient[p] = <<>> => ~unread)
  OBVIOUS
<1> QED
  BY <1>1, <1>2, <1>3, LeavingKeeps DEF Leave

\* A frame is printed or ends the process.
LEMMA ReceiveKeeps ==
  ASSUME IInv, NEW p \in Proc, Receive(p), UNCHANGED server
  PROVE  IInv'
<1>1. TypeOK
  BY DEF IInv
<1>2. /\ toClient[p] \in Seq(Nat) /\ toClient[p] # <<>>
      /\ Head(toClient[p]) \in Nat /\ Tail(toClient[p]) \in Seq(Nat)
      /\ UNCHANGED <<server, backlog, toServer>> /\ confirmed' = confirmed
  BY <1>1 DEF TypeOK, Receive
<1>3. CASE Head(toClient[p]) = Shutdown
  <2> DEFINE unread == Tail(toClient[p]) # <<>>
  <2>1. unread \in BOOLEAN /\ (toClient[p] = <<>> => ~unread)
    BY <1>2
  <2> QED
    BY <1>2, <1>3, <2>1, LeavingKeeps DEF Receive
<1>4. CASE Head(toClient[p]) # Shutdown
  <2>1. /\ printed' = [printed EXCEPT ![p] = Append(@, Head(toClient[p]))]
        /\ toClient' = [toClient EXCEPT ![p] = Tail(@)]
        /\ UNCHANGED <<client, cliSock, srvSock>>
    BY <1>4 DEF Receive
  <2>2. NetworkTypeOK' /\ SubscriberTypeOK'
    <3>1. Append(printed[p], Head(toClient[p])) \in Seq(Nat)
      BY <1>1, <1>2 DEF TypeOK, SubscriberTypeOK
    <3> QED
      BY <1>1, <1>2, <2>1, <3>1 DEF TypeOK, NetworkTypeOK, SubscriberTypeOK
  <2>3. /\ toServer' \in [Proc -> Seq(IdFrame \cup Request)]
        /\ toClient' \in [Proc -> Seq(Nat)]
    BY <1>1, <1>2, <2>1 DEF TypeOK
  <2>4. \A q \in Proc \ {p} : toClient'[q] = toClient[q]
    BY <1>1, <2>1 DEF TypeOK
  <2>5. Introduced(p) => Introduced(p)'
    BY <1>2, <2>1 DEF Introduced
  <2> QED
    BY <1>2, <2>1, <2>2, <2>3, <2>4, <2>5, OneProcess
<1> QED
  BY <1>3, <1>4

\* A reset arrives, or is reported to the process.
LEMMA ResetKeeps ==
  ASSUME IInv, NEW p \in Proc,
         ReceiveReset(p)
           \/ ((ResetServerEnd(p) \/ ResetClientEnd(p)) /\ UNCHANGED subscriber),
         UNCHANGED server
  PROVE  IInv'
<1> USE DEF ReceiveReset, ResetServerEnd, ResetClientEnd
<1>1. TypeOK
  BY DEF IInv
<1>2. /\ UNCHANGED <<server, backlog>> /\ toServer' = toServer /\ toClient' = toClient
      /\ client' = client /\ confirmed' = confirmed /\ printed' = printed
      /\ \A q \in Proc \ {p} : srvSock'[q] = srvSock[q] /\ cliSock'[q] = cliSock[q]
      /\ srvSock[p] \in Harmless => srvSock'[p] \in Harmless
      /\ cliSock[p] = "open" => cliSock'[p] = "open"
  BY <1>1 DEF TypeOK, NetworkTypeOK, subscriber, Harmless
<1>3. NetworkTypeOK' /\ SubscriberTypeOK'
  BY <1>1, <1>2 DEF TypeOK, NetworkTypeOK, SubscriberTypeOK, SocketState
<1>4. /\ toServer' \in [Proc -> Seq(IdFrame \cup Request)]
      /\ toClient' \in [Proc -> Seq(Nat)]
  BY <1>1, <1>2 DEF TypeOK
<1>5. Introduced(p) => Introduced(p)'
  BY <1>2 DEF Introduced
<1> HIDE DEF ReceiveReset, ResetServerEnd, ResetClientEnd
<1> QED
  BY <1>2, <1>3, <1>4, <1>5, OneProcess

\* A new connection waits in the queue; nothing has been sent on it yet.
LEMMA ConnectKeeps ==
  ASSUME IInv, NEW p \in Proc, Connect(p, ~Ended), UNCHANGED server
  PROVE  IInv'
<1>1. /\ TypeOK /\ SessionInv /\ client[p] = "idle"
      /\ UNCHANGED <<toServer, toClient, confirmed, printed>>
      /\ UNCHANGED <<pc, pollfds, connfd, conn, fdsToUsers, arrived, taken>>
  BY DEF IInv, Connect, server, tables, udp
<1>2. /\ ServerTypeOK' /\ TableExact' /\ FdUserBijection' /\ TableFits'
      /\ (~Ended)' => ~Ended /\ ConnfdExact' /\ PolledOpen' /\ UsersKnown'
  BY ServerKept
<1>3. CASE Ended
  <2>1. client' = [client EXCEPT ![p] = "exited"] /\ UNCHANGED <<backlog, srvSock, cliSock>>
    BY <1>3 DEF Connect
  <2>2. TypeOK'
    BY <1>1, <1>2, <2>1 DEF TypeOK, NetworkTypeOK, SubscriberTypeOK
  <2>3. SessionInv'
    BY <1>1, <1>2, <1>3 DEF SessionInv, RefusalIsSafe, FramesInPlace, Ended
  <2> QED
    BY <2>2, <2>3 DEF IInv
<1>4. CASE ~Ended
  <2>1. /\ client' = [client EXCEPT ![p] = "connected"]
        /\ backlog' = Append(backlog, p)
        /\ srvSock' = [srvSock EXCEPT ![p] = "open"]
        /\ cliSock' = [cliSock EXCEPT ![p] = "open"]
    BY <1>4 DEF Connect
  <2>2. /\ client'[p] = "connected" /\ srvSock'[p] = "open" /\ cliSock'[p] = "open"
        /\ \A q \in Proc \ {p} :
              /\ client'[q] = client[q] /\ srvSock'[q] = srvSock[q]
              /\ cliSock'[q] = cliSock[q]
    BY <1>1, <2>1 DEF TypeOK, NetworkTypeOK, SubscriberTypeOK
  <2>3. TypeOK'
    BY <1>1, <1>2, <2>1 DEF TypeOK, NetworkTypeOK, SubscriberTypeOK, SocketState
  <2>4. /\ ~Queued(p) /\ toServer[p] = <<>> /\ toClient[p] = <<>>
        /\ \A f \in Fd : conn[f] # NoProc => conn[f] \in Proc \ {p}
        /\ \A f \in Fd : conn[f] # p
    BY <1>1, <1>4, NoProcAssumption
       DEF SessionInv, ProcessExact, NothingSentYet, TypeOK, ServerTypeOK
  <2>5. /\ backlog \in Seq(Proc) /\ Len(backlog) \in Nat
        /\ DOMAIN backlog = 1 .. Len(backlog)
        /\ DOMAIN backlog' = 1 .. Len(backlog) + 1
        /\ backlog'[Len(backlog) + 1] = p
        /\ \A i \in 1 .. Len(backlog) : backlog'[i] = backlog[i]
    BY <1>1, <2>1 DEF TypeOK, NetworkTypeOK
  <2>6. \A q : Queued(q)' <=> Queued(q) \/ q = p
    BY <2>5 DEF Queued
  <2>7. /\ connfd \in Fd => conn[connfd] \in Proc \ {p}
        /\ pc \in {"register", "login"} => connfd \in Fd
        /\ \A f \in Fd : fdsToUsers[f] # NoUser => conn[f] \in Proc \ {p}
        /\ ConnfdExact' /\ PolledOpen' /\ UsersKnown'
    BY <1>1, <1>2, <1>4, <2>4 DEF SessionInv, ConnfdExact, TableExact, Ended
  <2>8. RefusalIsSafe' /\ FramesInPlace'
    BY <1>1, <1>4, <2>2, <2>7 DEF SessionInv, RefusalIsSafe, FramesInPlace, Ended
  <2>9. QueueExact'
    <3>1. \A i, j \in DOMAIN backlog' : backlog'[i] = backlog'[j] => i = j
      BY <1>1, <1>4, <2>4, <2>5 DEF SessionInv, QueueExact, Queued
    <3>2. \A f \in Fd : ~Queued(conn[f])'
      <4>1. \A f \in Fd : ~Queued(conn[f]) /\ conn[f] # p
        BY <1>1, <1>4, <2>4 DEF SessionInv, QueueExact
      <4> QED
        BY <1>1, <2>5, <4>1 DEF Queued
    <3> QED
      BY <1>1, <1>4, <2>5, <3>1, <3>2 DEF SessionInv, QueueExact
  <2>10. NothingSentYet'
    BY <1>1, <1>4, <2>2, <2>4, <2>6 DEF SessionInv, NothingSentYet
  <2>11. ProcessExact'
    BY <1>1, <1>4, <2>2, <2>4, <2>6, <2>7 DEF SessionInv, ProcessExact
  <2>12. IntroducedFirst'
    <3>1. Introduced(p)'
      BY <1>1, <2>2, <2>4 DEF Introduced
    <3>2. \A q \in Proc \ {p} : Introduced(q)' <=> Introduced(q)
      BY <1>1, <2>2 DEF Introduced
    <3>3. ASSUME connfd \in Fd PROVE Introduced(conn[connfd])'
      <4>1. Introduced(conn[connfd])
        BY <1>1, <1>4, <3>3 DEF SessionInv, IntroducedFirst
      <4> QED
        BY <1>1, <2>2, <2>7, <3>3, <4>1 DEF Introduced
    <3> QED
      BY <1>1, <1>4, <2>6, <3>1, <3>2, <3>3 DEF SessionInv, IntroducedFirst
  <2> QED
    BY <1>2, <2>3, <2>7, <2>8, <2>9, <2>10, <2>11, <2>12 DEF IInv, SessionInv
<1> QED
  BY <1>3, <1>4

-----------------------------------------------------------------------------
\* Every step of the system keeps the invariant.
LEMMA NextKeeps ==
  ASSUME IInv, [Next]_vars
  PROVE  IInv'
<1>1. CASE UNCHANGED vars
  <2>1. UNCHANGED server /\ UNCHANGED network /\ UNCHANGED subscriber
    BY <1>1 DEF vars
  <2>2. /\ ServerTypeOK' /\ TableExact' /\ FdUserBijection' /\ TableFits'
        /\ (~Ended)' => ~Ended /\ ConnfdExact' /\ PolledOpen' /\ UsersKnown'
    BY <2>1, ServerKept
  <2>3. TypeOK'
    BY <2>1, <2>2 DEF IInv, TypeOK, NetworkTypeOK, SubscriberTypeOK, network, subscriber
  <2>4. UNCHANGED <<pc, pollfds, connfd, conn, fdsToUsers, arrived, taken>>
    BY <2>1 DEF server, tables, udp
  <2>5. RefusalIsSafe' /\ FramesInPlace'
    BY <2>1, <2>4 DEF IInv, SessionInv, RefusalIsSafe, FramesInPlace, network, Ended
  <2>6. (~Ended)' => QueueExact' /\ NothingSentYet' /\ ProcessExact'
    BY <2>1, <2>2, <2>4 DEF IInv, SessionInv, QueueExact, NothingSentYet, ProcessExact, Queued,
       network, subscriber
  <2>7. (~Ended)' => IntroducedFirst'
    BY <2>1, <2>2, <2>4 DEF IInv, SessionInv, IntroducedFirst, Introduced, Queued,
       network, subscriber
  <2> QED
    BY <2>2, <2>3, <2>5, <2>6, <2>7 DEF IInv, SessionInv
<1>2. CASE ServerStep /\ UNCHANGED subscriber
  BY <1>2, PollKeeps, TurnKeeps, AcceptKeeps, RefusalKeeps, AddFdKeeps, LoginKeeps,
     UdpKeeps, FanoutKeeps, ScanCommandKeeps, ScanDisconnectKeeps, FreeStepKeeps,
     EndKeeps
  DEF ServerStep
<1>3. CASE ServerEnvironment /\ UNCHANGED subscriber
  BY <1>3, TurnKeeps, ArrivalKeeps DEF ServerEnvironment
<1>4. ASSUME NEW p \in Proc, SubscriberStep(p) PROVE IInv'
  BY <1>4, SendIdKeeps, ReceiveKeeps, ResetKeeps DEF SubscriberStep
<1>5. ASSUME NEW p \in Proc, UserStep(p) PROVE IInv'
  BY <1>5, ConnectKeeps, TypeCommandKeeps, QuitKeeps DEF UserStep
<1>6. ASSUME NEW p \in Proc, Reset(p) PROVE IInv'
  BY <1>6, ResetKeeps DEF Reset
<1> QED
  BY <1>1, <1>2, <1>3, <1>4, <1>5, <1>6 DEF Next

\* The server's tables, the kernel's queues and the processes agree while the
\* server is up: what main of server.cpp relies on when it follows a
\* descriptor from the poll table to a user and back.
THEOREM SessionsAgree == Spec => []IInv
<1>1. Init => IInv
  BY InitCorrect
<1>2. IInv /\ [Next]_vars => IInv'
  BY NextKeeps
<1> QED
  BY <1>1, <1>2, PTL DEF Spec

\* Every variable of the system has the values its declaration in the code
\* allows, for any number of processes, users and descriptors.
THEOREM TypeCorrect == Spec => []TypeOK
<1>1. IInv => TypeOK
  BY DEF IInv
<1> QED
  BY <1>1, SessionsAgree, PTL

\* remove, removeLast and the reuse of descriptors keep the poll table
\* without duplicates, and every open descriptor has one owner.
THEOREM TableStaysExact == Spec => []TableExact
<1>1. IInv => TableExact
  BY DEF IInv, SessionInv
<1> QED
  BY <1>1, SessionsAgree, PTL

\* fdsToUsers and the descriptors kept in userSubscriptions are inverse to
\* each other, and agree with the ids the processes were started with.
THEOREM FdAndUserMatch == Spec => []FdUserBijection
<1>1. IInv => FdUserBijection
  BY DEF IInv, SessionInv
<1> QED
  BY <1>1, SessionsAgree, PTL

\* addFd enlarges the table in time.
THEOREM NoOverrun == Spec => []TableFits
<1>1. IInv => TableFits
  BY DEF IInv, SessionInv
<1> QED
  BY <1>1, SessionsAgree, PTL

\* The server survives telling a subscriber that its login failed.
THEOREM RefusalCannotKill == Spec => []RefusalIsSafe
<1>1. IInv => RefusalIsSafe
  BY DEF IInv, SessionInv
<1> QED
  BY <1>1, SessionsAgree, PTL

\* No id is ever taken for a command or a command for an id.
THEOREM FramesKeepTheirPlace == Spec => []FramesInPlace
<1>1. IInv => FramesInPlace
  BY DEF IInv, SessionInv
<1> QED
  BY <1>1, SessionsAgree, PTL

\* A step that leaves a user's log alone does not forget.
LEMMA LogKept ==
  ASSUME IInv, NEW u \in UserId,
         userSubscriptions'[u].subscriptions = userSubscriptions[u].subscriptions
  PROVE  LET old == userSubscriptions[u].subscriptions
             new == userSubscriptions'[u].subscriptions
         IN  Len(old) <= Len(new) /\ SubSeq(new, 1, Len(old)) = old
<1>1. userSubscriptions[u].subscriptions \in Seq(Subscription)
  BY DEF IInv, TypeOK, ServerTypeOK, User
<1> QED
  BY <1>1

\* Login, commands and logout only ever add to a log: a user who comes back
\* finds every request that was noted, in the order of service.
LEMMA StepForgetsNothing ==
  ASSUME IInv, [Next]_vars
  PROVE  LogsGrow
<1>1. CASE userSubscriptions' = userSubscriptions
  BY <1>1, LogKept DEF LogsGrow
<1>2. ASSUME NEW u \in UserId, NEW log, Enter(u, log),
             log = userSubscriptions[u].subscriptions
      PROVE  LogsGrow
  <2>1. userSubscriptions \in [UserId -> User]
    BY DEF IInv, TypeOK, ServerTypeOK
  <2>2. \A v \in UserId :
          userSubscriptions'[v].subscriptions = userSubscriptions[v].subscriptions
    BY <1>2, <2>1 DEF Enter
  <2> QED
    BY <2>2, LogKept DEF LogsGrow
<1>3. CASE LoginNew
  <2>1. PICK u \in UserId : IdReceived(u) /\ u \notin userIdSet /\ Enter(u, <<>>)
    BY <1>3 DEF LoginNew
  <2>2. <<>> = userSubscriptions[u].subscriptions
    BY <2>1 DEF IInv, SessionInv, UsersKnown, IdReceived, Ended
  <2> QED
    BY <1>2, <2>1, <2>2
<1>4. CASE LoginBack
  BY <1>2, <1>4 DEF LoginBack
<1>5. CASE ScanCommand
  <2>1. PICK i \in DOMAIN pollfds :
          LET f == pollfds[i].fd
              p == conn[f]
              u == fdsToUsers[f]
              frame == Head(toServer[p])
          IN /\ Scanning(i)
             /\ toServer[p] # <<>>
             /\ \/ userSubscriptions' = userSubscriptions
                \/ userSubscriptions' = [userSubscriptions EXCEPT ![u].subscriptions =
                     AddSubscription(@, FirstWord[frame.topic], frame.command = "subscribe")]
    BY <1>5 DEF ScanCommand
  <2> DEFINE p == conn[pollfds[i].fd]
             u == fdsToUsers[pollfds[i].fd]
             frame == Head(toServer[p])
             old == userSubscriptions[u].subscriptions
             new == AddSubscription(old, FirstWord[frame.topic], frame.command = "subscribe")
  <2>2. /\ userSubscriptions \in [UserId -> User] /\ u \in UserId /\ old \in Seq(Subscription)
        /\ pollfds[i].fd \in Fd /\ p \in Proc /\ u # NoUser /\ ~Ended
    <3>1. /\ pollfds[i].fd \in Fd /\ p \in Proc /\ u \in UserId /\ ~Ended
      BY <2>1, ScanFinds
    <3>2. userSubscriptions \in [UserId -> User]
      BY DEF IInv, TypeOK, ServerTypeOK
    <3> QED
      BY <3>1, <3>2, IdAssumption DEF User
  <2>3. FirstWord[frame.topic] \in String
    <3>1. \A k \in DOMAIN toServer[p] : toServer[p][k] \in Request
      BY <2>2 DEF IInv, SessionInv, FramesInPlace
    <3>2. toServer[p] \in Seq(IdFrame \cup Request) /\ toServer[p] # <<>>
      BY <2>1, <2>2 DEF IInv, TypeOK
    <3>3. frame = toServer[p][1] /\ 1 \in DOMAIN toServer[p]
      BY <3>2
    <3> QED
      BY <3>1, <3>3, FirstWordAssumption DEF Request
  <2>4. Len(old) <= Len(new) /\ SubSeq(new, 1, Len(old)) = old
    BY <2>2, <2>3, AddSubscriptionExtends
  <2>5. CASE userSubscriptions' = [userSubscriptions EXCEPT ![u].subscriptions = new]
    <3> HIDE DEF new
    <3>1. /\ userSubscriptions'[u].subscriptions = new
          /\ \A v \in UserId \ {u} : userSubscriptions'[v] = userSubscriptions[v]
      <4>1. userSubscriptions' = [userSubscriptions EXCEPT ![u] =
                                    [userSubscriptions[u] EXCEPT !.subscriptions = new]]
        BY <2>2, <2>5
      <4>2. [userSubscriptions[u] EXCEPT !.subscriptions = new].subscriptions = new
        BY <2>2 DEF User
      <4> QED
        BY <2>2, <4>1, <4>2
    <3> QED
      BY <2>4, <3>1, LogKept DEF LogsGrow
  <2> QED
    BY <1>1, <2>1, <2>5
<1>6. CASE ScanDisconnect
  <2>1. userSubscriptions \in [UserId -> User]
    BY DEF IInv, TypeOK, ServerTypeOK
  <2>2. PICK w : userSubscriptions' = [userSubscriptions EXCEPT ![w].active = FALSE]
    BY <1>6 DEF ScanDisconnect, LogOut
  <2>3. \A v \in UserId :
          userSubscriptions'[v].subscriptions = userSubscriptions[v].subscriptions
    BY <2>1, <2>2 DEF User
  <2> QED
    BY <2>3, LogKept DEF LogsGrow
<1>7. CASE /\ ServerStep \/ ServerEnvironment
           /\ ~LoginNew /\ ~LoginBack /\ ~ScanCommand /\ ~ScanDisconnect
  <2>1. userSubscriptions' = userSubscriptions
    BY <1>7 DEF ServerStep, ServerEnvironment, Poll, Stdin, AcceptFails, Accept,
       SetsockoptFails, AddFdFails, AddFd, LoginRefused, LoginInvalid, Refuse, Drop, Udp,
       Fanout, ScanDone, FreeStep, FreeDone, Sigpipe, End, Signal, Arrive, TypeExit, tables
  <2> QED
    BY <1>1, <2>1
<1>8. CASE UNCHANGED vars \/ \E p \in Proc : SubscriberStep(p) \/ UserStep(p) \/ Reset(p)
  <2>1. userSubscriptions' = userSubscriptions
    BY <1>8 DEF vars, server, tables, SubscriberStep, UserStep, Reset
  <2> QED
    BY <1>1, <2>1
<1> QED
  BY <1>3, <1>4, <1>5, <1>6, <1>7, <1>8 DEF Next

\* What a user asked for and the server noted is never lost while the server
\* runs, through any sequence of sessions.
THEOREM LogsAreKept == Spec => NothingForgotten
<1>1. IInv /\ [Next]_vars => LogsGrow
  BY StepForgetsNothing
<1> QED
  BY <1>1, SessionsAgree, PTL DEF Spec, NothingForgotten

-----------------------------------------------------------------------------
\* s is the beginning of t; s is t with m behind it.
Begins(s, t) == Len(s) <= Len(t) /\ \A k \in 1 .. Len(s) : s[k] = t[k]
Longer(s, t, m) ==
  /\ Len(s) = Len(t) + 1 /\ s[Len(t) + 1] = m
  /\ \A k \in 1 .. Len(t) : s[k] = t[k]

\* What is read and what waits make one sequence.
LEMMA JoinIs ==
  ASSUME NEW s \in Seq(Nat), NEW t \in Seq(Nat)
  PROVE  /\ s \o t \in Seq(Nat)
         /\ Len(s \o t) = Len(s) + Len(t)
         /\ \A k \in 1 .. Len(s) : (s \o t)[k] = s[k]
         /\ \A k \in 1 .. Len(t) : (s \o t)[Len(s) + k] = t[k]
  OBVIOUS

\* Joining is associative, element by element.
LEMMA Regroup ==
  ASSUME NEW s \in Seq(Nat), NEW t \in Seq(Nat), NEW u \in Seq(Nat)
  PROVE  (s \o t) \o u = s \o (t \o u)
<1> DEFINE x == (s \o t) \o u
           y == s \o (t \o u)
<1>1. x \in Seq(Nat) /\ y \in Seq(Nat) /\ Len(x) = Len(y)
  OBVIOUS
<1>2. \A i \in 1 .. Len(x) : x[i] = y[i]
  OBVIOUS
<1> HIDE DEF x, y
<1>3. x = y
  BY <1>1, <1>2, SeqEqual
<1> QED
  BY <1>3 DEF x, y

\* What is read from a queue and written behind a list stays where it was.
LEMMA MovingHead ==
  ASSUME NEW s \in Seq(Nat), NEW t \in Seq(Nat), t # <<>>
  PROVE  Append(s, Head(t)) \o Tail(t) = s \o t
<1>1. Head(t) \in Nat /\ Tail(t) \in Seq(Nat) /\ <<Head(t)>> \in Seq(Nat)
  BY HeadTailProperties
<1>2. Append(s, Head(t)) = s \o <<Head(t)>>
  BY <1>1, AppendIsConcat
<1>3. (s \o <<Head(t)>>) \o Tail(t) = s \o (<<Head(t)>> \o Tail(t))
  BY <1>1, Regroup
<1>4. <<Head(t)>> \o Tail(t) = t
  <2>1. /\ <<Head(t)>> \o Tail(t) \in Seq(Nat)
        /\ Len(<<Head(t)>> \o Tail(t)) = Len(t)
        /\ \A i \in 1 .. Len(t) : (<<Head(t)>> \o Tail(t))[i] = t[i]
    BY <1>1
  <2> QED
    BY <2>1, SeqEqual
<1> QED
  BY <1>2, <1>3, <1>4

\* Notifications ascend, and "shutdown" is behind them all.
Ordered(r) ==
  \A j, k \in DOMAIN r :
    j < k => \/ r[j] # Shutdown /\ r[j] < r[k]
             \/ r[k] = Shutdown

\* Whoever has only the beginning left has nothing new.
LEMMA BeginningIn ==
  ASSUME NEW r \in Seq(Nat), NEW s \in Seq(Nat), Begins(s, r)
  PROVE  \A k \in DOMAIN s : k \in DOMAIN r /\ s[k] = r[k]
<1>1. PICK n \in Nat : n = Len(r)
  OBVIOUS
<1>2. PICK m \in Nat : m = Len(s)
  OBVIOUS
<1>3. /\ DOMAIN r = 1 .. n /\ DOMAIN s = 1 .. m
      /\ \A k \in 1 .. m : s[k] = r[k]
  BY <1>1, <1>2 DEF Begins
<1>4. m <= n
  BY <1>1, <1>2 DEF Begins
<1> QED
  BY <1>3, <1>4

\* What is left of a sequence in order is in order ...
LEMMA OrderedBeginning ==
  ASSUME NEW r \in Seq(Nat), NEW s \in Seq(Nat), Begins(s, r), Ordered(r)
  PROVE  Ordered(s)
<1>1. \A k \in DOMAIN s : k \in DOMAIN r /\ s[k] = r[k]
  BY BeginningIn
<1> QED
  BY <1>1 DEF Ordered

\* ... and so it is with one more at its end that is later than the others.
LEMMA OrderedLonger ==
  ASSUME NEW r \in Seq(Nat), NEW s \in Seq(Nat), NEW m \in Nat, Longer(s, r, m),
         Ordered(r),
         m = Shutdown \/ \A k \in 1 .. Len(r) : r[k] # Shutdown /\ r[k] < m
  PROVE  Ordered(s)
<1>1. PICK n \in Nat : n = Len(r)
  OBVIOUS
<1>2. /\ DOMAIN s = 1 .. n + 1 /\ s[n + 1] = m /\ DOMAIN r = 1 .. n
      /\ \A k \in 1 .. n : s[k] = r[k] /\ r[k] \in Nat
  BY <1>1 DEF Longer
<1>3. \A j \in 1 .. n + 1 : j \in 1 .. n \/ j = n + 1
  BY <1>1
<1>4. ASSUME NEW j \in 1 .. n + 1, NEW k \in 1 .. n + 1, j < k
      PROVE  (s[j] # Shutdown /\ s[j] < s[k]) \/ s[k] = Shutdown
  <2>1. CASE k = n + 1
    <3>1. j \in 1 .. n
      BY <1>3, <1>4, <2>1
    <3> QED
      BY <1>1, <1>2, <2>1, <3>1
  <2>2. CASE k \in 1 .. n
    <3>1. j \in 1 .. n
      BY <1>1, <1>4, <2>2
    <3> QED
      BY <1>2, <1>4, <2>2, <3>1 DEF Ordered
  <2> QED
    BY <1>3, <2>1, <2>2
<1> QED
  BY <1>2, <1>4 DEF Ordered

\* Joining has no surprises for what a process has, before and after a step.
LEMMA ReceivedIs ==
  ASSUME IInv, IInv', NEW q \in Proc
  PROVE  /\ Received(q) \in Seq(Nat) /\ Received(q)' \in Seq(Nat)
         /\ printed[q] \in Seq(Nat) /\ toClient[q] \in Seq(Nat)
         /\ printed'[q] \in Seq(Nat) /\ toClient'[q] \in Seq(Nat)
         /\ Received(q) = printed[q] \o toClient[q]
         /\ Received(q)' = printed'[q] \o toClient'[q]
<1>1. /\ printed[q] \in Seq(Nat) /\ toClient[q] \in Seq(Nat)
      /\ printed'[q] \in Seq(Nat) /\ toClient'[q] \in Seq(Nat)
  BY DEF IInv, TypeOK, SubscriberTypeOK
<1> QED
  BY <1>1, JoinIs DEF Received

\* A server's step that sends nothing.
Silent ==
  \/ Poll \/ Stdin \/ AcceptFails \/ Accept \/ SetsockoptFails \/ AddFd
  \/ LoginNew \/ LoginBack \/ Udp \/ ScanCommand \/ ScanDisconnect \/ ScanDone
  \/ FreeDone \/ Sigpipe \/ Signal \/ Arrive \/ TypeExit

LEMMA SilentSends ==
  ASSUME Silent
  PROVE  toClient' = toClient
  BY DEF Silent, Poll, Stdin, AcceptFails, Accept, SetsockoptFails, AddFd, LoginNew,
     LoginBack, Enter, Udp, ScanCommand, ScanDisconnect, ScanDone, FreeDone, Sigpipe, End,
     Signal, Arrive, TypeExit, network

\* What a process' own step does to what it has.
LEMMA ProcessReceives ==
  ASSUME IInv, IInv', NEW p \in Proc, SubscriberStep(p) \/ UserStep(p) \/ Reset(p),
         ToldLast, NEW q \in Proc
  PROVE  /\ Begins(Received(q)', Received(q))
         /\ \A k \in DOMAIN printed'[q] : printed'[q][k] # Shutdown
         /\ client[q] # "idle" /\ srvSock'[q] = "open" =>
              srvSock[q] = "open" /\ Received(q)' = Received(q)
<1>1. /\ Received(q) \in Seq(Nat) /\ Received(q)' \in Seq(Nat)
      /\ printed[q] \in Seq(Nat) /\ toClient[q] \in Seq(Nat)
      /\ printed'[q] \in Seq(Nat) /\ toClient'[q] \in Seq(Nat)
      /\ Received(q) = printed[q] \o toClient[q]
      /\ Received(q)' = printed'[q] \o toClient'[q]
  BY ReceivedIs
<1>2. \A k \in DOMAIN printed[q] : printed[q][k] # Shutdown
  BY DEF ToldLast
<1>3. /\ printed \in [Proc -> Seq(Nat)] /\ toClient \in [Proc -> Seq(Nat)]
      /\ srvSock \in [Proc -> SocketState]
  BY DEF IInv, TypeOK, SubscriberTypeOK, NetworkTypeOK
<1>4. CASE printed'[q] = printed[q] /\ toClient'[q] = toClient[q]
  <2>1. Received(q)' = Received(q)
    BY <1>1, <1>4
  <2>2. client[q] # "idle" /\ srvSock'[q] = "open" => srvSock[q] = "open"
    BY <1>3 DEF SubscriberStep, UserStep, Reset, SendId, ClientSend, Receive, ReceiveReset,
       Connect, TypeCommand, TypeCommandSigpipe, Quit, Leave, PeerAfterClose,
       ResetServerEnd, ResetClientEnd
  <2> QED
    BY <1>1, <1>2, <1>4, <2>1, <2>2 DEF Begins
<1>5. CASE /\ q = p /\ printed' = printed /\ toClient'[p] = <<>>
           /\ srvSock'[p] # "open"
  <2>1. Received(q)' = printed[q]
    BY <1>1, <1>5, ConcatEmptySeq
  <2>2. Begins(printed[q], printed[q] \o toClient[q])
    <3> DEFINE s == printed[q]  t == toClient[q]
    <3>1. s \in Seq(Nat) /\ t \in Seq(Nat)
      BY <1>1
    <3> HIDE DEF s, t
    <3>2. Len(s) \in Nat /\ Len(t) \in Nat
      BY <3>1
    <3>3. Begins(s, s \o t)
      BY <3>1, <3>2, JoinIs DEF Begins
    <3> QED
      BY <3>3 DEF s, t
  <2> QED
    BY <1>1, <1>2, <1>5, <2>1, <2>2
<1>6. CASE /\ q = p /\ toClient[p] # <<>> /\ Head(toClient[p]) # Shutdown
           /\ printed' = [printed EXCEPT ![p] = Append(@, Head(toClient[p]))]
           /\ toClient' = [toClient EXCEPT ![p] = Tail(@)]
           /\ UNCHANGED srvSock
  <2> DEFINE s == printed[q]  t == toClient[q]
  <2>1. /\ s \in Seq(Nat) /\ t \in Seq(Nat) /\ t # <<>>
        /\ printed'[q] = Append(s, Head(t)) /\ toClient'[q] = Tail(t)
    BY <1>1, <1>3, <1>6
  <2> HIDE DEF s, t
  <2>2. Append(s, Head(t)) \o Tail(t) = s \o t
    BY <2>1, MovingHead
  <2>3. Received(q)' = Received(q)
    BY <1>1, <2>1, <2>2 DEF s, t
  <2>4. \A k \in DOMAIN Append(s, Head(t)) :
          \/ k \in DOMAIN s /\ Append(s, Head(t))[k] = s[k]
          \/ Append(s, Head(t))[k] = Head(t)
    BY <2>1
  <2>5. \A k \in DOMAIN printed'[q] : printed'[q][k] # Shutdown
    BY <1>2, <1>6, <2>1, <2>4 DEF s, t
  <2> QED
    <3>1. Begins(Received(q), Received(q))
      BY <1>1 DEF Begins
    <3> QED
      BY <1>6, <2>3, <2>5, <3>1
<1>7. \/ printed'[q] = printed[q] /\ toClient'[q] = toClient[q]
      \/ /\ q = p /\ printed' = printed /\ toClient'[p] = <<>>
         /\ srvSock'[p] # "open"
      \/ /\ q = p /\ toClient[p] # <<>> /\ Head(toClient[p]) # Shutdown
         /\ printed' = [printed EXCEPT ![p] = Append(@, Head(toClient[p]))]
         /\ toClient' = [toClient EXCEPT ![p] = Tail(@)]
         /\ UNCHANGED srvSock
  <2>1. CASE Quit(p) \/ TypeCommandSigpipe(p)
    BY <1>3, <2>1 DEF Quit, TypeCommandSigpipe, Leave, PeerAfterClose
  <2>2. CASE Receive(p)
    <3>1. CASE Head(toClient[p]) = Shutdown
      BY <1>3, <2>2, <3>1 DEF Receive, PeerAfterClose
    <3>2. CASE Head(toClient[p]) # Shutdown
      BY <1>3, <2>2, <3>2 DEF Receive
    <3> QED
      BY <3>1, <3>2
  <2>3. CASE ~Quit(p) /\ ~TypeCommandSigpipe(p) /\ ~Receive(p)
    BY <2>3 DEF SubscriberStep, UserStep, Reset, SendId, ClientSend, ReceiveReset,
       Connect, TypeCommand, ResetServerEnd, ResetClientEnd, subscriber
  <2> QED
    BY <2>1, <2>2, <2>3
<1> QED
  BY <1>4, <1>5, <1>6, <1>7

\* The server's own steps end nobody's output.
LEMMA SilentReceives ==
  ASSUME IInv, IInv', toClient' = toClient, UNCHANGED subscriber, NEW q \in Proc
  PROVE  Received(q)' = Received(q) /\ printed'[q] = printed[q]
<1>1. Received(q) = printed[q] \o toClient[q] /\ Received(q)' = printed'[q] \o toClient'[q]
  BY ReceivedIs
<1> QED
  BY <1>1 DEF subscriber

\* sendTcp to a process, seen from all of them.
LEMMA SendReceives ==
  ASSUME IInv, IInv', NEW p \in Proc, NEW m \in Nat, UNCHANGED subscriber,
         toClient' = Delivered(toClient, srvSock, p, m), NEW q \in Proc
  PROVE  /\ printed'[q] = printed[q]
         /\ q = p /\ srvSock[p] = "open" =>
              /\ Longer(Received(q)', Received(q), m)
              /\ toClient'[q] = Append(toClient[q], m)
         /\ q # p \/ srvSock[p] # "open" =>
              Received(q)' = Received(q) /\ toClient'[q] = toClient[q]
<1>1. /\ printed[q] \in Seq(Nat) /\ toClient[q] \in Seq(Nat)
      /\ Received(q) = printed[q] \o toClient[q]
      /\ Received(q)' = printed'[q] \o toClient'[q]
  BY ReceivedIs
<1>2. printed'[q] = printed[q] /\ toClient \in [Proc -> Seq(Nat)]
  BY DEF subscriber, IInv, TypeOK
<1>3. CASE q # p \/ srvSock[p] # "open"
  BY <1>1, <1>2, <1>3 DEF Delivered
<1>4. CASE q = p /\ srvSock[p] = "open"
  <2> DEFINE s == printed[q]  t == toClient[q]
  <2>1. s \in Seq(Nat) /\ t \in Seq(Nat) /\ toClient'[q] = Append(t, m)
    BY <1>1, <1>2, <1>4 DEF Delivered
  <2> HIDE DEF s, t
  <2>2. /\ Append(t, m) \in Seq(Nat) /\ Len(Append(t, m)) = Len(t) + 1
        /\ \A i \in 1 .. Len(t) : Append(t, m)[i] = t[i]
        /\ Append(t, m)[Len(t) + 1] = m
    BY <2>1, AppendProperties
  <2>3. s \o Append(t, m) = Append(s \o t, m)
    <3>1. <<m>> \in Seq(Nat) /\ s \o t \in Seq(Nat)
      BY <2>1, JoinIs
    <3>2. Append(t, m) = t \o <<m>> /\ Append(s \o t, m) = (s \o t) \o <<m>>
      BY <2>1, <3>1, AppendIsConcat
    <3> QED
      BY <2>1, <3>1, <3>2, Regroup
  <2>4. Longer(Append(s \o t, m), s \o t, m)
    <3>1. s \o t \in Seq(Nat)
      BY <2>1, JoinIs
    <3> QED
      BY <3>1, AppendProperties DEF Longer
  <2>5. Received(q) = s \o t /\ Received(q)' = s \o Append(t, m)
    BY <1>1, <1>2, <2>1 DEF s, t
  <2> QED
    BY <1>2, <1>4, <2>1, <2>3, <2>4, <2>5 DEF t
<1> QED
  BY <1>3, <1>4

\* What was due stays so: datagrams are not taken back, nor subscriptions
\* forgotten.
LEMMA DueStays ==
  ASSUME IInv, [Next]_vars, NEW q \in Proc, NEW m \in Nat, Due(q, m)
  PROVE  Due(q, m)'
<1>1. LogsGrow
  BY StepForgetsNothing
<1>2. /\ taken \in Nat /\ taken' \in {taken, taken + 1}
      /\ arrived' = arrived \/ (~Ended /\ \E d : arrived' = Append(arrived, d))
  <2>1. taken \in Nat
    BY DEF IInv, TypeOK, ServerTypeOK
  <2>2. CASE UNCHANGED vars \/ \E p \in Proc : SubscriberStep(p) \/ UserStep(p) \/ Reset(p)
    BY <2>1, <2>2 DEF vars, server, udp, SubscriberStep, UserStep, Reset
  <2>3. CASE Arrive
    BY <2>1, <2>3 DEF Arrive
  <2>4. CASE Udp
    BY <2>1, <2>4 DEF Udp
  <2>5. CASE ScanCommand \/ ScanDisconnect
    BY <2>1, <2>5 DEF ScanCommand, ScanDisconnect, udp
  <2>6. CASE LoginNew \/ LoginBack
    BY <2>1, <2>6 DEF LoginNew, LoginBack, Enter, udp
  <2>7. CASE Poll \/ Stdin \/ AcceptFails \/ Accept \/ SetsockoptFails \/ AddFdFails \/ AddFd
             \/ LoginRefused \/ LoginInvalid \/ Fanout \/ ScanDone \/ FreeStep \/ FreeDone
             \/ Sigpipe \/ Signal \/ TypeExit
    BY <2>1, <2>7 DEF Poll, Stdin, AcceptFails, Accept, SetsockoptFails, AddFdFails, AddFd,
       LoginRefused, LoginInvalid, Refuse, Drop, Fanout, ScanDone, FreeStep, FreeDone,
       Sigpipe, End, Signal, TypeExit, udp
  <2> QED
    BY <2>2, <2>3, <2>4, <2>5, <2>6, <2>7 DEF Next, ServerStep, ServerEnvironment
<1>3. m \in 1 .. taken /\ IdOf[q] \in UserId /\ AskedFor(IdOf[q], arrived[m])
  BY DEF Due
<1>4. m \in 1 .. taken'
  BY <1>2, <1>3
<1>5. arrived'[m] = arrived[m]
  <2>1. CASE arrived' = arrived
    BY <2>1
  <2>2. ASSUME ~Ended, NEW d, arrived' = Append(arrived, d) PROVE arrived'[m] = arrived[m]
    <3>1. arrived \in Seq(Topic \cup {Malformed}) /\ taken <= Len(arrived)
      BY <2>2 DEF IInv, TypeOK, ServerTypeOK, SessionInv, QueueExact
    <3>2. m \in 1 .. Len(arrived)
      BY <1>2, <1>3, <3>1
    <3> QED
      BY <2>2, <3>1, <3>2
  <2> QED
    BY <1>2, <2>1, <2>2
<1>6. ASSUME NEW t, AskedFor(IdOf[q], t) PROVE AskedFor(IdOf[q], t)'
  <2> DEFINE old == userSubscriptions[IdOf[q]].subscriptions
             new == userSubscriptions'[IdOf[q]].subscriptions
  <2>1. Len(old) <= Len(new) /\ SubSeq(new, 1, Len(old)) = old
    BY <1>1, <1>3 DEF LogsGrow
  <2>2. old \in Seq(Subscription) /\ new \in Seq(Subscription)
    <3>1. IInv'
      BY NextKeeps
    <3> QED
      BY <1>3, <3>1 DEF IInv, TypeOK, ServerTypeOK, User
  <2>3. PICK i \in DOMAIN old : old[i].subscribed /\ Match(old[i].expression, t)
    BY <1>6 DEF AskedFor
  <2> HIDE DEF old, new
  <2>4. i \in DOMAIN new /\ new[i] = old[i]
    BY <2>1, <2>2
  <2>5. new[i].subscribed /\ Match(new[i].expression, t)
    BY <2>3, <2>4
  <2> QED
    BY <2>4, <2>5 DEF AskedFor, new
<1> QED
  BY <1>3, <1>4, <1>5, <1>6 DEF Due

\* Who is logged in has a connection of one's own.
LEMMA LoggedIn ==
  ASSUME IInv, ~Ended, NEW u \in UserId, userSubscriptions[u].active
  PROVE  LET f == userSubscriptions[u].fd
         IN  /\ f \in Fd /\ fdsToUsers[f] = u /\ conn[f] \in Proc
             /\ conn[f] # NoProc /\ IdOf[conn[f]] = u /\ client[conn[f]] # "idle"
             /\ \A g \in Fd : conn[g] = conn[f] => g = f
<1> DEFINE f == userSubscriptions[u].fd
<1>1. f \in Fd /\ fdsToUsers[f] = u /\ u # NoUser
  BY IdAssumption DEF IInv, SessionInv, FdUserBijection
<1>2. IdOf[conn[f]] = u
  BY <1>1 DEF IInv, SessionInv, FdUserBijection
<1>3. conn[f] \in Proc \cup {NoProc} /\ conn[f] # NoProc
  BY <1>1 DEF IInv, TypeOK, ServerTypeOK, SessionInv, TableExact
<1>4. client[conn[f]] # "idle"
  BY <1>1, <1>3 DEF IInv, SessionInv, ProcessExact
<1>5. \A g \in Fd : conn[g] = conn[f] => g = f
  BY <1>1, <1>3 DEF IInv, SessionInv, TableExact
<1> QED
  BY <1>1, <1>2, <1>3, <1>4, <1>5

\* What one step adds to what a process has.
LEMMA EachReceives ==
  ASSUME IInv, [Next]_vars, DeliveryInv, NEW q \in Proc
  PROVE  /\ \A k \in DOMAIN printed'[q] : printed'[q][k] # Shutdown
         /\ \/ Begins(Received(q)', Received(q))
            \/ \E m \in Nat :
                 /\ Longer(Received(q)', Received(q), m)
                 /\ \/ m = Shutdown /\ (pc = "free" \/ \A f \in Fd : conn'[f] # q)
                    \/ /\ Due(q, m)
                       /\ \A k \in DOMAIN Received(q) :
                            Received(q)[k] # Shutdown /\ Received(q)[k] < m
<1>1. IInv'
  BY NextKeeps
<1>2. ToldLast /\ OnlyDue
  BY DEF DeliveryInv
<1>3. \A k \in DOMAIN printed[q] : printed[q][k] # Shutdown
  BY <1>2 DEF ToldLast
<1>4. Begins(Received(q), Received(q)) /\ Received(q) \in Seq(Nat)
  <2>1. Received(q) \in Seq(Nat)
    BY <1>1, ReceivedIs
  <2> QED
    BY <2>1 DEF Begins
<1>5. CASE toClient' = toClient /\ UNCHANGED subscriber
  BY <1>1, <1>3, <1>4, <1>5, SilentReceives
<1>6. ASSUME NEW p \in Proc, SubscriberStep(p) \/ UserStep(p) \/ Reset(p)
      PROVE  /\ \A k \in DOMAIN printed'[q] : printed'[q][k] # Shutdown
             /\ Begins(Received(q)', Received(q))
  BY <1>1, <1>2, <1>6, ProcessReceives
<1>7. ASSUME UNCHANGED subscriber, NEW p \in Proc, NEW m \in Nat,
             toClient' = Delivered(toClient, srvSock, p, m)
      PROVE  /\ \A k \in DOMAIN printed'[q] : printed'[q][k] # Shutdown
             /\ \/ Begins(Received(q)', Received(q))
                \/ q = p /\ Longer(Received(q)', Received(q), m)
  <2>1. CASE q = p /\ srvSock[p] = "open"
    BY <1>1, <1>3, <1>7, <2>1, SendReceives
  <2>2. CASE q # p \/ srvSock[p] # "open"
    BY <1>1, <1>3, <1>4, <1>7, <2>2, SendReceives
  <2> QED
    BY <2>1, <2>2
<1>8. CASE (LoginRefused \/ LoginInvalid \/ AddFdFails) /\ UNCHANGED subscriber
  <2>1. toClient' = Delivered(toClient, srvSock, conn[connfd], Shutdown)
    BY <1>8 DEF LoginRefused, LoginInvalid, AddFdFails, Refuse
  <2>2. conn[connfd] \in Proc
    <3>1. connfd \in Fd /\ ~Ended
      BY <1>8 DEF LoginRefused, LoginInvalid, AddFdFails, IdReceived, IInv, SessionInv,
         ConnfdExact, Ended
    <3> QED
      BY <3>1, FdAssumption DEF IInv, TypeOK, ServerTypeOK, SessionInv, ConnfdExact
  <2>3. Shutdown \in Nat
    BY DEF Shutdown
  <2>4. \A f \in Fd : conn'[f] # conn[connfd]
    <3>1. /\ connfd \in Fd /\ ~Ended /\ conn' = [conn EXCEPT ![connfd] = NoProc]
          /\ conn \in [Fd -> Proc \cup {NoProc}]
      BY <1>8 DEF LoginRefused, LoginInvalid, AddFdFails, IdReceived, Refuse, Drop, IInv,
         SessionInv, ConnfdExact, Ended, TypeOK, ServerTypeOK
    <3>2. \A f \in Fd : conn[f] = conn[connfd] => f = connfd
      BY <2>2, <3>1, NoProcAssumption DEF IInv, SessionInv, TableExact
    <3> QED
      BY <2>2, <3>1, <3>2, NoProcAssumption
  <2> QED
    BY <1>7, <1>8, <2>1, <2>2, <2>3, <2>4
<1>9. CASE FreeStep /\ UNCHANGED subscriber
  <2>1. /\ toClient' = Delivered(toClient, srvSock, conn[pollfds[idx].fd], Shutdown)
        /\ pc = "free" /\ idx <= Len(pollfds)
    BY <1>9 DEF FreeStep, SendTo
  <2>2. conn[pollfds[idx].fd] \in Proc
    <3>1. ~Ended /\ idx \in DOMAIN pollfds
      BY <2>1 DEF Ended, IInv, TypeOK, ServerTypeOK
    <3>2. pollfds[idx].fd \in Fd
      <4>1. pollfds \in Seq(PollFd)
        BY DEF IInv, TypeOK, ServerTypeOK
      <4>2. pollfds[idx] \in PollFd
        BY <3>1, <4>1
      <4> QED
        BY <4>2 DEF PollFd
    <3> QED
      BY <3>1, <3>2 DEF IInv, TypeOK, ServerTypeOK, SessionInv, PolledOpen
  <2>3. Shutdown \in Nat
    BY DEF Shutdown
  <2> QED
    BY <1>7, <1>9, <2>1, <2>2, <2>3
<1>10. CASE Fanout /\ UNCHANGED subscriber
  <2>1. PICK u \in todo :
          /\ pc = "fanout"
          /\ toClient' = Delivered(toClient, srvSock, conn[userSubscriptions[u].fd], taken)
    BY <1>10 DEF Fanout, SendTo
  <2> DEFINE p == conn[userSubscriptions[u].fd]
  <2>2. ~Ended /\ u \in UserId /\ userSubscriptions[u].active
    BY <2>1 DEF Ended, IInv, TypeOK, ServerTypeOK, SessionInv, UsersKnown
  <2>3. p \in Proc /\ p # NoProc /\ IdOf[p] = u /\ userSubscriptions[u].fd \in Fd
    BY <2>2, LoggedIn
  <2>4. /\ taken \in Nat /\ taken > 0 /\ AskedFor(u, arrived[taken]) /\ ~Has(p, taken)
    BY <2>1, <2>2 DEF DeliveryInv, Halfway, IInv, TypeOK, ServerTypeOK
  <2>5. Due(p, taken)
    BY <2>2, <2>3, <2>4 DEF Due
  <2>6. ~Has(p, Shutdown)
    BY <1>2, <2>1, <2>2, <2>3 DEF ToldLast
  <2>7. ASSUME NEW k \in DOMAIN Received(p)
        PROVE  Received(p)[k] # Shutdown /\ Received(p)[k] < taken
    <3>1. Received(p)[k] # Shutdown /\ Received(p)[k] # taken
      BY <2>4, <2>6 DEF Has
    <3>2. Received(p)[k] \in 1 .. taken
      BY <1>2, <2>3, <3>1 DEF OnlyDue, Due
    <3> QED
      BY <2>4, <3>1, <3>2
  <2>8. \/ Begins(Received(q)', Received(q))
        \/ q = p /\ Longer(Received(q)', Received(q), taken)
    BY <1>7, <1>10, <2>1, <2>3, <2>4
  <2>9. \A k \in DOMAIN printed'[q] : printed'[q][k] # Shutdown
    BY <1>7, <1>10, <2>1, <2>3, <2>4
  <2> HIDE DEF p
  <2> QED
    BY <2>4, <2>5, <2>7, <2>8, <2>9
<1>11. CASE Silent /\ UNCHANGED subscriber
  BY <1>5, <1>11, SilentSends
<1>12. CASE UNCHANGED vars
  BY <1>5, <1>12 DEF vars, network
<1>13. [Next]_vars =>
         \/ UNCHANGED vars
         \/ (Silent \/ LoginRefused \/ LoginInvalid \/ AddFdFails \/ FreeStep \/ Fanout)
              /\ UNCHANGED subscriber
         \/ \E p \in Proc : SubscriberStep(p) \/ UserStep(p) \/ Reset(p)
  BY DEF Next, ServerStep, ServerEnvironment, Silent
<1> QED
  BY <1>6, <1>8, <1>9, <1>10, <1>11, <1>12, <1>13

\* Notifications stay in order, each due to its reader.
LEMMA OrderKept ==
  ASSUME IInv, [Next]_vars, DeliveryInv
  PROVE  InOrder' /\ OnlyDue'
<1>1. IInv'
  BY NextKeeps
<1>2. ASSUME NEW q \in Proc
      PROVE  /\ Ordered(Received(q)')
             /\ \A k \in DOMAIN Received(q)' : \E m \in Nat :
                  Received(q)'[k] = m /\ (m = Shutdown \/ Due(q, m)')
  <2>1. Received(q) \in Seq(Nat) /\ Received(q)' \in Seq(Nat)
    BY <1>1, ReceivedIs
  <2>2. Ordered(Received(q))
    BY DEF DeliveryInv, InOrder, Ordered
  <2>3. \A k \in DOMAIN Received(q) : \E m \in Nat :
          Received(q)[k] = m /\ (m = Shutdown \/ Due(q, m)')
    <3>1. ASSUME NEW k \in DOMAIN Received(q)
          PROVE  \E m \in Nat : Received(q)[k] = m /\ (m = Shutdown \/ Due(q, m)')
      <4>1. PICK m \in Nat : m = Received(q)[k]
        BY <2>1
      <4>2. m = Shutdown \/ Due(q, m)
        BY <4>1 DEF DeliveryInv, OnlyDue
      <4>3. m = Shutdown \/ Due(q, m)'
        BY <4>2, DueStays
      <4> QED
        BY <4>1, <4>3
    <3> QED
      BY <3>1
  <2>4. CASE Begins(Received(q)', Received(q))
    <3>1. Ordered(Received(q)')
      BY <2>1, <2>2, <2>4, OrderedBeginning
    <3>2. \A k \in DOMAIN Received(q)' :
            k \in DOMAIN Received(q) /\ Received(q)'[k] = Received(q)[k]
      BY <2>1, <2>4, BeginningIn
    <3> QED
      BY <2>3, <3>1, <3>2
  <2>5. ASSUME NEW m \in Nat, Longer(Received(q)', Received(q), m),
               \/ m = Shutdown
               \/ /\ Due(q, m)
                  /\ \A k \in DOMAIN Received(q) :
                       Received(q)[k] # Shutdown /\ Received(q)[k] < m
        PROVE  /\ Ordered(Received(q)')
               /\ \A k \in DOMAIN Received(q)' : \E n \in Nat :
                    Received(q)'[k] = n /\ (n = Shutdown \/ Due(q, n)')
    <3>1. Ordered(Received(q)')
      BY <2>1, <2>2, <2>5, OrderedLonger
    <3>2. m = Shutdown \/ Due(q, m)'
      BY <2>5, DueStays
    <3>3. \A k \in DOMAIN Received(q)' :
            \/ k \in DOMAIN Received(q) /\ Received(q)'[k] = Received(q)[k]
            \/ Received(q)'[k] = m
      BY <2>1, <2>5 DEF Longer
    <3> QED
      BY <2>3, <3>1, <3>2, <3>3
  <2> QED
    BY <2>4, <2>5, EachReceives
<1>3. InOrder'
  BY <1>2 DEF InOrder, Ordered
<1>4. OnlyDue'
  BY <1>2 DEF OnlyDue, Due
<1> QED
  BY <1>3, <1>4

\* A descriptor that is open after a step was open before, to the same
\* process, or takes one from the listening queue.
LEMMA ConnBefore ==
  ASSUME IInv, [Next]_vars, NEW f \in Fd, conn'[f] # NoProc
  PROVE  \/ conn'[f] = conn[f]
         \/ ~Ended /\ Queued(conn'[f]) /\ conn'[f] \in Proc /\ UNCHANGED <<toClient, srvSock, subscriber>>
<1>1. conn \in [Fd -> Proc \cup {NoProc}] /\ backlog \in Seq(Proc)
  BY DEF IInv, TypeOK, ServerTypeOK, NetworkTypeOK
<1>2. CASE Accept /\ UNCHANGED subscriber
  <2>1. ~Ended /\ backlog # <<>>
    BY <1>2 DEF Accept, Ended, IInv, SessionInv, QueueExact
  <2>2. Queued(Head(backlog)) /\ Head(backlog) \in Proc
    BY <1>1, <2>1 DEF Queued
  <2>3. PICK g \in Fd : conn' = [conn EXCEPT ![g] = Head(backlog)]
    BY <1>2 DEF Accept
  <2>4. UNCHANGED <<toClient, srvSock, subscriber>>
    BY <1>2 DEF Accept
  <2>5. conn'[f] = IF f = g THEN Head(backlog) ELSE conn[f]
    BY <1>1, <2>3
  <2> QED
    BY <2>1, <2>2, <2>4, <2>5
<1>3. CASE LoginRefused \/ LoginInvalid \/ AddFdFails \/ SetsockoptFails \/ ScanDisconnect
  <2>1. PICK g : conn' = [conn EXCEPT ![g] = NoProc]
    BY <1>3 DEF LoginRefused, LoginInvalid, AddFdFails, SetsockoptFails, ScanDisconnect,
       Refuse, Drop
  <2> QED
    BY <1>1, <2>1
<1>4. CASE Poll \/ Stdin \/ AcceptFails \/ AddFd \/ LoginNew \/ LoginBack \/ Udp \/ ScanCommand
           \/ ScanDone \/ FreeStep \/ FreeDone \/ Sigpipe \/ Signal \/ Arrive \/ TypeExit
           \/ Fanout
  BY <1>4 DEF Poll, Stdin, AcceptFails, AddFd, LoginNew, LoginBack, Enter, Udp, ScanCommand,
     ScanDone, FreeStep, FreeDone, Sigpipe, End, Signal, Arrive, TypeExit, Fanout
<1>5. CASE UNCHANGED vars \/ \E p \in Proc : SubscriberStep(p) \/ UserStep(p) \/ Reset(p)
  BY <1>5 DEF vars, server, SubscriberStep, UserStep, Reset
<1> QED
  BY <1>2, <1>3, <1>4, <1>5 DEF Next, ServerStep, ServerEnvironment

\* The server goes on stopping once it has begun to.
LEMMA StoppingOn ==
  ASSUME [Next]_vars, Ended \/ pc = "free"
  PROVE  Ended' \/ pc' = "free"
<1>1. CASE UNCHANGED pc
  BY <1>1 DEF Ended
<1>2. CASE FreeDone \/ Sigpipe \/ Signal
  BY <1>2 DEF FreeDone, Sigpipe, Signal, End, Ended
<1>3. CASE /\ ServerStep \/ ServerEnvironment
           /\ ~FreeDone /\ ~Sigpipe /\ ~Signal
  BY <1>1, <1>3 DEF ServerStep, ServerEnvironment, Poll, Stdin, AcceptFails, Accept,
     SetsockoptFails, AddFdFails, AddFd, LoginNew, LoginBack, LoginRefused, LoginInvalid,
     IdReceived, Udp, Fanout, ScanCommand, ScanDisconnect, Scanning, ScanDone, FreeStep,
     Arrive, TypeExit, Ended
<1> QED
  BY <1>1, <1>2, <1>3 DEF Next, vars, server, SubscriberStep, UserStep, Reset

\* Only the server, when it stops, and a refusal send "shutdown"; whoever is
\* refused has no descriptor any more.
LEMMA ToldLastKept ==
  ASSUME IInv, [Next]_vars, DeliveryInv
  PROVE  ToldLast'
<1>1. IInv'
  BY NextKeeps
<1>2. \A p \in Proc : \A k \in DOMAIN printed'[p] : printed'[p][k] # Shutdown
  BY EachReceives
<1>3. ASSUME ~Ended', pc' # "free", NEW f \in Fd, conn'[f] # NoProc
      PROVE  ~Has(conn[f], Shutdown)'
  <2>1. ~Ended /\ pc # "free"
    BY <1>3, StoppingOn
  <2>2. PICK q \in Proc : q = conn'[f]
    BY <1>1, <1>3 DEF IInv, TypeOK, ServerTypeOK
  <2>3. Received(q) \in Seq(Nat) /\ Received(q)' \in Seq(Nat)
    BY <1>1, ReceivedIs
  <2>4. ~Has(q, Shutdown)
    <3>1. CASE conn'[f] = conn[f]
      BY <1>3, <2>1, <2>2, <3>1 DEF DeliveryInv, ToldLast
    <3>2. CASE Queued(q)
      <4>1. toClient[q] = <<>>
        BY <2>1, <3>2 DEF IInv, SessionInv, NothingSentYet
      <4>2. Received(q) = printed[q]
        <5>1. Received(q) = printed[q] \o toClient[q] /\ printed[q] \in Seq(Nat)
          BY <1>1, ReceivedIs
        <5> QED
          BY <4>1, <5>1, ConcatEmptySeq
      <4> QED
        BY <4>2 DEF Has, DeliveryInv, ToldLast
    <3> QED
      BY <1>3, <2>2, <3>1, <3>2, ConnBefore
  <2>5. CASE Begins(Received(q)', Received(q))
    <3>1. \A k \in DOMAIN Received(q)' :
            k \in DOMAIN Received(q) /\ Received(q)'[k] = Received(q)[k]
      BY <2>3, <2>5, BeginningIn
    <3>2. ~Has(q, Shutdown)'
      BY <2>4, <3>1 DEF Has
    <3> QED
      BY <2>2, <3>2 DEF Has, Received
  <2>6. CASE ~Begins(Received(q)', Received(q))
    <3>1. PICK m \in Nat :
            /\ Longer(Received(q)', Received(q), m)
            /\ (m = Shutdown /\ \A g \in Fd : conn'[g] # q) \/ Due(q, m)
      BY <2>1, <2>6, EachReceives
    <3>2. m # Shutdown
      <4>1. taken \in Nat
        BY DEF IInv, TypeOK, ServerTypeOK
      <4> QED
        BY <1>3, <2>2, <3>1, <4>1 DEF Due, Shutdown
    <3>3. \A k \in DOMAIN Received(q)' :
            \/ k \in DOMAIN Received(q) /\ Received(q)'[k] = Received(q)[k]
            \/ Received(q)'[k] = m
      BY <2>3, <3>1 DEF Longer
    <3>4. ~Has(q, Shutdown)'
      BY <2>4, <3>2, <3>3 DEF Has
    <3> QED
      BY <2>2, <3>4 DEF Has, Received
  <2> QED
    BY <2>5, <2>6
<1> QED
  BY <1>2, <1>3 DEF ToldLast

\* A server that has ended does nothing more.
LEMMA UpBefore ==
  ASSUME [Next]_vars, ~Ended'
  PROVE  ~Ended
<1>1. CASE UNCHANGED pc
  BY <1>1 DEF Ended
<1>2. CASE ServerStep \/ ServerEnvironment
  BY <1>1, <1>2 DEF ServerStep, ServerEnvironment, Poll, Stdin, AcceptFails, Accept,
     SetsockoptFails, AddFdFails, AddFd, LoginNew, LoginBack, LoginRefused, LoginInvalid,
     IdReceived, Udp, Fanout, ScanCommand, ScanDisconnect, Scanning, ScanDone, FreeStep,
     FreeDone, Sigpipe, Signal, Arrive, TypeExit, Ended
<1> QED
  BY <1>1, <1>2 DEF Next, vars, server, SubscriberStep, UserStep, Reset

\* The server closes only what it forgets, and does not break what it keeps.
LEMMA ServerKeepsOpen ==
  ASSUME IInv, ~Ended, ~Ended', ServerStep \/ ServerEnvironment, UNCHANGED subscriber,
         NEW q \in Proc, Queued(q)' \/ \E f \in Fd : conn'[f] = q,
         srvSock[q] = "open"
  PROVE  srvSock'[q] = "open"
<1>1. srvSock \in [Proc -> SocketState] /\ conn \in [Fd -> Proc \cup {NoProc}]
  BY DEF IInv, TypeOK, ServerTypeOK, NetworkTypeOK
<1>2. ASSUME NEW f \in Fd, conn[f] # NoProc, NEW n \in Nat, Close(conn[f], n),
             conn' = [conn EXCEPT ![f] = NoProc]
      PROVE  srvSock'[q] = "open"
  <2>1. /\ srvSock' = [srvSock EXCEPT ![conn[f]] = "closed"]
        /\ backlog' = backlog
    BY <1>2 DEF Close
  <2>2. \A g \in Fd : conn[g] = conn[f] => g = f
    BY <1>2 DEF IInv, SessionInv, TableExact
  <2>3. ~Queued(conn[f])
    BY DEF IInv, SessionInv, QueueExact
  <2>4. \A g \in Fd : conn'[g] # conn[f]
    BY <1>1, <1>2, <2>2
  <2>5. q # conn[f]
    BY <2>1, <2>3, <2>4 DEF Queued
  <2> QED
    BY <1>1, <2>1, <2>5
<1>3. CASE LoginRefused \/ LoginInvalid \/ AddFdFails \/ SetsockoptFails
  <2>1. PICK n \in {0, 1} : Drop(n) /\ connfd \in Fd /\ conn[connfd] # NoProc
    BY <1>3 DEF LoginRefused, LoginInvalid, AddFdFails, SetsockoptFails, Refuse, IdReceived,
       IInv, SessionInv, ConnfdExact
  <2> QED
    BY <1>2, <2>1 DEF Drop
<1>4. CASE ScanDisconnect
  <2>1. PICK i \in DOMAIN pollfds :
          /\ Close(conn[pollfds[i].fd], 0)
          /\ conn' = [conn EXCEPT ![pollfds[i].fd] = NoProc]
    BY <1>4 DEF ScanDisconnect
  <2>2. pollfds[i].fd \in Fd
    <3>1. pollfds \in Seq(PollFd)
      BY DEF IInv, TypeOK, ServerTypeOK
    <3>2. pollfds[i] \in PollFd
      BY <3>1
    <3> QED
      BY <3>2 DEF PollFd
  <2>3. conn[pollfds[i].fd] # NoProc
    BY DEF IInv, SessionInv, PolledOpen
  <2> QED
    BY <1>2, <2>1, <2>2, <2>3
<1>5. CASE Fanout \/ FreeStep
  <2>1. PICK p : srvSock' = [srvSock EXCEPT ![p] = AfterSend(@)]
    BY <1>5 DEF Fanout, FreeStep, SendTo
  <2>2. AfterSend("open") = "open"
    BY DEF AfterSend
  <2> QED
    BY <1>1, <2>1, <2>2
<1>6. CASE FreeDone \/ Sigpipe
  BY <1>6 DEF FreeDone, Sigpipe, End, Ended
<1>7. CASE Poll \/ Stdin \/ AcceptFails \/ Accept \/ AddFd \/ LoginNew \/ LoginBack \/ Udp
           \/ ScanCommand \/ ScanDone \/ Signal \/ Arrive \/ TypeExit
  BY <1>7 DEF Poll, Stdin, AcceptFails, Accept, AddFd, LoginNew, LoginBack, Enter, Udp,
     ScanCommand, ScanDone, Signal, Arrive, TypeExit, network
<1> QED
  BY <1>3, <1>4, <1>5, <1>6, <1>7 DEF ServerStep, ServerEnvironment

\* The server's steps only take from the listening queue, in front.
LEMMA QueueBefore ==
  ASSUME IInv, ~Ended, ~Ended', ServerStep \/ ServerEnvironment, NEW q, Queued(q)'
  PROVE  Queued(q)
<1>1. backlog \in Seq(Proc)
  BY DEF IInv, TypeOK, NetworkTypeOK
<1>2. CASE backlog' = backlog
  BY <1>2 DEF Queued
<1>3. CASE Accept
  <2>1. backlog # <<>> /\ backlog' = Tail(backlog)
    BY <1>3 DEF Accept, IInv, SessionInv, QueueExact
  <2>2. \A i \in DOMAIN backlog' : i + 1 \in DOMAIN backlog /\ backlog'[i] = backlog[i + 1]
    BY <1>1, <2>1
  <2> QED
    BY <2>2 DEF Queued
<1>4. CASE ~Accept
  BY <1>2, <1>4 DEF ServerStep, ServerEnvironment, Poll, Stdin, AcceptFails, SetsockoptFails,
     AddFdFails, AddFd, LoginNew, LoginBack, Enter, LoginRefused, LoginInvalid, Refuse, Drop,
     Close, Udp, Fanout, ScanCommand, ScanDisconnect, ScanDone, FreeStep, FreeDone, Sigpipe,
     SendTo, End, Ended, Signal, Arrive, TypeExit, network
<1> QED
  BY <1>3, <1>4

\* A subscriber that is alive can be reached as long as the server knows it.
LEMMA AliveOpenKept ==
  ASSUME IInv, [Next]_vars, DeliveryInv, ~Ended'
  PROVE  AliveOpen'
<1>1. ~Ended /\ AliveOpen
  BY UpBefore DEF DeliveryInv
<1>2. IInv'
  BY NextKeeps
<1> SUFFICES ASSUME NEW q \in Proc, Alive(q)', Queued(q)' \/ \E f \in Fd : conn'[f] = q
             PROVE  srvSock'[q] = "open"
  BY DEF AliveOpen
<1>3. /\ srvSock \in [Proc -> SocketState] /\ backlog \in Seq(Proc)
      /\ client \in [Proc -> {"idle", "connected", "running", "exited", "crashed"}]
  BY DEF IInv, TypeOK, SubscriberTypeOK, NetworkTypeOK
<1>4. CASE (ServerStep \/ ServerEnvironment) /\ UNCHANGED subscriber
  <2>1. Alive(q)
    BY <1>4 DEF Alive, subscriber
  <2>2. Queued(q) \/ \E f \in Fd : conn[f] = q
    <3>1. CASE Queued(q)'
      BY <1>1, <1>4, <3>1, QueueBefore
    <3>2. ASSUME NEW f \in Fd, conn'[f] = q PROVE Queued(q) \/ \E g \in Fd : conn[g] = q
      BY <3>2, NoProcAssumption, ConnBefore
    <3> QED
      BY <3>1, <3>2
  <2>3. srvSock[q] = "open"
    BY <1>1, <2>1, <2>2 DEF AliveOpen
  <2> QED
    BY <1>1, <1>4, <2>3, ServerKeepsOpen
<1>5. ASSUME NEW p \in Proc, SubscriberStep(p) \/ UserStep(p) \/ Reset(p)
      PROVE  srvSock'[q] = "open"
  <2>1. UNCHANGED server
    BY <1>5 DEF SubscriberStep, UserStep, Reset
  <2>2. conn' = conn
    BY <2>1 DEF server
  <2>3. ASSUME Connect(p, ~Ended) PROVE srvSock'[q] = "open"
    <3>1. /\ client' = [client EXCEPT ![p] = "connected"]
          /\ backlog' = Append(backlog, p)
          /\ srvSock' = [srvSock EXCEPT ![p] = "open"]
      BY <1>1, <2>3 DEF Connect
    <3>2. CASE q = p
      BY <1>3, <3>1, <3>2
    <3>3. CASE q # p
      <4>1. client'[q] = client[q] /\ srvSock'[q] = srvSock[q]
        BY <1>3, <3>1, <3>3
      <4>2. Queued(q)' => Queued(q)
        BY <1>3, <3>1, <3>3 DEF Queued
      <4> QED
        BY <1>1, <2>2, <4>1, <4>2 DEF AliveOpen, Alive
    <3> QED
      BY <3>2, <3>3
  <2>4. ASSUME ~Connect(p, ~Ended), backlog' = backlog PROVE srvSock'[q] = "open"
    <3>1. Queued(q)' => Queued(q)
      BY <2>4 DEF Queued
    <3>2. CASE client'[q] = client[q] /\ srvSock'[q] = srvSock[q]
      BY <1>1, <2>2, <3>1, <3>2 DEF AliveOpen, Alive
    <3>3. Alive(q) => srvSock[q] = "open"
      BY <1>1, <2>2, <3>1 DEF AliveOpen
    <3>4. CASE SendId(p) \/ Receive(p) \/ ReceiveReset(p) \/ TypeCommand(p)
      <4>1. Alive(q)' => Alive(q) /\ srvSock'[q] = srvSock[q]
        BY <1>3, <3>4 DEF SendId, Receive, ReceiveReset, TypeCommand, ClientSend, Alive,
           subscriber
      <4> QED
        BY <3>3, <4>1
    <3>5. CASE Quit(p) \/ TypeCommandSigpipe(p)
      <4>1. Alive(q)' => Alive(q) /\ srvSock'[q] = srvSock[q]
        BY <1>3, <3>5 DEF Quit, TypeCommandSigpipe, Leave, Alive
      <4> QED
        BY <3>3, <4>1
    <3>6. CASE Reset(p)
      <4>1. client' = client
        BY <3>6 DEF Reset, subscriber
      <4>2. srvSock[q] = "open"
        BY <3>3, <4>1 DEF Alive
      <4> QED
        BY <1>3, <3>6, <4>2 DEF Reset, ResetServerEnd, ResetClientEnd
    <3> QED
      BY <1>5, <2>4, <3>4, <3>5, <3>6 DEF SubscriberStep, UserStep
  <2> QED
    BY <1>5, <2>3, <2>4 DEF SubscriberStep, UserStep, Reset, SendId, ClientSend, Receive,
       ReceiveReset, TypeCommand, TypeCommandSigpipe, Quit, ResetServerEnd, ResetClientEnd
<1>6. CASE UNCHANGED vars
  BY <1>1, <1>6 DEF vars, server, network, subscriber, AliveOpen, Alive, Queued
<1> QED
  BY <1>4, <1>5, <1>6 DEF Next

\* A datagram is taken: nobody has its notification yet, and those it goes to
\* asked for it.
LEMMA HalfwayBegins ==
  ASSUME IInv, IInv', OnlyDue, Udp, UNCHANGED subscriber
  PROVE  Halfway'
<1>1. PICK m \in Nat : m = taken + 1 /\ m = taken' /\ taken \in Nat /\ m > 0
  BY DEF Udp, IInv, TypeOK, ServerTypeOK
<1>2. UNCHANGED <<arrived, userSubscriptions, userIdSet, conn, toClient, srvSock>>
  BY DEF Udp, network, tables
<1>3. ASSUME NEW q \in Proc PROVE ~Has(q, m)'
  <2>1. Received(q)' = Received(q)
    BY <1>2, SilentReceives
  <2>2. \A k \in DOMAIN Received(q) : Received(q)[k] # m
    BY <1>1 DEF OnlyDue, Due, Shutdown
  <2> QED
    BY <1>1, <2>1, <2>2 DEF Has
<1>4. ASSUME pc' = "fanout", NEW u \in todo'
      PROVE  AskedFor(u, arrived[taken])' /\ ~Has(conn[userSubscriptions[u].fd], taken)'
  <2>1. GetMatch(userSubscriptions[u], arrived[m]) /\ u \in userIdSet
    BY <1>1, <1>4 DEF Udp
  <2>2. AskedFor(u, arrived[taken])'
    BY <1>1, <1>2, <2>1 DEF GetMatch, LastMatch, AskedFor
  <2>3. u \in UserId /\ userSubscriptions[u].active /\ ~Ended
    BY <2>1 DEF GetMatch, IInv, TypeOK, ServerTypeOK, Udp, Ended
  <2>4. PICK q \in Proc : q = conn[userSubscriptions[u].fd]
    BY <2>3, LoggedIn
  <2>5. ~Has(q, m)'
    BY <1>3
  <2> QED
    BY <1>1, <1>2, <2>2, <2>4, <2>5 DEF Has, Received
<1>5. pc' = "fanout" =>
        \A u \in userIdSet' \ todo' : ~GetMatch(userSubscriptions'[u], arrived'[taken'])
  BY <1>1, <1>2 DEF Udp
<1> QED
  BY <1>1, <1>4, <1>5 DEF Halfway

\* One more user is served.
LEMMA HalfwayGoesOn ==
  ASSUME IInv, IInv', Halfway, Fanout, UNCHANGED subscriber
  PROVE  Halfway'
         /\ \A u \in userIdSet \ todo' :
              /\ GetMatch(userSubscriptions[u], arrived[taken])
              /\ srvSock'[conn[userSubscriptions[u].fd]] = "open"
              => Has(conn[userSubscriptions[u].fd], taken)'
<1>1. /\ taken \in Nat /\ taken > 0 /\ taken' = taken /\ pc = "fanout" /\ ~Ended
      /\ UNCHANGED <<arrived, userSubscriptions, userIdSet, conn>>
      /\ todo \subseteq UserId /\ userIdSet \subseteq UserId
      /\ srvSock \in [Proc -> SocketState]
  BY DEF Fanout, IInv, TypeOK, ServerTypeOK, NetworkTypeOK, Halfway, udp, tables, Ended
<1>2. PICK v \in todo :
        /\ todo' = todo \ {v}
        /\ toClient' = Delivered(toClient, srvSock, conn[userSubscriptions[v].fd], taken)
        /\ srvSock' = [srvSock EXCEPT ![conn[userSubscriptions[v].fd]] = AfterSend(@)]
  BY DEF Fanout, SendTo
<1>3. v \in UserId /\ userSubscriptions[v].active
  BY <1>1 DEF IInv, SessionInv, UsersKnown
<1>4. PICK p \in Proc : p = conn[userSubscriptions[v].fd] /\ IdOf[p] = v
  BY <1>1, <1>3, LoggedIn
<1>5. ASSUME NEW u \in UserId, u # v, userSubscriptions[u].active,
             NEW q \in Proc, q = conn[userSubscriptions[u].fd]
      PROVE  srvSock'[q] = srvSock[q] /\ (Has(q, taken)' <=> Has(q, taken))
  <2>1. IdOf[q] = u
    BY <1>1, <1>5, LoggedIn
  <2>2. q # p
    BY <1>4, <1>5, <2>1
  <2>3. Received(q)' = Received(q)
    BY <1>1, <1>2, <1>4, <2>2, SendReceives
  <2> QED
    BY <1>1, <1>2, <1>4, <2>2, <2>3 DEF Has
<1>6. srvSock'[p] = "open" => Has(p, taken)'
  <2> SUFFICES ASSUME srvSock'[p] = "open" PROVE Has(p, taken)'
    OBVIOUS
  <2>1. AfterSend(srvSock[p]) = "open"
    BY <1>1, <1>2, <1>4
  <2>2. srvSock[p] = "open"
    BY <2>1 DEF AfterSend
  <2>3. Longer(Received(p)', Received(p), taken)
    BY <1>1, <1>2, <1>4, <2>2, SendReceives
  <2>4. Received(p) \in Seq(Nat) /\ Received(p)' \in Seq(Nat)
    BY ReceivedIs
  <2>5. \E k \in DOMAIN Received(p)' : Received(p)'[k] = taken
    BY <2>3, <2>4 DEF Longer
  <2> QED
    BY <1>1, <2>5 DEF Has
<1>7. ASSUME NEW u \in todo'
      PROVE  AskedFor(u, arrived[taken])' /\ ~Has(conn[userSubscriptions[u].fd], taken)'
  <2>1. u \in todo /\ u # v /\ u \in UserId /\ userSubscriptions[u].active
    BY <1>1, <1>2, <1>7 DEF IInv, SessionInv, UsersKnown
  <2>2. AskedFor(u, arrived[taken]) /\ ~Has(conn[userSubscriptions[u].fd], taken)
    BY <1>1, <2>1 DEF Halfway
  <2>3. PICK q \in Proc : q = conn[userSubscriptions[u].fd]
    BY <1>1, <2>1, LoggedIn
  <2>4. ~Has(q, taken)'
    BY <1>5, <2>1, <2>2, <2>3
  <2> QED
    BY <1>1, <2>2, <2>3, <2>4 DEF AskedFor, Has, Received
<1>8. ASSUME NEW u \in userIdSet \ todo',
             GetMatch(userSubscriptions[u], arrived[taken]),
             srvSock'[conn[userSubscriptions[u].fd]] = "open"
      PROVE  Has(conn[userSubscriptions[u].fd], taken)'
  <2>1. u \in UserId /\ userSubscriptions[u].active
    BY <1>1, <1>8 DEF GetMatch
  <2>2. PICK q \in Proc : q = conn[userSubscriptions[u].fd]
    BY <1>1, <2>1, LoggedIn
  <2>3. Has(q, taken)'
    <3>1. CASE u = v
      BY <1>4, <1>6, <1>8, <2>2, <3>1
    <3>2. CASE u # v
      <4>1. u \in userIdSet \ todo
        BY <1>2, <1>8, <3>2
      <4>2. srvSock[q] = "open"
        BY <1>5, <1>8, <2>1, <2>2, <3>2
      <4>3. Has(q, taken)
        BY <1>1, <1>8, <2>2, <4>1, <4>2 DEF Halfway
      <4> QED
        BY <1>5, <2>1, <2>2, <3>2, <4>3
    <3> QED
      BY <3>1, <3>2
  <2> QED
    BY <1>1, <2>2, <2>3 DEF Has, Received
<1>9. Halfway'
  BY <1>1, <1>7, <1>8 DEF Halfway
<1> QED
  BY <1>8, <1>9

\* Whatever else happens meanwhile, those still to be served do not have the
\* notification, and those served have it or are going.
LEMMA HalfwayStays ==
  ASSUME IInv, IInv', ~Ended, Halfway,
         UNCHANGED <<pc, conn, userIdSet, userSubscriptions, todo, taken>>,
         pc = "fanout" => arrived'[taken] = arrived[taken],
         \A q \in Proc :
           /\ Begins(Received(q)', Received(q))
           /\ client[q] # "idle" /\ srvSock'[q] = "open" =>
                srvSock[q] = "open" /\ Received(q)' = Received(q)
  PROVE  Halfway'
<1> SUFFICES ASSUME pc = "fanout" PROVE Halfway'
  BY DEF Halfway
<1>1. todo \subseteq UserId /\ userIdSet \subseteq UserId
  BY DEF IInv, TypeOK, ServerTypeOK
<1>2. ASSUME NEW u \in todo
      PROVE  AskedFor(u, arrived[taken])' /\ ~Has(conn[userSubscriptions[u].fd], taken)'
  <2>1. u \in UserId /\ userSubscriptions[u].active
    BY <1>1 DEF IInv, SessionInv, UsersKnown
  <2>2. PICK q \in Proc : q = conn[userSubscriptions[u].fd]
    BY <2>1, LoggedIn
  <2>3. AskedFor(u, arrived[taken]) /\ ~Has(q, taken)
    BY <2>2 DEF Halfway
  <2>4. \A k \in DOMAIN Received(q)' :
          k \in DOMAIN Received(q) /\ Received(q)'[k] = Received(q)[k]
    BY ReceivedIs, BeginningIn
  <2>5. ~Has(q, taken)'
    BY <2>3, <2>4 DEF Has
  <2> QED
    BY <2>2, <2>3, <2>5 DEF AskedFor, Has, Received
<1>3. ASSUME NEW u \in userIdSet \ todo,
             GetMatch(userSubscriptions[u], arrived[taken]),
             srvSock'[conn[userSubscriptions[u].fd]] = "open"
      PROVE  Has(conn[userSubscriptions[u].fd], taken)'
  <2>1. u \in UserId /\ userSubscriptions[u].active
    BY <1>1, <1>3 DEF GetMatch
  <2>2. PICK q \in Proc : q = conn[userSubscriptions[u].fd] /\ client[q] # "idle"
    BY <2>1, LoggedIn
  <2>3. srvSock[q] = "open" /\ Received(q)' = Received(q)
    BY <1>3, <2>2
  <2>4. Has(q, taken)
    BY <1>3, <2>2, <2>3 DEF Halfway
  <2>5. Has(q, taken)'
    BY <2>3, <2>4 DEF Has
  <2> QED
    BY <2>2, <2>5 DEF Has, Received
<1>4. taken > 0
  BY DEF Halfway
<1> QED
  BY <1>2, <1>3, <1>4 DEF Halfway

\* At any moment the loop over the users is where Halfway says it is.
LEMMA HalfwayKept ==
  ASSUME IInv, [Next]_vars, DeliveryInv, ~Ended'
  PROVE  Halfway'
<1>1. ~Ended /\ IInv' /\ Halfway /\ OnlyDue /\ ToldLast
  BY UpBefore, NextKeeps DEF DeliveryInv
<1>2. /\ arrived \in Seq(Topic \cup {Malformed}) /\ taken \in Nat /\ taken <= Len(arrived)
      /\ pc = "fanout" => taken > 0
  BY <1>1 DEF IInv, TypeOK, ServerTypeOK, SessionInv, QueueExact, Halfway
<1>3. ASSUME UNCHANGED <<toClient, srvSock, subscriber>>, NEW q \in Proc
      PROVE  /\ Begins(Received(q)', Received(q))
             /\ srvSock'[q] = srvSock[q] /\ Received(q)' = Received(q)
  <2>1. Received(q)' = Received(q) /\ Received(q) \in Seq(Nat)
    BY <1>1, <1>3, SilentReceives, ReceivedIs
  <2> QED
    BY <1>3, <2>1 DEF Begins
<1>4. CASE Udp /\ UNCHANGED subscriber
  BY <1>1, <1>4, HalfwayBegins
<1>5. CASE Fanout /\ UNCHANGED subscriber
  BY <1>1, <1>5, HalfwayGoesOn
<1>6. CASE (Arrive \/ TypeExit) /\ UNCHANGED subscriber
  <2>1. pc = "fanout" => arrived'[taken] = arrived[taken]
    BY <1>2, <1>6 DEF Arrive, TypeExit, udp
  <2>2. /\ UNCHANGED <<pc, conn, userIdSet, userSubscriptions, todo, taken>>
        /\ UNCHANGED <<toClient, srvSock, subscriber>>
    BY <1>6 DEF Arrive, TypeExit, udp, tables, network
  <2> QED
    BY <1>1, <1>3, <2>1, <2>2, HalfwayStays
<1>7. CASE UNCHANGED vars
  <2>1. /\ UNCHANGED <<pc, conn, userIdSet, userSubscriptions, todo, taken, arrived>>
        /\ UNCHANGED <<toClient, srvSock, subscriber>>
    BY <1>7 DEF vars, server, udp, tables, network
  <2> QED
    BY <1>1, <1>3, <2>1, HalfwayStays
<1>8. ASSUME NEW p \in Proc, SubscriberStep(p) \/ UserStep(p) \/ Reset(p)
      PROVE  Halfway'
  <2>1. UNCHANGED <<pc, conn, userIdSet, userSubscriptions, todo, taken, arrived>>
    BY <1>8 DEF SubscriberStep, UserStep, Reset, server, udp, tables
  <2> QED
    BY <1>1, <1>8, <2>1, ProcessReceives, HalfwayStays
<1>9. CASE (Silent \/ LoginRefused \/ LoginInvalid \/ AddFdFails \/ FreeStep)
             /\ ~Udp /\ ~Arrive /\ ~TypeExit
  <2>1. pc' # "fanout"
    BY <1>9 DEF Silent, Poll, Stdin, AcceptFails, Accept, SetsockoptFails, AddFdFails, AddFd,
       LoginNew, LoginBack, Enter, LoginRefused, LoginInvalid, Refuse, Drop, ScanCommand,
       ScanDisconnect, Scanning, ScanDone, FreeStep, FreeDone, Sigpipe, End, Signal
  <2> QED
    BY <2>1 DEF Halfway
<1> QED
  BY <1>4, <1>5, <1>6, <1>7, <1>8, <1>9 DEF Next, ServerStep, ServerEnvironment, Silent

\* "shutdown" waits to be read.
Told(p) == \E k \in DOMAIN toClient[p] : toClient[p][k] = Shutdown

\* A process that is told, and goes on, has yet to read it.
LEMMA ToldStays ==
  ASSUME IInv, NEW p \in Proc, SubscriberStep(p) \/ UserStep(p) \/ Reset(p),
         NEW q \in Proc, client[q] # "idle", Alive(q)', Alive(q) => Told(q)
  PROVE  Told(q)'
<1>1. /\ toClient \in [Proc -> Seq(Nat)]
      /\ client \in [Proc -> {"idle", "connected", "running", "exited", "crashed"}]
  BY DEF IInv, TypeOK, SubscriberTypeOK
<1>2. CASE toClient'[q] = toClient[q] /\ client'[q] = client[q]
  BY <1>2 DEF Told, Alive
<1>3. CASE Receive(p)
  <2>1. q # p \/ Head(toClient[p]) # Shutdown
    BY <1>1, <1>3 DEF Receive, Alive
  <2>2. CASE q # p
    BY <1>1, <1>2, <1>3, <2>2 DEF Receive
  <2>3. CASE q = p /\ Head(toClient[p]) # Shutdown
    <3>1. /\ toClient[q] \in Seq(Nat) /\ toClient[q] # <<>> /\ client[q] = "running"
          /\ toClient'[q] = Tail(toClient[q])
      BY <1>1, <1>3, <2>3 DEF Receive
    <3>2. PICK k \in DOMAIN toClient[q] : toClient[q][k] = Shutdown
      BY <3>1 DEF Alive, Told
    <3>3. k # 1
      BY <2>3, <3>1, <3>2
    <3> DEFINE t == toClient[q]
    <3>4. t \in Seq(Nat) /\ t # <<>> /\ k \in DOMAIN t /\ k # 1 /\ t[k] = Shutdown
      BY <3>1, <3>2, <3>3
    <3> HIDE DEF t
    <3>5. k - 1 \in DOMAIN Tail(t) /\ Tail(t)[k - 1] = t[k]
      BY <3>4
    <3> QED
      BY <3>1, <3>4, <3>5 DEF Told, t
  <2> QED
    BY <2>1, <2>2, <2>3
<1>4. CASE Quit(p) \/ TypeCommandSigpipe(p)
  <2>1. q # p
    BY <1>1, <1>4 DEF Quit, TypeCommandSigpipe, Leave, Alive
  <2> QED
    BY <1>1, <1>2, <1>4, <2>1 DEF Quit, TypeCommandSigpipe, Leave
<1>5. CASE Connect(p, ~Ended) \/ SendId(p)
  <2>1. toClient' = toClient /\ (client'[q] = client[q] \/ Alive(q))
    BY <1>1, <1>5 DEF Connect, SendId, ClientSend, Alive
  <2> QED
    BY <1>2, <2>1 DEF Told
<1>6. CASE ReceiveReset(p) \/ TypeCommand(p) \/ Reset(p)
  BY <1>2, <1>6 DEF ReceiveReset, TypeCommand, ClientSend, Reset, ResetServerEnd,
     ResetClientEnd, subscriber
<1> QED
  BY <1>3, <1>4, <1>5, <1>6 DEF SubscriberStep, UserStep

\* freeMemory passes nobody by.
LEMMA ToldSoFarKept ==
  ASSUME IInv, [Next]_vars, DeliveryInv, ~Ended'
  PROVE  ToldSoFar'
<1>1. ~Ended /\ IInv' /\ ToldSoFar /\ AliveOpen
  BY UpBefore, NextKeeps DEF DeliveryInv
<1>2. /\ pollfds \in Seq(PollFd) /\ conn \in [Fd -> Proc \cup {NoProc}] /\ idx \in Nat
      /\ DOMAIN pollfds \subseteq Nat
      /\ toClient \in [Proc -> Seq(Nat)]
  BY DEF IInv, TypeOK, ServerTypeOK
<1>3. ASSUME NEW i \in DOMAIN pollfds
      PROVE  /\ pollfds[i].fd \in Fd /\ conn[pollfds[i].fd] \in Proc
             /\ client[conn[pollfds[i].fd]] # "idle"
  <2>1. pollfds[i].fd \in Fd
    <3>1. pollfds[i] \in PollFd
      BY <1>2
    <3> QED
      BY <3>1 DEF PollFd
  <2>2. conn[pollfds[i].fd] \in Proc /\ conn[pollfds[i].fd] # NoProc
    BY <1>1, <1>2, <2>1 DEF IInv, SessionInv, PolledOpen
  <2> QED
    BY <1>1, <2>1, <2>2 DEF IInv, SessionInv, ProcessExact
<1>4. ASSUME UNCHANGED <<pc, pollfds, conn, idx>>,
             \A q \in Proc : client[q] # "idle" /\ Alive(q)' /\ (Alive(q) => Told(q)) => Told(q)'
      PROVE  ToldSoFar'
  <2> SUFFICES ASSUME pc = "free", NEW i \in DOMAIN pollfds, i < idx,
                      NEW q \in Proc, q = conn[pollfds[i].fd], Alive(q)'
               PROVE  Told(q)'
    BY <1>3, <1>4 DEF ToldSoFar, Told, Alive
  <2>1. Alive(q) => Told(q)
    BY <1>1 DEF ToldSoFar, Told
  <2> QED
    BY <1>3, <1>4, <2>1
<1>5. CASE UNCHANGED <<pc, pollfds, conn, idx, toClient, subscriber>>
  BY <1>4, <1>5 DEF Told, Alive, subscriber
<1>6. ASSUME NEW p \in Proc, SubscriberStep(p) \/ UserStep(p) \/ Reset(p)
      PROVE  ToldSoFar'
  <2>1. UNCHANGED <<pc, pollfds, conn, idx>>
    BY <1>6 DEF SubscriberStep, UserStep, Reset, server
  <2> QED
    BY <1>4, <1>6, <2>1, ToldStays
<1>7. CASE FreeStep /\ UNCHANGED subscriber
  <2>1. /\ pc = "free" /\ idx \in DOMAIN pollfds /\ idx' = idx + 1
        /\ UNCHANGED <<pc, pollfds, conn>>
        /\ toClient' = Delivered(toClient, srvSock, conn[pollfds[idx].fd], Shutdown)
    BY <1>2, <1>7 DEF FreeStep, SendTo, IInv, TypeOK, ServerTypeOK
  <2> SUFFICES ASSUME NEW i \in DOMAIN pollfds, i < idx + 1,
                      NEW q \in Proc, q = conn[pollfds[i].fd], Alive(q)
               PROVE  Told(q)'
    BY <1>3, <1>7, <2>1 DEF ToldSoFar, Told, Alive, subscriber
  <2>2. PICK p \in Proc : p = conn[pollfds[idx].fd]
    BY <1>3, <2>1
  <2>3. Shutdown \in Nat
    BY DEF Shutdown
  <2>4. CASE i = idx
    <3>1. q = p /\ srvSock[p] = "open"
      BY <1>1, <1>3, <2>2, <2>4 DEF AliveOpen
    <3>2. toClient'[p] = Append(toClient[p], Shutdown) /\ toClient[p] \in Seq(Nat)
      BY <1>2, <2>1, <2>2, <3>1 DEF Delivered
    <3> DEFINE t == toClient[p]
    <3>3. t \in Seq(Nat) /\ toClient'[p] = Append(t, Shutdown)
      BY <3>2
    <3> HIDE DEF t
    <3>4. Len(t) + 1 \in DOMAIN Append(t, Shutdown) /\ Append(t, Shutdown)[Len(t) + 1] = Shutdown
      BY <2>3, <3>3
    <3> QED
      BY <3>1, <3>3, <3>4 DEF Told
  <2>5. CASE i # idx
    <3>0. i < idx
      BY <1>2, <2>5
    <3>1. PICK k \in DOMAIN toClient[q] : toClient[q][k] = Shutdown
      BY <1>1, <2>1, <3>0 DEF ToldSoFar
    <3>2. toClient'[q] = toClient[q] \/ toClient'[q] = Append(toClient[q], Shutdown)
      BY <1>2, <2>1, <2>2 DEF Delivered
    <3> DEFINE t == toClient[q]
    <3>3. t \in Seq(Nat) /\ k \in DOMAIN t /\ t[k] = Shutdown
      BY <1>2, <3>1
    <3> HIDE DEF t
    <3>4. k \in DOMAIN Append(t, Shutdown) /\ Append(t, Shutdown)[k] = Shutdown
      BY <2>3, <3>3
    <3>5. k \in DOMAIN toClient'[q] /\ toClient'[q][k] = Shutdown
      BY <3>2, <3>3, <3>4 DEF t
    <3> QED
      BY <3>5 DEF Told
  <2> QED
    BY <2>4, <2>5
<1>8. CASE Stdin \/ Signal
  <2>1. idx' = 1 /\ pollfds' = pollfds
    BY <1>8 DEF Stdin, Signal
  <2>2. \A i \in DOMAIN pollfds : ~(i < 1)
    BY <1>2
  <2> QED
    BY <2>1, <2>2 DEF ToldSoFar
<1>9. CASE (Arrive \/ TypeExit) /\ UNCHANGED subscriber
  BY <1>5, <1>9 DEF Arrive, TypeExit, network
<1>10. CASE UNCHANGED vars
  BY <1>5, <1>10 DEF vars, server, network
<1>11. CASE ServerStep /\ ~FreeStep /\ ~Stdin
  <2>1. pc' # "free"
    BY <1>11 DEF ServerStep, Poll, AcceptFails, Accept, SetsockoptFails, AddFdFails, AddFd,
       LoginNew, LoginBack, Enter, LoginRefused, LoginInvalid, Refuse, Drop, Udp, Fanout,
       ScanCommand, ScanDisconnect, Scanning, ScanDone, FreeDone, Sigpipe, End
  <2> QED
    BY <2>1 DEF ToldSoFar
<1> QED
  BY <1>6, <1>7, <1>8, <1>9, <1>10, <1>11 DEF Next, ServerEnvironment

\* In the initial state nothing was sent.
LEMMA DeliveryBegins == Init => DeliveryInv
<1> SUFFICES ASSUME Init PROVE DeliveryInv
  OBVIOUS
<1>1. ASSUME NEW p \in Proc
      PROVE  Received(p) = <<>> /\ printed[p] = <<>> /\ toClient[p] = <<>>
             /\ client[p] = "idle"
  <2>1. printed[p] = <<>> /\ toClient[p] = <<>> /\ client[p] = "idle"
    BY DEF Init, NetworkInit, SubscriberInit
  <2>2. <<>> \o <<>> = <<>>
    OBVIOUS
  <2> QED
    BY <2>1, <2>2 DEF Received
<1>2. pc = "poll" /\ \A f \in Fd : conn[f] = NoProc
  BY DEF Init, ServerInit
<1>3. InOrder /\ OnlyDue
  BY <1>1 DEF InOrder, OnlyDue
<1>4. ToldLast
  BY <1>1, <1>2 DEF ToldLast
<1>5. AliveOpen /\ Halfway /\ ToldSoFar
  BY <1>1, <1>2 DEF AliveOpen, Alive, Halfway, ToldSoFar
<1> QED
  BY <1>3, <1>4, <1>5 DEF DeliveryInv

\* Every step keeps the delivery invariant.
LEMMA DeliveryKeeps ==
  ASSUME IInv, [Next]_vars, DeliveryInv
  PROVE  DeliveryInv'
<1>1. InOrder' /\ OnlyDue' /\ ToldLast'
  BY OrderKept, ToldLastKept
<1>2. ~Ended' => AliveOpen' /\ Halfway' /\ ToldSoFar'
  BY AliveOpenKept, HalfwayKept, ToldSoFarKept
<1> QED
  BY <1>1, <1>2 DEF DeliveryInv

\* While descriptors change hands and subscribers come and go, what has
\* reached whom is as DeliveryInv says.
THEOREM DeliveryIsExact == Spec => []DeliveryInv
<1>1. Init => DeliveryInv
  BY DeliveryBegins
<1>2. IInv /\ DeliveryInv /\ [Next]_vars => DeliveryInv'
  BY DeliveryKeeps
<1> QED
  BY <1>1, <1>2, SessionsAgree, PTL DEF Spec

\* Every subscriber gets its notifications in the order in which the server
\* took the datagrams, none twice, and "shutdown" last.
THEOREM DeliveryInOrder == Spec => []InOrder
<1>1. DeliveryInv => InOrder
  BY DEF DeliveryInv
<1> QED
  BY <1>1, DeliveryIsExact, PTL

\* A subscriber prints nothing its user never asked for.
THEOREM NothingUnasked == Spec => []OnlySubscribed
<1>1. IInv /\ DeliveryInv => OnlySubscribed
  <2> SUFFICES ASSUME IInv, DeliveryInv, NEW p \in Proc, NEW k \in DOMAIN printed[p]
               PROVE  IdOf[p] \in UserId /\ AskedFor(IdOf[p], arrived[printed[p][k]])
    BY DEF OnlySubscribed, AskedFor
  <2> DEFINE s == printed[p]  t == toClient[p]
  <2>1. s \in Seq(Nat) /\ t \in Seq(Nat) /\ k \in DOMAIN s
    BY DEF IInv, TypeOK, SubscriberTypeOK
  <2>2. Received(p) = s \o t
    BY DEF Received
  <2>3. s[k] # Shutdown
    BY DEF DeliveryInv, ToldLast
  <2> HIDE DEF s, t
  <2>4. k \in DOMAIN (s \o t) /\ (s \o t)[k] = s[k]
    BY <2>1
  <2>5. Due(p, s[k])
    BY <2>2, <2>3, <2>4 DEF DeliveryInv, OnlyDue
  <2> QED
    BY <2>5 DEF Due, s
<1> QED
  BY <1>1, SessionsAgree, DeliveryIsExact, PTL

\* The loop over the users leaves out nobody who is logged in, interested and
\* connected.
THEOREM EveryoneServed == Spec => FanoutReachesAll
<1> DEFINE Served ==
      pc = "fanout" /\ pc' = "poll" =>
        \A u \in userIdSet :
          LET p == conn[userSubscriptions[u].fd]
          IN /\ GetMatch(userSubscriptions[u], arrived[taken])
             /\ srvSock[p] = "open"
             => \E k \in DOMAIN Received(p)' : Received(p)'[k] = taken
<1>1. IInv /\ DeliveryInv /\ [Next]_vars => Served
  <2> SUFFICES ASSUME IInv, DeliveryInv, [Next]_vars, pc = "fanout", pc' = "poll",
                      NEW u \in userIdSet,
                      GetMatch(userSubscriptions[u], arrived[taken]),
                      srvSock[conn[userSubscriptions[u].fd]] = "open"
               PROVE  \E k \in DOMAIN Received(conn[userSubscriptions[u].fd])' :
                         Received(conn[userSubscriptions[u].fd])'[k] = taken
    OBVIOUS
  <2>1. Fanout /\ UNCHANGED subscriber
    <3>1. CASE UNCHANGED pc
      BY <3>1
    <3>2. CASE (ServerStep \/ ServerEnvironment) /\ UNCHANGED subscriber
      BY <3>2 DEF ServerStep, ServerEnvironment, Poll, Stdin, AcceptFails, Accept,
         SetsockoptFails, AddFdFails, AddFd, LoginNew, LoginBack, LoginRefused, LoginInvalid,
         IdReceived, Udp, ScanCommand, ScanDisconnect, Scanning, ScanDone, FreeStep,
         FreeDone, Sigpipe, End, Signal, Arrive, TypeExit
    <3> QED
      BY <3>1, <3>2 DEF Next, vars, server, SubscriberStep, UserStep, Reset
  <2>2. IInv' /\ Halfway /\ ~Ended
    BY NextKeeps DEF DeliveryInv, Ended
  <2>3. todo' = {} /\ taken' = taken
    BY <2>1 DEF Fanout, udp
  <2>4. PICK q \in Proc : q = conn[userSubscriptions[u].fd]
    BY <2>2, LoggedIn DEF GetMatch, IInv, TypeOK, ServerTypeOK
  <2>5. srvSock'[q] = "open"
    <3>1. PICK p : srvSock' = [srvSock EXCEPT ![p] = AfterSend(@)]
      BY <2>1 DEF Fanout, SendTo
    <3>2. AfterSend("open") = "open" /\ srvSock \in [Proc -> SocketState]
      BY DEF AfterSend, IInv, TypeOK, NetworkTypeOK
    <3> QED
      BY <2>4, <3>1, <3>2
  <2>6. Has(conn[userSubscriptions[u].fd], taken)'
    BY <2>1, <2>2, <2>3, <2>4, <2>5, HalfwayGoesOn
  <2> QED
    BY <2>3, <2>6 DEF Has
<1> QED
  BY <1>1, SessionsAgree, DeliveryIsExact, PTL DEF Spec, FanoutReachesAll

\* A server that ends in good order leaves no running subscriber waiting.
THEOREM StoppingTellsAll == Spec => StopTellsAll
<1> DEFINE AllTold ==
      pc # "exited" /\ pc' = "exited" =>
        \A f \in Fd :
          fdsToUsers[f] # NoUser /\ client[conn[f]] = "running"
            => \E k \in DOMAIN toClient[conn[f]] : toClient[conn[f]][k] = Shutdown
<1>1. IInv /\ DeliveryInv /\ [Next]_vars => AllTold
  <2> SUFFICES ASSUME IInv, DeliveryInv, [Next]_vars, pc # "exited", pc' = "exited",
                      NEW f \in Fd, fdsToUsers[f] # NoUser, client[conn[f]] = "running"
               PROVE  \E k \in DOMAIN toClient[conn[f]] : toClient[conn[f]][k] = Shutdown
    OBVIOUS
  <2>1. FreeDone
    <3>1. CASE UNCHANGED pc
      BY <3>1
    <3>2. CASE ServerStep \/ ServerEnvironment
      BY <3>2 DEF ServerStep, ServerEnvironment, Poll, Stdin, AcceptFails, Accept,
         SetsockoptFails, AddFdFails, AddFd, LoginNew, LoginBack, Enter, LoginRefused,
         LoginInvalid, Refuse, Drop, Udp, Fanout, ScanCommand, ScanDisconnect, ScanDone,
         FreeStep, Sigpipe, End, Signal, Arrive, TypeExit
    <3> QED
      BY <3>1, <3>2 DEF Next, vars, server, SubscriberStep, UserStep, Reset
  <2>2. pc = "free" /\ idx > Len(pollfds) /\ ~Ended
    BY <2>1 DEF FreeDone, Ended
  <2>3. PICK i \in DOMAIN pollfds : pollfds[i].fd = f
    BY <2>2 DEF IInv, SessionInv, TableExact, Polled
  <2>4. i < idx
    <3>1. pollfds \in Seq(PollFd) /\ idx \in Nat
      BY DEF IInv, TypeOK, ServerTypeOK
    <3> QED
      BY <2>2, <3>1
  <2>5. ToldSoFar /\ Alive(conn[f])
    BY <2>2 DEF DeliveryInv, Alive
  <2> QED
    BY <2>2, <2>3, <2>4, <2>5 DEF ToldSoFar
<1> QED
  BY <1>1, SessionsAgree, DeliveryIsExact, PTL DEF Spec, StopTellsAll

-----------------------------------------------------------------------------
\* What a step does to a connection that stays: nothing to its commands, or
\* one more is confirmed and on its way, or the process gives its id.
Carried(p) ==
  \/ toServer'[p] = toServer[p] /\ confirmed'[p] = confirmed[p]
  \/ \E r \in Request : /\ client[p] = "running"
                        /\ toServer'[p] = Append(toServer[p], r)
                        /\ confirmed'[p] = Append(confirmed[p], r)
  \/ /\ client[p] = "connected"
     /\ toServer'[p] = Append(toServer[p], [id |-> IdOf[p]])
     /\ confirmed'[p] = confirmed[p]

\* What a step does to what a process has confirmed.
Confirms(p) ==
  \/ confirmed'[p] = confirmed[p]
  \/ \E r \in Request : /\ client'[p] = "running" /\ client[p] = "running"
                        /\ Len(confirmed[p]) < MaxCommands
                        /\ confirmed'[p] = Append(confirmed[p], r)

\* A step that notes nothing: sessions and waiting connections may end, a
\* process may join the queue, and what stays is carried.
SameLogs == \A u \in UserId : LogOf(u)' = LogOf(u)

Quiet ==
  ~Ended' =>
    /\ ~Ended
    /\ \A f \in Fd : fdsToUsers'[f] # NoUser =>
         fdsToUsers'[f] = fdsToUsers[f] /\ conn'[f] = conn[f] /\ Carried(conn[f])
    /\ \A p \in Proc : Waiting(p)' => (Waiting(p) \/ client[p] = "idle") /\ Carried(p)

\* The types that the lemmas on commands need.
LEMMA CommandTypes ==
  ASSUME TypeOK
  PROVE  /\ confirmed \in [Proc -> Seq(Request)]
         /\ \A p \in Proc : /\ confirmed[p] \in Seq(Request)
                            /\ Len(confirmed[p]) \in Nat
                            /\ DOMAIN confirmed[p] = 1 .. Len(confirmed[p])
         /\ toServer \in [Proc -> Seq(IdFrame \cup Request)]
         /\ \A p \in Proc : /\ toServer[p] \in Seq(IdFrame \cup Request)
                            /\ Len(toServer[p]) \in Nat
                            /\ DOMAIN toServer[p] = 1 .. Len(toServer[p])
         /\ conn \in [Fd -> Proc \cup {NoProc}]
         /\ fdsToUsers \in [Fd -> UserId \cup {NoUser}]
         /\ userSubscriptions \in [UserId -> User]
         /\ \A u \in UserId : /\ LogOf(u) \in Seq(Subscription)
                              /\ Len(LogOf(u)) \in Nat
                              /\ DOMAIN LogOf(u) = 1 .. Len(LogOf(u))
<1>1. /\ confirmed \in [Proc -> Seq(Request)]
      /\ toServer \in [Proc -> Seq(IdFrame \cup Request)]
      /\ conn \in [Fd -> Proc \cup {NoProc}]
      /\ fdsToUsers \in [Fd -> UserId \cup {NoUser}]
      /\ userSubscriptions \in [UserId -> User]
  BY DEF TypeOK, ServerTypeOK, SubscriberTypeOK
<1>2. \A p \in Proc : confirmed[p] \in Seq(Request) /\ toServer[p] \in Seq(IdFrame \cup Request)
  BY <1>1
<1>3. \A u \in UserId : LogOf(u) \in Seq(Subscription)
  BY <1>1 DEF User, LogOf
<1> QED
  BY <1>1, <1>2, <1>3

\* What is confirmed stays confirmed, in its place.
LEMMA ConfirmedStays ==
  ASSUME TypeOK, NEW p \in Proc, Confirms(p)
  PROVE  \A n \in DOMAIN confirmed[p] :
            n \in DOMAIN confirmed'[p] /\ confirmed'[p][n] = confirmed[p][n]
<1>1. confirmed[p] \in Seq(Request)
  BY CommandTypes
<1>2. CASE confirmed'[p] = confirmed[p]
  BY <1>2
<1>3. ASSUME NEW r \in Request, confirmed'[p] = Append(confirmed[p], r)
      PROVE  \A n \in DOMAIN confirmed[p] :
                n \in DOMAIN confirmed'[p] /\ confirmed'[p][n] = confirmed[p][n]
  BY <1>1, <1>3
<1> QED
  BY <1>2, <1>3 DEF Confirms

\* A command that is applied stays so, whatever is confirmed after it.
LEMMA AppliedStays ==
  ASSUME TypeOK, NEW p \in Proc, Confirms(p), NEW n \in DOMAIN confirmed[p],
         NEW origin, Applied(p, n, origin)
  PROVE  Applied(p, n, origin)'
  BY ConfirmedStays DEF Applied, MayBeLost

\* The account of a log that a step leaves alone: its elements still come
\* from where they came.
LEMMA SourcedStays ==
  ASSUME TypeOK, \A p \in Proc : Confirms(p),
         NEW u \in UserId, LogOf(u)' = LogOf(u),
         NEW origin \in [DOMAIN LogOf(u) -> Origin], Sourced(u, origin)
  PROVE  Sourced(u, origin)'
<1> SUFFICES ASSUME NEW i \in DOMAIN LogOf(u)
             PROVE  LET p == origin[i].by
                        n == origin[i].nth
                    IN /\ IdOf[p] = u
                       /\ n \in DOMAIN confirmed'[p]
                       /\ LogOf(u)[i] = Asked(confirmed'[p][n])
                       /\ \A m \in 1 .. n - 1 : Applied(p, m, origin)'
  BY DEF Sourced, Asked
<1> DEFINE p == origin[i].by
           n == origin[i].nth
<1>1. p \in Proc
  BY DEF Origin
<1>2. /\ IdOf[p] = u
      /\ n \in DOMAIN confirmed[p]
      /\ LogOf(u)[i] = Asked(confirmed[p][n])
      /\ \A m \in 1 .. n - 1 : Applied(p, m, origin)
  BY DEF Sourced
<1>3. n \in DOMAIN confirmed'[p] /\ confirmed'[p][n] = confirmed[p][n]
  BY <1>1, <1>2, ConfirmedStays
<1>4. ASSUME NEW m \in 1 .. n - 1
      PROVE  Applied(p, m, origin)'
  <2>1. m \in DOMAIN confirmed[p]
    BY <1>1, <1>2, CommandTypes
  <2> QED
    BY <1>1, <1>2, <2>1, AppliedStays
<1> QED
  BY <1>2, <1>3, <1>4

\* A sequence that ends as another does, both made longer by the same element.
LEMMA EndsAlike ==
  ASSUME NEW S, NEW T, NEW a \in Seq(S), NEW b \in Seq(T), NEW r \in S, r \in T,
         Len(b) <= Len(a),
         \A k \in DOMAIN b : b[k] = a[Len(a) - Len(b) + k]
  PROVE  /\ Len(Append(b, r)) <= Len(Append(a, r))
         /\ Len(Append(a, r)) - Len(Append(b, r)) = Len(a) - Len(b)
         /\ \A k \in DOMAIN Append(b, r) :
              Append(b, r)[k] = Append(a, r)[Len(a) - Len(b) + k]
<1> DEFINE a2 == Append(a, r)  b2 == Append(b, r)
<1>1. /\ a2 \in Seq(S) /\ Len(a2) = Len(a) + 1 /\ a2[Len(a) + 1] = r
      /\ \A k \in 1 .. Len(a) : a2[k] = a[k]
  BY AppendProperties
<1>2. /\ b2 \in Seq(T) /\ Len(b2) = Len(b) + 1 /\ b2[Len(b) + 1] = r
      /\ \A k \in 1 .. Len(b) : b2[k] = b[k]
      /\ DOMAIN b2 = 1 .. Len(b) + 1
  BY AppendProperties
<1>3. Len(a) \in Nat /\ Len(b) \in Nat /\ DOMAIN b = 1 .. Len(b)
  OBVIOUS
<1> HIDE DEF a2, b2
<1>4. ASSUME NEW k \in DOMAIN b2
      PROVE  b2[k] = a2[Len(a) - Len(b) + k]
  <2>1. CASE k \in 1 .. Len(b)
    <3>1. Len(a) - Len(b) + k \in 1 .. Len(a)
      BY <1>3, <2>1
    <3> QED
      BY <1>1, <1>2, <1>3, <2>1, <3>1
  <2>2. CASE k = Len(b) + 1
    <3>1. Len(a) - Len(b) + k = Len(a) + 1
      BY <1>3, <2>2
    <3> QED
      BY <1>1, <1>2, <2>2, <3>1
  <2> QED
    BY <1>2, <1>3, <2>1, <2>2
<1> QED
  BY <1>1, <1>2, <1>3, <1>4 DEF a2, b2

\* A session that a step carries on stays up to date.
LEMMA UpToDateStays ==
  ASSUME TypeOK, \A p \in Proc : Confirms(p), NEW f \in Fd, NEW origin,
         conn[f] \in Proc, conn'[f] = conn[f], Carried(conn[f]),
         client[conn[f]] # "connected", UpToDate(f, origin)
  PROVE  UpToDate(f, origin)'
<1> DEFINE p == conn[f]
           read == Len(confirmed[p]) - Len(toServer[p])
           read2 == Len(confirmed'[p]) - Len(toServer'[p])
<1>1. /\ confirmed[p] \in Seq(Request) /\ Len(confirmed[p]) \in Nat
      /\ toServer[p] \in Seq(IdFrame \cup Request) /\ Len(toServer[p]) \in Nat
      /\ DOMAIN confirmed[p] = 1 .. Len(confirmed[p])
      /\ DOMAIN toServer[p] = 1 .. Len(toServer[p])
  BY CommandTypes
<1>2. /\ Len(toServer[p]) <= Len(confirmed[p])
      /\ \A k \in DOMAIN toServer[p] : toServer[p][k] = confirmed[p][read + k]
      /\ \A n \in 1 .. read : Applied(p, n, origin)
      /\ \A i \in DOMAIN origin : origin[i].by = p =>
           /\ origin[i].nth <= read
           /\ \A j \in DOMAIN origin : i < j => origin[j].by = p
  BY DEF UpToDate
<1>3. \A n \in 1 .. read : Applied(p, n, origin)'
  <2> SUFFICES ASSUME NEW n \in 1 .. read PROVE Applied(p, n, origin)'
    OBVIOUS
  <2>1. Applied(p, n, origin)
    BY <1>2
  <2>2. n \in DOMAIN confirmed[p]
    <3> DEFINE a == Len(confirmed[p])  b == Len(toServer[p])
    <3>1. a \in Nat /\ b \in Nat /\ n \in 1 .. a - b
      BY <1>1
    <3> HIDE DEF a, b
    <3>2. n \in 1 .. a
      BY <3>1
    <3> QED
      BY <1>1, <3>2 DEF a
  <2> QED
    BY <2>1, <2>2, AppliedStays
<1>4. /\ read2 = read /\ Len(toServer'[p]) <= Len(confirmed'[p])
      /\ \A k \in DOMAIN toServer'[p] : toServer'[p][k] = confirmed'[p][read + k]
  <2>1. CASE toServer'[p] = toServer[p] /\ confirmed'[p] = confirmed[p]
    BY <1>2, <2>1
  <2>2. ASSUME NEW r \in Request, toServer'[p] = Append(toServer[p], r),
               confirmed'[p] = Append(confirmed[p], r)
        PROVE  /\ read2 = read /\ Len(toServer'[p]) <= Len(confirmed'[p])
               /\ \A k \in DOMAIN toServer'[p] : toServer'[p][k] = confirmed'[p][read + k]
    <3>1. r \in IdFrame \cup Request
      BY <2>2
    <3> DEFINE a == confirmed[p]  b == toServer[p]
    <3>2. /\ a \in Seq(Request) /\ b \in Seq(IdFrame \cup Request) /\ Len(b) <= Len(a)
          /\ \A k \in DOMAIN b : b[k] = a[Len(a) - Len(b) + k]
      BY <1>1, <1>2
    <3> HIDE DEF a, b
    <3>3. /\ Len(Append(b, r)) <= Len(Append(a, r))
          /\ Len(Append(a, r)) - Len(Append(b, r)) = Len(a) - Len(b)
          /\ \A k \in DOMAIN Append(b, r) :
               Append(b, r)[k] = Append(a, r)[Len(a) - Len(b) + k]
      BY <3>1, <3>2, EndsAlike
    <3> QED
      BY ONLY <2>2, <3>3 DEF a, b
  <2> QED
    BY <2>1, <2>2 DEF Carried
<1> QED
  BY <1>2, <1>3, <1>4 DEF UpToDate

\* A step that notes nothing in a user's log and begins no session of the
\* user leaves the account of the log as it is.
LEMMA AccountStays ==
  ASSUME IInv, CommandInv, \A p \in Proc : Confirms(p),
         NEW u \in UserId, LogOf(u)' = LogOf(u),
         NEW origin \in [DOMAIN LogOf(u) -> Origin], Account(u, origin),
         ~Ended' =>
           /\ ~Ended
           /\ \A f \in Fd : fdsToUsers'[f] = u =>
                fdsToUsers[f] = u /\ conn'[f] = conn[f] /\ Carried(conn[f])
           /\ \A p \in Proc : Waiting(p)' => Waiting(p) \/ client[p] = "idle"
  PROVE  Account(u, origin)'
<1>1. TypeOK /\ Sourced(u, origin) /\ SessionBySession(origin)
  BY DEF IInv, Account
<1>2. Sourced(u, origin)'
  BY <1>1, SourcedStays
<1>3. SessionBySession(origin)'
  BY <1>1 DEF SessionBySession
<1>4. ASSUME ~Ended', NEW f \in Fd, fdsToUsers'[f] = u
      PROVE  UpToDate(f, origin)'
  <2>1. /\ ~Ended /\ fdsToUsers[f] = u /\ conn'[f] = conn[f] /\ Carried(conn[f])
    BY <1>4
  <2>2. fdsToUsers[f] # NoUser
    BY <2>1, IdAssumption
  <2>3. conn[f] \in Proc /\ client[conn[f]] # "connected"
    <3>1. conn[f] # NoProc
      BY <2>1, <2>2 DEF IInv, SessionInv, TableExact
    <3>2. client[conn[f]] # "connected"
      BY <2>1, <2>2 DEF IInv, SessionInv, ProcessExact
    <3> QED
      BY <1>1, <3>1, <3>2, CommandTypes
  <2>4. UpToDate(f, origin)
    BY <2>1 DEF Account
  <2> QED
    BY <1>1, <2>1, <2>3, <2>4, UpToDateStays
<1>5. ASSUME ~Ended', NEW i \in DOMAIN origin
      PROVE  ~Waiting(origin[i].by)'
  <2> DEFINE p == origin[i].by
  <2>1. p \in Proc /\ confirmed[p] # <<>>
    <3>1. p \in Proc
      BY DEF Origin
    <3>2. origin[i].nth \in DOMAIN confirmed[p]
      BY <1>1 DEF Sourced
    <3> QED
      BY <3>1, <3>2
  <2>2. client[p] # "idle"
    BY <2>1 DEF CommandInv
  <2>3. ~Waiting(p)
    BY <1>5 DEF Account
  <2> QED
    BY <1>5, <2>1, <2>2, <2>3
<1> QED
  BY <1>2, <1>3, <1>4, <1>5 DEF Account

\* A connection that waits is introduced by its process' id.
LEMMA IntroducedOf ==
  ASSUME IInv, ~Ended, NEW p \in Proc, Waiting(p)
  PROVE  Introduced(p)
BY DEF IInv, SessionInv, IntroducedFirst, Waiting

\* What waits before a login stays whole.
LEMMA WaitsStay ==
  ASSUME IInv, CommandInv, Quiet, ~Ended', NEW p \in Proc, Waiting(p)'
  PROVE  WaitsWhole(p)'
<1>1. ~Ended /\ (Waiting(p) \/ client[p] = "idle") /\ Carried(p)
  BY DEF Quiet
<1>2. /\ confirmed[p] \in Seq(Request) /\ toServer[p] \in Seq(IdFrame \cup Request)
      /\ Len(confirmed[p]) \in Nat /\ Len(toServer[p]) \in Nat
      /\ DOMAIN confirmed[p] = 1 .. Len(confirmed[p])
  BY CommandTypes DEF IInv
<1>3. client[p] = "idle" => toServer[p] = <<>> /\ confirmed[p] = <<>>
  BY <1>1 DEF IInv, SessionInv, ProcessExact, CommandInv
<1>4. WaitsWhole(p)
  BY <1>1, <1>3 DEF CommandInv, WaitsWhole
<1>5. CASE toServer'[p] = toServer[p] /\ confirmed'[p] = confirmed[p]
  BY <1>4, <1>5 DEF WaitsWhole
<1>6. ASSUME NEW r \in Request, client[p] = "running",
             toServer'[p] = Append(toServer[p], r), confirmed'[p] = Append(confirmed[p], r)
      PROVE  WaitsWhole(p)'
  <2> DEFINE a == confirmed[p]  b == toServer[p]  a2 == Append(a, r)  b2 == Append(b, r)
  <2>1. toServer[p] # <<>>
    <3>1. Introduced(p)
      BY <1>1, <1>6, IntroducedOf
    <3> QED
      BY <1>6, <3>1 DEF Introduced
  <2>2. Len(b) = Len(a) + 1 /\ \A k \in 1 .. Len(a) : b[k + 1] = a[k]
    BY <1>2, <1>4, <2>1 DEF WaitsWhole
  <2>3. /\ Len(a2) = Len(a) + 1 /\ a2[Len(a) + 1] = r
        /\ \A k \in 1 .. Len(a) : a2[k] = a[k]
        /\ DOMAIN a2 = 1 .. Len(a) + 1
    BY <1>2, AppendProperties
  <2>4. /\ Len(b2) = Len(b) + 1 /\ b2[Len(b) + 1] = r
        /\ \A k \in 1 .. Len(b) : b2[k] = b[k]
    BY <1>2, AppendProperties
  <2>5. Len(a) \in Nat /\ Len(b) \in Nat
    BY <1>2
  <2> HIDE DEF a, b, a2, b2
  <2>6. ASSUME NEW k \in DOMAIN a2
        PROVE  b2[k + 1] = a2[k]
    <3>1. CASE k \in 1 .. Len(a)
      <4>1. k + 1 \in 1 .. Len(b)
        BY <2>2, <2>5, <3>1
      <4> QED
        BY <2>2, <2>3, <2>4, <3>1, <4>1
    <3>2. CASE k = Len(a) + 1
      BY <2>2, <2>3, <2>4, <3>2
    <3> QED
      BY <2>3, <2>5, <3>1, <3>2
  <2>7. Len(b2) = Len(a2) + 1
    BY <2>2, <2>3, <2>4
  <2>8. toServer'[p] = b2 /\ confirmed'[p] = a2
    BY <1>6 DEF a, b, a2, b2
  <2> QED
    BY <2>6, <2>7, <2>8 DEF WaitsWhole
<1>7. CASE /\ client[p] = "connected"
           /\ toServer'[p] = Append(toServer[p], [id |-> IdOf[p]])
           /\ confirmed'[p] = confirmed[p]
  <2>1. toServer[p] = <<>> /\ confirmed[p] = <<>>
    BY <1>1, <1>7 DEF IInv, SessionInv, ProcessExact, CommandInv
  <2>2. toServer'[p] = <<[id |-> IdOf[p]]>> /\ confirmed'[p] = <<>>
    BY <1>7, <2>1
  <2>3. Len(toServer'[p]) = 1 /\ Len(confirmed'[p]) = 0 /\ DOMAIN confirmed'[p] = {}
    BY <2>2
  <2> QED
    BY <2>3 DEF WaitsWhole
<1> QED
  BY <1>1, <1>5, <1>6, <1>7 DEF Carried

\* What a process has confirmed stays in bounds, and belongs to a process
\* that has given its id.
LEMMA ConfirmedKept ==
  ASSUME IInv, CommandInv, \A p \in Proc : Confirms(p),
         \A p \in Proc : client'[p] \in {"idle", "connected"} =>
                           client[p] \in {"idle", "connected"}
  PROVE  /\ \A p \in Proc : Len(confirmed'[p]) <= MaxCommands
         /\ \A p \in Proc : client'[p] \in {"idle", "connected"} => confirmed'[p] = <<>>
<1> SUFFICES ASSUME NEW p \in Proc
             PROVE  /\ Len(confirmed'[p]) <= MaxCommands
                    /\ client'[p] \in {"idle", "connected"} => confirmed'[p] = <<>>
  OBVIOUS
<1>1. confirmed[p] \in Seq(Request) /\ Len(confirmed[p]) \in Nat /\ MaxCommands \in Nat
  BY CommandTypes, MaxCommandsAssumption DEF IInv
<1>2. CASE confirmed'[p] = confirmed[p]
  BY <1>2 DEF CommandInv
<1>3. ASSUME NEW r \in Request, client'[p] = "running", Len(confirmed[p]) < MaxCommands,
             confirmed'[p] = Append(confirmed[p], r)
      PROVE  /\ Len(confirmed'[p]) <= MaxCommands
             /\ client'[p] \in {"idle", "connected"} => confirmed'[p] = <<>>
  BY <1>1, <1>3
<1> QED
  BY <1>2, <1>3 DEF Confirms

\* Any step that notes nothing and begins no session keeps the invariant.
LEMMA QuietKeeps ==
  ASSUME IInv, CommandInv, SameLogs, Quiet, \A p \in Proc : Confirms(p),
         \A p \in Proc : client'[p] \in {"idle", "connected"} =>
                           client[p] \in {"idle", "connected"}
  PROVE  CommandInv'
<1>1. LogBySessions'
  <2> SUFFICES ASSUME NEW u \in UserId
               PROVE  \E origin \in [DOMAIN LogOf(u)' -> Origin] : Account(u, origin)'
    BY DEF LogBySessions
  <2>1. PICK origin \in [DOMAIN LogOf(u) -> Origin] : Account(u, origin)
    BY DEF CommandInv, LogBySessions
  <2>2. LogOf(u)' = LogOf(u)
    BY DEF SameLogs
  <2>3. ~Ended' =>
           /\ ~Ended
           /\ \A f \in Fd : fdsToUsers'[f] = u =>
                fdsToUsers[f] = u /\ conn'[f] = conn[f] /\ Carried(conn[f])
           /\ \A p \in Proc : Waiting(p)' => Waiting(p) \/ client[p] = "idle"
    BY IdAssumption DEF Quiet
  <2>4. Account(u, origin)'
    BY <2>1, <2>2, <2>3, AccountStays
  <2> QED
    BY <2>2, <2>4
<1>2. ~Ended' => \A p \in Proc : Waiting(p)' => WaitsWhole(p)'
  BY WaitsStay
<1> QED
  BY <1>1, <1>2, ConfirmedKept DEF CommandInv

\* The steps of the processes and of the network note nothing: of a session,
\* or a connection that waits, what its living process says is on its way.
LEMMA ProcessQuiet ==
  ASSUME IInv, CommandInv, NEW p \in Proc, SubscriberStep(p) \/ UserStep(p) \/ Reset(p)
  PROVE  CommandInv'
<1>1. /\ SameLogs
      /\ UNCHANGED <<pc, conn, connfd, fdsToUsers>>
  BY DEF SubscriberStep, UserStep, Reset, server, tables, SameLogs, LogOf
<1>2. /\ toServer \in [Proc -> Seq(IdFrame \cup Request)]
      /\ confirmed \in [Proc -> Seq(Request)] /\ client \in [Proc -> {"idle", "connected", "running", "exited", "crashed"}]
      /\ backlog \in Seq(Proc)
      /\ conn \in [Fd -> Proc \cup {NoProc}]
  BY DEF IInv, TypeOK, NetworkTypeOK, SubscriberTypeOK, ServerTypeOK
<1>3. /\ \A q \in Proc : Confirms(q)
      /\ \A q \in Proc : client'[q] \in {"idle", "connected"} =>
                           client[q] \in {"idle", "connected"}
  <2>1. CASE TypeCommand(p)
    BY <1>2, <2>1 DEF TypeCommand, Confirms
  <2>2. CASE ~TypeCommand(p)
    BY <1>2, <2>2 DEF SubscriberStep, UserStep, Reset, SendId, Receive, ReceiveReset, Connect,
       TypeCommandSigpipe, Quit, Leave, ResetServerEnd, ResetClientEnd, subscriber, Confirms
  <2> QED
    BY <2>1, <2>2
<1>4. ASSUME NEW q \in Proc, Waiting(q)'
      PROVE  Waiting(q) \/ client[q] = "idle"
  <2>1. CASE backlog' = backlog
    BY <1>1, <1>4, <2>1 DEF Waiting, Queued
  <2>2. CASE backlog' = Append(backlog, p) /\ client[p] = "idle"
    <3>1. \A i \in DOMAIN backlog' : (i \in DOMAIN backlog /\ backlog'[i] = backlog[i]) \/ backlog'[i] = p
      BY <1>2, <2>2
    <3> QED
      BY <1>1, <1>4, <2>2, <3>1 DEF Waiting, Queued
  <2> QED
    BY <2>1, <2>2 DEF SubscriberStep, UserStep, Reset, SendId, ClientSend, Receive, ReceiveReset,
       Connect, TypeCommand, TypeCommandSigpipe, Quit, ResetServerEnd, ResetClientEnd
<1>5. ASSUME ~Ended, NEW q \in Proc, Waiting(q) \/ client[q] = "idle" \/ \E f \in Fd : conn[f] = q
      PROVE  Carried(q)
  <2>1. client[q] \in {"connected", "running"} => cliSock[q] = "open"
    BY <1>5, NoProcAssumption DEF IInv, SessionInv, ProcessExact, Waiting
  <2>2. CASE toServer' = toServer /\ confirmed' = confirmed
    BY <2>2 DEF Carried
  <2>3. CASE q # p
    <3>1. toServer'[q] = toServer[q] /\ confirmed'[q] = confirmed[q]
      BY <1>2, <2>3 DEF SubscriberStep, UserStep, Reset, SendId, ClientSend, Delivered, Receive,
         ReceiveReset, Connect, TypeCommand, TypeCommandSigpipe, Quit, ResetServerEnd,
         ResetClientEnd, subscriber
    <3> QED
      BY <3>1 DEF Carried
  <2>4. CASE q = p /\ SendId(p)
    <3>1. toServer' = [toServer EXCEPT ![p] = Append(@, [id |-> IdOf[p]])]
      BY <2>1, <2>4 DEF SendId, ClientSend, Delivered
    <3> QED
      BY <1>2, <2>4, <3>1 DEF SendId, Carried
  <2>5. CASE q = p /\ TypeCommand(p)
    <3>1. PICK r \in Request : /\ ClientSend(p, r)
                               /\ confirmed' = [confirmed EXCEPT ![p] = Append(@, r)]
      BY <2>5 DEF TypeCommand
    <3>2. client[p] = "running" /\ toServer' = [toServer EXCEPT ![p] = Append(@, r)]
      BY <2>1, <2>5, <3>1 DEF TypeCommand, ClientSend, Delivered
    <3> QED
      BY <1>2, <2>5, <3>1, <3>2 DEF Carried
  <2> QED
    BY <2>2, <2>3, <2>4, <2>5 DEF SubscriberStep, UserStep, Reset, Receive, ReceiveReset,
       Connect, TypeCommandSigpipe, Quit, ResetServerEnd, ResetClientEnd, subscriber
<1>6. ASSUME ~Ended, NEW f \in Fd, fdsToUsers[f] # NoUser
      PROVE  Carried(conn[f])
  <2>1. conn[f] \in Proc
    BY <1>2, <1>6 DEF IInv, SessionInv, TableExact
  <2> QED
    BY <1>5, <1>6, <2>1
<1>7. Quiet
  BY <1>1, <1>4, <1>5, <1>6 DEF Quiet, Ended
<1> QED
  BY <1>1, <1>3, <1>7, QuietKeeps

\* Steps of the server confirm nothing.
LEMMA ServerConfirms ==
  ASSUME IInv, UNCHANGED subscriber
  PROVE  /\ \A p \in Proc : Confirms(p)
         /\ \A p \in Proc : client'[p] \in {"idle", "connected"} =>
                              client[p] \in {"idle", "connected"}
BY DEF subscriber, Confirms

\* A connection is given up, in a login or in the scan.
LEMMA ClosingQuiet ==
  ASSUME IInv, UNCHANGED subscriber, ~Ended, NEW f \in Fd, conn[f] # NoProc,
         NEW n \in Nat, Close(conn[f], n),
         conn' = [conn EXCEPT ![f] = NoProc],
         connfd' = NoFd,
         connfd \in {NoFd, f},
         \/ fdsToUsers' = fdsToUsers /\ fdsToUsers[f] = NoUser
         \/ fdsToUsers' = [fdsToUsers EXCEPT ![f] = NoUser]
  PROVE  Quiet
<1>1. /\ conn \in [Fd -> Proc \cup {NoProc}] /\ conn[f] \in Proc
      /\ fdsToUsers \in [Fd -> UserId \cup {NoUser}]
      /\ TypeOK
  BY DEF IInv, TypeOK, ServerTypeOK
<1>2. /\ backlog' = backlog
      /\ \A q \in Proc \ {conn[f]} : toServer'[q] = toServer[q]
  BY <1>1, CloseEffect
<1>3. /\ \A g \in Fd : conn[g] = conn[f] => g = f
      /\ ~Queued(conn[f])
  BY DEF IInv, SessionInv, TableExact, QueueExact
<1>4. \A g \in Fd : fdsToUsers'[g] # NoUser =>
         /\ g # f /\ fdsToUsers'[g] = fdsToUsers[g] /\ conn'[g] = conn[g]
         /\ conn[g] # NoProc /\ conn[g] # conn[f]
  <2>1. \A g \in Fd : fdsToUsers'[g] # NoUser => g # f /\ fdsToUsers'[g] = fdsToUsers[g]
    BY <1>1
  <2>2. \A g \in Fd : fdsToUsers[g] # NoUser => conn[g] # NoProc
    BY DEF IInv, SessionInv, TableExact
  <2> QED
    BY <1>1, <1>3, <2>1, <2>2
<1>5. \A p \in Proc : Waiting(p)' => Waiting(p) /\ p # conn[f]
  BY <1>2, <1>3, FdAssumption DEF Waiting, Queued
<1>6. \A p \in Proc : p # conn[f] => Carried(p)
  BY <1>2 DEF Carried, subscriber
<1> QED
  BY <1>1, <1>4, <1>5, <1>6 DEF Quiet

\* The server's steps, other than a login and the service of a command, note
\* nothing and begin no session.
LEMMA ServerQuiet ==
  ASSUME IInv, CommandInv, ServerStep \/ ServerEnvironment, UNCHANGED subscriber,
         ~LoginNew, ~LoginBack, ~ScanCommand
  PROVE  CommandInv'
<1>1. SameLogs
  <2>1. CASE ScanDisconnect
    <3>1. PICK w : userSubscriptions' = [userSubscriptions EXCEPT ![w].active = FALSE]
      BY <2>1 DEF ScanDisconnect, LogOut
    <3>2. userSubscriptions \in [UserId -> User]
      BY DEF IInv, TypeOK, ServerTypeOK
    <3> QED
      BY <3>1, <3>2 DEF SameLogs, LogOf, User
  <2>2. CASE ~ScanDisconnect
    <3>1. userSubscriptions' = userSubscriptions
      BY <2>2 DEF ServerStep, ServerEnvironment, Poll, Stdin, AcceptFails, Accept,
         SetsockoptFails, AddFdFails, AddFd, LoginRefused, LoginInvalid, Refuse, Drop, Udp,
         Fanout, ScanDone, FreeStep, FreeDone, Sigpipe, End, Signal, Arrive, TypeExit, tables
    <3> QED
      BY <3>1 DEF SameLogs, LogOf
  <2> QED
    BY <2>1, <2>2
<1>2. CASE LoginRefused \/ LoginInvalid \/ AddFdFails \/ SetsockoptFails
  <2>1. PICK n \in {0, 1} : /\ Drop(n) /\ ~Ended /\ connfd \in Fd /\ conn[connfd] # NoProc
                              /\ fdsToUsers[connfd] = NoUser
    BY <1>2 DEF LoginRefused, LoginInvalid, AddFdFails, SetsockoptFails, Refuse, IdReceived,
       IInv, SessionInv, ConnfdExact, Ended
  <2>2. Quiet
    BY <2>1, ClosingQuiet DEF Drop, tables
  <2> QED
    BY <1>1, <2>2, ServerConfirms, QuietKeeps
<1>3. CASE ScanDisconnect
  <2>1. PICK i \in DOMAIN pollfds :
          /\ Scanning(i)
          /\ LogOut(pollfds[i].fd)
          /\ Close(conn[pollfds[i].fd], 0)
          /\ conn' = [conn EXCEPT ![pollfds[i].fd] = NoProc]
          /\ connfd' = connfd
    BY <1>3 DEF ScanDisconnect
  <2> DEFINE f == pollfds[i].fd
  <2>2. ~Ended /\ connfd = NoFd /\ f \in Fd /\ conn[f] # NoProc
    BY <2>1, ScanFinds, NoProcAssumption
  <2>3. Quiet
    BY <2>1, <2>2, ClosingQuiet DEF LogOut
  <2> QED
    BY <1>1, <2>3, ServerConfirms, QuietKeeps
<1>4. CASE Accept
  <2>1. PICK f \in Fd : /\ conn[f] = NoProc
                        /\ connfd' = f
                        /\ conn' = [conn EXCEPT ![f] = Head(backlog)]
    BY <1>4 DEF Accept
  <2>2. /\ ~Ended /\ ~Ended' /\ connfd = NoFd /\ backlog # <<>>
        /\ toServer' = toServer /\ fdsToUsers' = fdsToUsers
        /\ conn \in [Fd -> Proc \cup {NoProc}] /\ backlog \in Seq(Proc)
    BY <1>4 DEF Accept, Ended, tables, IInv, SessionInv, ConnfdExact, QueueExact, TypeOK,
       NetworkTypeOK, ServerTypeOK
  <2>3. \A g \in Fd : fdsToUsers'[g] # NoUser => conn'[g] = conn[g]
    BY <2>1, <2>2 DEF IInv, SessionInv, TableExact
  <2>4. \A p \in Proc : Queued(p)' => Queued(p)
    BY <1>4, <2>2, QueueBefore DEF ServerStep
  <2>5. Queued(Head(backlog))
    BY <2>2 DEF Queued
  <2>6. conn'[connfd'] = Head(backlog)
    BY <2>1, <2>2
  <2>7. \A p \in Proc : Waiting(p)' => Waiting(p)
    BY <2>4, <2>5, <2>6 DEF Waiting
  <2>8. Quiet
    BY <2>2, <2>3, <2>7 DEF Quiet, Carried, subscriber
  <2> QED
    BY <1>1, <2>8, ServerConfirms, QuietKeeps
<1>5. CASE FreeDone \/ Sigpipe
  <2>1. Ended'
    BY <1>5 DEF FreeDone, Sigpipe, End, Ended
  <2>2. Quiet
    BY <2>1 DEF Quiet
  <2> QED
    BY <1>1, <2>2, ServerConfirms, QuietKeeps
<1>6. CASE Poll \/ Stdin \/ AcceptFails \/ AddFd \/ Udp \/ Fanout \/ ScanDone \/ FreeStep
           \/ Signal \/ Arrive \/ TypeExit
  <2>1. UNCHANGED <<backlog, toServer, conn, connfd, fdsToUsers>>
    BY <1>6 DEF Poll, Stdin, AcceptFails, AddFd, Udp, Fanout, ScanDone, FreeStep, SendTo,
       Signal, Arrive, TypeExit, network, tables
  <2>2. ~Ended' => ~Ended
    BY UpBefore DEF Next
  <2>3. Quiet
    BY <2>1, <2>2 DEF Quiet, Waiting, Queued, Carried, subscriber
  <2> QED
    BY <1>1, <2>3, ServerConfirms, QuietKeeps
<1> QED
  BY <1>2, <1>3, <1>4, <1>5, <1>6 DEF ServerStep, ServerEnvironment

\* A session of which nothing is read yet is up to date.
LEMMA NothingRead ==
  ASSUME NEW f, NEW p, conn'[f] = p, NEW origin,
         NEW n \in Nat, Len(confirmed'[p]) = n, Len(toServer'[p]) = n,
         DOMAIN toServer'[p] = 1 .. n,
         \A k \in DOMAIN toServer'[p] : toServer'[p][k] = confirmed'[p][k],
         \A i \in DOMAIN origin : origin[i].by # p
  PROVE  UpToDate(f, origin)'
<1>1. n - n = 0 /\ n <= n /\ (1 .. 0 = {}) /\ \A k \in 1 .. n : 0 + k = k
  OBVIOUS
<1>2. /\ Len(toServer'[p]) <= Len(confirmed'[p])
      /\ \A k \in DOMAIN toServer'[p] :
           toServer'[p][k] = confirmed'[p][Len(confirmed'[p]) - Len(toServer'[p]) + k]
  BY <1>1
<1>3. \A k \in 1 .. Len(confirmed'[p]) - Len(toServer'[p]) : Applied(p, k, origin)'
  BY <1>1
<1> QED
  BY <1>2, <1>3 DEF UpToDate

\* A session begins.  Its user had none, its connection waited until now and
\* all that was confirmed on it is still to be read.
LEMMA EnterNotes ==
  ASSUME IInv, CommandInv, UNCHANGED subscriber, NEW u \in UserId, IdReceived(u),
         ~userSubscriptions[u].active, Enter(u, LogOf(u))
  PROVE  CommandInv'
<1> DEFINE p == conn[connfd]
<1>1. /\ TypeOK /\ pc = "login" /\ pc' = "poll" /\ ~Ended /\ ~Ended'
      /\ connfd \in Fd /\ connfd' = NoFd /\ connfd' \notin Fd
      /\ UNCHANGED <<conn, backlog, confirmed, client>>
      /\ toServer[p] # <<>> /\ toServer' = Taken(p)
      /\ fdsToUsers' = [fdsToUsers EXCEPT ![connfd] = u]
  BY FdAssumption DEF IInv, IdReceived, Enter, SessionInv, ConnfdExact, Ended, subscriber
<1>2. /\ p \in Proc /\ ~Queued(p)
      /\ \A f \in Fd : conn[f] = p => f = connfd
      /\ fdsToUsers[connfd] = NoUser
      /\ \A f \in Fd : fdsToUsers[f] # u
  <2>1. conn[connfd] # NoProc /\ fdsToUsers[connfd] = NoUser
    BY <1>1 DEF IInv, SessionInv, ConnfdExact
  <2>2. p \in Proc
    BY <1>1, <2>1, CommandTypes
  <2>3. ~Queued(p) /\ \A f \in Fd : conn[f] = p => f = connfd
    BY <1>1, <2>1 DEF IInv, SessionInv, QueueExact, TableExact
  <2>4. \A f \in Fd : fdsToUsers[f] # u
    BY <1>1, IdAssumption DEF IInv, SessionInv, FdUserBijection
  <2> QED
    BY <2>1, <2>2, <2>3, <2>4
<1>3. /\ toServer'[p] = Tail(toServer[p])
      /\ \A q \in Proc \ {p} : toServer'[q] = toServer[q]
      /\ \A f \in Fd : fdsToUsers'[f] = IF f = connfd THEN u ELSE fdsToUsers[f]
  BY <1>1, <1>2, CommandTypes DEF Taken
<1>4. \A v \in UserId : LogOf(v)' = LogOf(v)
  <2>1. userSubscriptions \in [UserId -> User]
    BY <1>1, CommandTypes
  <2> QED
    BY <2>1 DEF Enter, LogOf
<1>5. \A q \in Proc : Waiting(q)' => Waiting(q) /\ q # p
  BY <1>1, <1>2 DEF Waiting, Queued
<1>6. \A q \in Proc : Confirms(q)
  BY <1>1 DEF Confirms
<1>7. ASSUME NEW v \in UserId
      PROVE  \E origin \in [DOMAIN LogOf(v)' -> Origin] : Account(v, origin)'
  <2>1. PICK origin \in [DOMAIN LogOf(v) -> Origin] : Account(v, origin)
    BY DEF CommandInv, LogBySessions
  <2>2. CASE v # u
    <3>1. \A f \in Fd : fdsToUsers'[f] = v =>
             fdsToUsers[f] = v /\ conn'[f] = conn[f] /\ Carried(conn[f])
      <4> SUFFICES ASSUME NEW f \in Fd, fdsToUsers'[f] = v
                   PROVE  fdsToUsers[f] = v /\ conn'[f] = conn[f] /\ Carried(conn[f])
        OBVIOUS
      <4>1. f # connfd /\ fdsToUsers[f] = v
        BY <1>3, <2>2
      <4>2. conn[f] \in Proc \ {p}
        <5>1. fdsToUsers[f] # NoUser
          BY <4>1, IdAssumption
        <5>2. conn[f] # NoProc
          BY <1>1, <5>1 DEF IInv, SessionInv, TableExact
        <5> QED
          BY <1>1, <1>2, <4>1, <5>2, CommandTypes
      <4> QED
        BY <1>1, <1>3, <4>1, <4>2 DEF Carried
    <3>2. Account(v, origin)'
      BY <1>1, <1>4, <1>5, <1>6, <2>1, <3>1, AccountStays
    <3> QED
      BY <1>4, <3>2
  <2>3. CASE v = u
    <3>1. Sourced(u, origin) /\ SessionBySession(origin) /\ \A i \in DOMAIN origin : ~Waiting(origin[i].by)
      BY <1>1, <2>1, <2>3 DEF Account
    <3>2. Sourced(u, origin)'
      BY <1>1, <1>4, <1>6, <2>1, <2>3, <3>1, SourcedStays
    <3>3. SessionBySession(origin)'
      BY <3>1 DEF SessionBySession
    <3>4. \A i \in DOMAIN origin : origin[i].by \in Proc /\ origin[i].by # p /\ ~Waiting(origin[i].by)'
      <4>1. Waiting(p)
        BY <1>1 DEF Waiting
      <4>2. \A i \in DOMAIN origin : origin[i].by \in Proc
        BY <2>1 DEF Origin
      <4> QED
        BY <1>5, <3>1, <4>1, <4>2
    <3>5. PICK c \in Fd : c = connfd
      BY <1>1
    <3>6. UpToDate(c, origin)'
      <4> DEFINE a == confirmed[p]  b == toServer[p]
      <4>1. /\ Len(b) = Len(a) + 1 /\ \A k \in DOMAIN a : b[k + 1] = a[k]
        <5>1. Waiting(p)
          BY <1>1 DEF Waiting
        <5>2. WaitsWhole(p)
          BY <1>1, <1>2, <5>1 DEF CommandInv
        <5> QED
          BY <1>1, <5>2 DEF WaitsWhole
      <4>2. /\ a \in Seq(Request) /\ b \in Seq(IdFrame \cup Request) /\ b # <<>>
            /\ Len(a) \in Nat /\ DOMAIN a = 1 .. Len(a)
        BY <1>1, <1>2, CommandTypes
      <4>3. /\ Len(Tail(b)) = Len(a)
            /\ DOMAIN Tail(b) = 1 .. Len(a)
            /\ \A k \in DOMAIN Tail(b) : Tail(b)[k] = a[k]
        <5> HIDE DEF a, b
        <5>1. /\ Len(Tail(b)) = Len(b) - 1
              /\ \A k \in 1 .. Len(b) - 1 : Tail(b)[k] = b[k + 1]
              /\ DOMAIN Tail(b) = 1 .. Len(b) - 1
          BY <4>2
        <5>2. Len(b) - 1 = Len(a)
          BY <4>1, <4>2
        <5> QED
          BY <4>1, <4>2, <5>1, <5>2
      <4>4. conn'[c] = p /\ confirmed'[p] = a /\ toServer'[p] = Tail(b)
        BY <1>1, <1>3, <3>5
      <4>5. /\ Len(a) \in Nat /\ Len(confirmed'[p]) = Len(a) /\ Len(toServer'[p]) = Len(a)
            /\ DOMAIN toServer'[p] = 1 .. Len(a)
            /\ \A k \in DOMAIN toServer'[p] : toServer'[p][k] = confirmed'[p][k]
        BY <4>2, <4>3, <4>4
      <4>6. \A i \in DOMAIN origin : origin[i].by # p
        BY <3>4
      <4> HIDE DEF a, b, p
      <4> QED
        BY <4>4, <4>5, <4>6, NothingRead
    <3>7. \A f \in Fd : fdsToUsers'[f] = u => f = c
      BY <1>2, <1>3, <3>5
    <3>8. Account(u, origin)'
      <4>1. \A f \in Fd : fdsToUsers'[f] = u => UpToDate(f, origin)'
        BY <3>6, <3>7
      <4>2. \A i \in DOMAIN origin : ~Waiting(origin[i].by)'
        BY <3>4
      <4> QED
        BY <3>2, <3>3, <4>1, <4>2 DEF Account
    <3> QED
      BY <1>4, <2>1, <2>3, <3>8
  <2> QED
    BY <2>2, <2>3
<1>8. ASSUME NEW q \in Proc, Waiting(q)'
      PROVE  WaitsWhole(q)'
  <2>1. Waiting(q) /\ q # p
    BY <1>5, <1>8
  <2>2. WaitsWhole(q)
    BY <1>1, <2>1 DEF CommandInv
  <2> QED
    BY <1>1, <1>3, <2>1, <2>2 DEF WaitsWhole
<1>9. LogBySessions'
  BY <1>7 DEF LogBySessions
<1> QED
  BY <1>1, <1>8, <1>9 DEF CommandInv

\* A sequence that ends as another does, without its first element.
LEMMA EndsShorter ==
  ASSUME NEW S, NEW T, NEW a \in Seq(S), NEW b \in Seq(T), b # <<>>, Len(b) <= Len(a),
         \A k \in DOMAIN b : b[k] = a[Len(a) - Len(b) + k]
  PROVE  /\ Len(Tail(b)) <= Len(a)
         /\ Len(a) - Len(Tail(b)) = Len(a) - Len(b) + 1
         /\ \A k \in DOMAIN Tail(b) : Tail(b)[k] = a[Len(a) - Len(b) + 1 + k]
<1>1. /\ Len(a) \in Nat /\ Len(b) \in Nat \ {0} /\ DOMAIN b = 1 .. Len(b)
      /\ Len(Tail(b)) = Len(b) - 1 /\ DOMAIN Tail(b) = 1 .. Len(b) - 1
      /\ \A k \in 1 .. Len(b) - 1 : Tail(b)[k] = b[k + 1]
  OBVIOUS
<1>2. Len(a) - Len(Tail(b)) = Len(a) - Len(b) + 1 /\ Len(Tail(b)) <= Len(a)
  BY <1>1
<1>3. ASSUME NEW k \in DOMAIN Tail(b)
      PROVE  Tail(b)[k] = a[Len(a) - Len(b) + 1 + k]
  <2>1. k + 1 \in DOMAIN b /\ Tail(b)[k] = b[k + 1]
    BY <1>1
  <2>2. Len(a) - Len(b) + (k + 1) = Len(a) - Len(b) + 1 + k
    BY <1>1
  <2>3. b[k + 1] = a[Len(a) - Len(b) + (k + 1)]
    BY <2>1
  <2> QED
    BY <2>1, <2>2, <2>3
<1> QED
  BY <1>2, <1>3

\* Command n of process p, whose session is that of user u on descriptor f,
\* is read, and noted unless it may be lost.
Serves(f, p, u, n) ==
  /\ ~Ended /\ connfd \notin Fd /\ ~Queued(p)
  /\ conn[f] = p /\ \A g \in Fd : conn[g] = p => g = f
  /\ fdsToUsers[f] = u /\ \A g \in Fd : fdsToUsers[g] = u => g = f
  /\ n \in DOMAIN confirmed[p]
  /\ toServer[p] # <<>> /\ n = Len(confirmed[p]) - Len(toServer[p]) + 1
  /\ toServer'[p] = Tail(toServer[p])
  /\ \A q \in Proc \ {p} : toServer'[q] = toServer[q]
  /\ \A v \in UserId \ {u} : LogOf(v)' = LogOf(v)
  /\ \/ MayBeLost(confirmed[p][n]) /\ LogOf(u)' = LogOf(u)
     \/ LogOf(u)' = Append(LogOf(u), Asked(confirmed[p][n]))

\* A command is read: the next of those its process confirmed.
LEMMA NextCommand ==
  ASSUME IInv, CommandInv, ScanCommand, UNCHANGED subscriber
  PROVE  \E f \in Fd, p \in Proc, u \in UserId, n \in 1 .. MaxCommands : Serves(f, p, u, n)
<1>1. PICK i \in DOMAIN pollfds :
        LET f == pollfds[i].fd
            p == conn[f]
            u == fdsToUsers[f]
            frame == Head(toServer[p])
        IN /\ Scanning(i)
           /\ toServer[p] # <<>>
           /\ toServer' = Taken(p)
           /\ \/ "strdup" \in Faults /\ UNCHANGED userSubscriptions
              \/ userSubscriptions' = [userSubscriptions EXCEPT ![u].subscriptions =
                   AddSubscription(@, FirstWord[frame.topic], frame.command = "subscribe")]
  BY DEF ScanCommand
<1>2. /\ ~Ended /\ connfd \notin Fd /\ pollfds[i].fd \in Fd /\ conn[pollfds[i].fd] \in Proc
      /\ fdsToUsers[pollfds[i].fd] \in UserId /\ ~Queued(conn[pollfds[i].fd])
      /\ \A g \in Fd : conn[g] = conn[pollfds[i].fd] => g = pollfds[i].fd
  BY <1>1, ScanFinds, FdAssumption
<1>3. PICK f \in Fd, p \in Proc, u \in UserId :
         f = pollfds[i].fd /\ p = conn[f] /\ u = fdsToUsers[f]
  BY <1>2
<1> DEFINE b == toServer[p]
           a == confirmed[p]
           n == Len(a) - Len(b) + 1
           r == a[n]
<1>4. u # NoUser /\ \A g \in Fd : fdsToUsers[g] = u => g = f
  BY <1>2, <1>3, IdAssumption DEF IInv, SessionInv, FdUserBijection
<1>5. /\ a \in Seq(Request) /\ b \in Seq(IdFrame \cup Request) /\ b # <<>>
      /\ Len(a) \in Nat /\ Len(b) \in Nat \ {0} /\ DOMAIN a = 1 .. Len(a)
      /\ 1 \in DOMAIN b /\ Head(b) = b[1]
  <2>1. a \in Seq(Request) /\ b \in Seq(IdFrame \cup Request) /\ b # <<>>
    BY <1>1, <1>3, CommandTypes DEF IInv
  <2> HIDE DEF a, b
  <2> QED
    BY <2>1
<1>6. Len(b) <= Len(a) /\ \A k \in DOMAIN b : b[k] = a[Len(a) - Len(b) + k]
  <2>1. PICK origin \in [DOMAIN LogOf(u) -> Origin] : Account(u, origin)
    BY <1>2 DEF CommandInv, LogBySessions
  <2>2. UpToDate(f, origin)
    BY <1>2, <1>3, <2>1 DEF Account
  <2> QED
    BY <1>3, <2>2 DEF UpToDate
<1>7. n \in DOMAIN a /\ n \in 1 .. MaxCommands /\ Head(b) = r
  <2>1. Len(a) <= MaxCommands /\ MaxCommands \in Nat
    BY <1>2, MaxCommandsAssumption DEF CommandInv
  <2>2. n \in 1 .. Len(a) /\ n = Len(a) - Len(b) + 1
    <3> DEFINE x == Len(a)  y == Len(b)
    <3>1. x \in Nat /\ y \in Nat \ {0} /\ y <= x
      BY <1>5, <1>6
    <3> HIDE DEF x, y
    <3>2. x - y + 1 \in 1 .. x
      BY <3>1
    <3> QED
      BY <3>2 DEF x, y
  <2>3. Head(b) = a[Len(a) - Len(b) + 1]
    BY <1>5, <1>6
  <2> HIDE DEF n
  <2>4. n \in 1 .. MaxCommands
    BY <1>5, <2>1, <2>2
  <2> QED
    BY <1>5, <2>2, <2>3, <2>4
<1>8. /\ toServer'[p] = Tail(b)
      /\ \A q \in Proc \ {p} : toServer'[q] = toServer[q]
  BY <1>1, <1>3, CommandTypes DEF Taken, IInv
<1>9. /\ \A v \in UserId \ {u} : LogOf(v)' = LogOf(v)
      /\ \/ MayBeLost(r) /\ LogOf(u)' = LogOf(u)
         \/ LogOf(u)' = Append(LogOf(u), Asked(r))
  <2>1. userSubscriptions \in [UserId -> User]
    BY CommandTypes DEF IInv
  <2>2. CASE "strdup" \in Faults /\ UNCHANGED userSubscriptions
    BY <2>2 DEF MayBeLost, LogOf
  <2>3. CASE userSubscriptions' = [userSubscriptions EXCEPT ![u].subscriptions =
               AddSubscription(@, FirstWord[Head(b).topic], Head(b).command = "subscribe")]
    <3> DEFINE new == AddSubscription(LogOf(u), FirstWord[r.topic], r.command = "subscribe")
    <3>1. userSubscriptions' = [userSubscriptions EXCEPT ![u] =
                                  [userSubscriptions[u] EXCEPT !.subscriptions = new]]
      BY <1>2, <1>7, <2>1, <2>3 DEF LogOf
    <3> HIDE DEF new
    <3>2. [userSubscriptions[u] EXCEPT !.subscriptions = new].subscriptions = new
      BY <1>2, <2>1 DEF User
    <3>3. LogOf(u)' = new /\ \A v \in UserId \ {u} : LogOf(v)' = LogOf(v)
      <4>1. /\ userSubscriptions'[u] = [userSubscriptions[u] EXCEPT !.subscriptions = new]
            /\ \A v \in UserId \ {u} : userSubscriptions'[v] = userSubscriptions[v]
        BY <1>2, <2>1, <3>1
      <4> QED
        BY <3>2, <4>1 DEF LogOf
    <3>4. CASE FirstWord[r.topic] = EmptyString
      BY <3>3, <3>4 DEF new, AddSubscription, MayBeLost
    <3>5. CASE FirstWord[r.topic] # EmptyString
      BY <3>3, <3>5 DEF new, AddSubscription, Asked
    <3> QED
      BY <3>3, <3>4, <3>5
  <2> QED
    BY <1>1, <1>3, <2>2, <2>3
<1> HIDE DEF n
<1>10. n = Len(confirmed[p]) - Len(toServer[p]) + 1
  BY DEF n
<1>11. toServer[p] # <<>> /\ ~Queued(p) /\ conn[f] = p /\ fdsToUsers[f] = u
       /\ \A g \in Fd : conn[g] = p => g = f
  BY <1>1, <1>2, <1>3
<1>12. Serves(f, p, u, n)
  BY <1>2, <1>4, <1>7, <1>8, <1>9, <1>10, <1>11 DEF Serves
<1>13. n \in 1 .. MaxCommands
  BY <1>7
<1> QED
  BY <1>12, <1>13

\* The commands up to the one being read.
LEMMA UpToThis ==
  ASSUME NEW x \in Nat, NEW y \in Nat, NEW n \in Nat, n = x - y + 1, NEW m \in 1 .. n
  PROVE  m \in 1 .. x - y \/ m = n
  OBVIOUS

\* A command that leaves no trace is read.
LEMMA LostKeepsAccount ==
  ASSUME IInv, CommandInv, UNCHANGED subscriber,
         NEW f \in Fd, NEW p \in Proc, NEW u \in UserId, NEW n \in 1 .. MaxCommands,
         Serves(f, p, u, n), conn'[f] = p,
         MayBeLost(confirmed[p][n]), LogOf(u)' = LogOf(u),
         NEW origin \in [DOMAIN LogOf(u) -> Origin], Account(u, origin)
  PROVE  Sourced(u, origin)' /\ SessionBySession(origin)' /\ UpToDate(f, origin)'
<1>1. TypeOK /\ UpToDate(f, origin) /\ Sourced(u, origin) /\ SessionBySession(origin)
  BY DEF IInv, Account, Serves
<1>2. \A q \in Proc : Confirms(q)
  BY DEF Confirms, subscriber
<1>3. Sourced(u, origin)'
  BY <1>1, <1>2, SourcedStays
<1>4. SessionBySession(origin)'
  BY <1>1 DEF SessionBySession
<1>5. PICK a, b : a = confirmed[p] /\ b = toServer[p]
  OBVIOUS
<1>6. /\ a \in Seq(Request) /\ b \in Seq(IdFrame \cup Request) /\ b # <<>>
      /\ confirmed'[p] = a /\ toServer'[p] = Tail(b)
      /\ n = Len(a) - Len(b) + 1 /\ Len(a) \in Nat /\ Len(b) \in Nat /\ n \in Nat
  BY <1>1, <1>5, CommandTypes DEF Serves, subscriber
<1>7. /\ Len(b) <= Len(a) /\ \A k \in DOMAIN b : b[k] = a[Len(a) - Len(b) + k]
      /\ \A m \in 1 .. Len(a) - Len(b) : Applied(p, m, origin)
      /\ \A i \in DOMAIN origin : origin[i].by = p =>
           /\ origin[i].nth <= Len(a) - Len(b)
           /\ \A j \in DOMAIN origin : i < j => origin[j].by = p
  BY <1>1, <1>5 DEF UpToDate, Serves
<1>8. \A m \in 1 .. n : Applied(p, m, origin)'
  <2> SUFFICES ASSUME NEW m \in 1 .. n PROVE Applied(p, m, origin)'
    OBVIOUS
  <2>1. m \in 1 .. Len(a) - Len(b) \/ m = n
    <3>1. Len(a) \in Nat /\ Len(b) \in Nat /\ n \in Nat /\ n = Len(a) - Len(b) + 1
      BY <1>6
    <3> QED
      BY ONLY <3>1, m \in 1 .. n, UpToThis
  <2>2. Applied(p, m, origin)
    BY <1>7, <2>1 DEF Applied
  <2> QED
    BY <2>2 DEF Applied, MayBeLost, subscriber
<1>9. \A i \in DOMAIN origin : origin[i].by = p =>
           /\ origin[i].nth <= n
           /\ \A j \in DOMAIN origin : i < j => origin[j].by = p
  <2> SUFFICES ASSUME NEW i \in DOMAIN origin, origin[i].by = p
               PROVE  /\ origin[i].nth <= n
                      /\ \A j \in DOMAIN origin : i < j => origin[j].by = p
    OBVIOUS
  <2>1. origin[i].nth \in Nat
    BY DEF Origin
  <2>2. origin[i].nth <= Len(a) - Len(b)
    BY <1>7
  <2>3. origin[i].nth <= n
    BY <1>6, <2>1, <2>2
  <2> QED
    BY <1>7, <2>3
<1>10. UpToDate(f, origin)'
  <2>1. /\ a \in Seq(Request) /\ b \in Seq(IdFrame \cup Request) /\ b # <<>>
        /\ Len(b) <= Len(a) /\ \A k \in DOMAIN b : b[k] = a[Len(a) - Len(b) + k]
        /\ confirmed'[p] = a /\ toServer'[p] = Tail(b) /\ n = Len(a) - Len(b) + 1
    BY <1>6, <1>7
  <2> QED
    <3>1. /\ Len(Tail(b)) <= Len(a) /\ Len(a) - Len(Tail(b)) = n
          /\ \A k \in DOMAIN Tail(b) : Tail(b)[k] = a[n + k]
      BY ONLY <2>1, EndsShorter
    <3>2. /\ Len(toServer'[p]) <= Len(confirmed'[p])
          /\ Len(confirmed'[p]) - Len(toServer'[p]) = n
          /\ \A k \in DOMAIN toServer'[p] : toServer'[p][k] = confirmed'[p][n + k]
      BY <2>1, <3>1
    <3> QED
      BY <3>2, <1>8, <1>9 DEF UpToDate
<1> QED
  BY <1>3, <1>4, <1>10

\* The account of u's longer log: as that of the log before, and what is new is
\* from p, served at f.
Continues(longer, origin, f, p, u) ==
  /\ Sourced(u, longer)' /\ SessionBySession(longer)' /\ UpToDate(f, longer)'
  /\ \A i \in DOMAIN longer :
        longer[i].by = p \/ \E j \in DOMAIN origin : longer[i].by = origin[j].by

\* A command is read and noted: the log is longer by one element, whose
\* origin is that command.
LEMMA NotedKeepsAccount ==
  ASSUME IInv, CommandInv, UNCHANGED subscriber,
         NEW f \in Fd, NEW p \in Proc, NEW u \in UserId, NEW n \in 1 .. MaxCommands,
         Serves(f, p, u, n), conn'[f] = p,
         LogOf(u)' = Append(LogOf(u), Asked(confirmed[p][n])),
         NEW origin \in [DOMAIN LogOf(u) -> Origin], Account(u, origin)
  PROVE  \E longer \in [DOMAIN LogOf(u)' -> Origin] : Continues(longer, origin, f, p, u)
<1>1. TypeOK /\ UpToDate(f, origin) /\ Sourced(u, origin) /\ SessionBySession(origin)
  BY DEF IInv, Account, Serves
<1>2. PICK a, b, log : a = confirmed[p] /\ b = toServer[p] /\ log = LogOf(u)
  OBVIOUS
<1> DEFINE new == LogOf(u)'
<1>3. PICK l \in Nat : l = Len(log)
  BY <1>1, <1>2, CommandTypes
<1>4. /\ a \in Seq(Request) /\ b \in Seq(IdFrame \cup Request) /\ b # <<>>
      /\ confirmed' = confirmed /\ confirmed'[p] = a /\ toServer'[p] = Tail(b)
      /\ n = Len(a) - Len(b) + 1 /\ Len(a) \in Nat /\ Len(b) \in Nat /\ n \in Nat
      /\ n \in DOMAIN a /\ IdOf[p] = u
  <2>1. /\ a \in Seq(Request) /\ b \in Seq(IdFrame \cup Request) /\ b # <<>>
        /\ confirmed' = confirmed /\ toServer'[p] = Tail(b)
        /\ n = Len(a) - Len(b) + 1 /\ Len(a) \in Nat /\ Len(b) \in Nat /\ n \in Nat
        /\ n \in DOMAIN a
    BY <1>1, <1>2, CommandTypes DEF Serves, subscriber
  <2>2. ~Ended /\ conn[f] = p /\ fdsToUsers[f] = u /\ u # NoUser
    BY IdAssumption DEF Serves
  <2>3. IdOf[p] = u
    BY <2>2 DEF IInv, SessionInv, FdUserBijection
  <2> QED
    BY <1>2, <2>1, <2>3
<1>5. /\ Len(b) <= Len(a) /\ \A k \in DOMAIN b : b[k] = a[Len(a) - Len(b) + k]
      /\ \A m \in 1 .. Len(a) - Len(b) : Applied(p, m, origin)
      /\ \A i \in DOMAIN origin : origin[i].by = p =>
           /\ origin[i].nth <= Len(a) - Len(b)
           /\ \A j \in DOMAIN origin : i < j => origin[j].by = p
  BY <1>1, <1>2 DEF UpToDate, Serves
<1>6. /\ l \in Nat /\ DOMAIN log = 1 .. l /\ DOMAIN origin = 1 .. l
      /\ DOMAIN new = 1 .. l + 1
      /\ \A i \in 1 .. l : new[i] = log[i]
      /\ new[l + 1] = Asked(a[n])
  <2>1. log \in Seq(Subscription) /\ Asked(a[n]) \in Subscription
    <3>1. a[n] \in Request
      BY <1>4
    <3>2. FirstWord[a[n].topic] \in String
      BY <3>1, FirstWordAssumption DEF Request
    <3> QED
      BY <1>1, <1>2, <3>2, CommandTypes DEF Asked, Subscription
  <2>2. new = Append(log, Asked(a[n]))
    BY <1>2
  <2> HIDE DEF new
  <2>3. Len(log) \in Nat /\ DOMAIN log = 1 .. Len(log)
    BY <2>1
  <2>4. /\ DOMAIN new = 1 .. Len(log) + 1
        /\ \A i \in 1 .. Len(log) : new[i] = log[i]
        /\ new[Len(log) + 1] = Asked(a[n])
    BY <2>1, <2>2, AppendProperties
  <2> QED
    BY <1>2, <1>3, <2>3, <2>4
<1> DEFINE last == [by |-> p, nth |-> n]
<1>7. PICK longer \in [1 .. l + 1 -> Origin] :
        /\ \A i \in 1 .. l : longer[i] = origin[i]
        /\ longer[l + 1] = last
  <2> DEFINE witness == [i \in 1 .. l + 1 |-> IF i \in 1 .. l THEN origin[i] ELSE last]
  <2>1. last \in Origin
    BY DEF Origin
  <2>2. \A i \in 1 .. l : origin[i] \in Origin
    BY <1>6
  <2>3. l + 1 \in 1 .. l + 1 /\ l + 1 \notin 1 .. l /\ \A i \in 1 .. l : i \in 1 .. l + 1
    BY <1>6
  <2> HIDE DEF last
  <2>4. witness \in [1 .. l + 1 -> Origin]
    BY <2>1, <2>2
  <2>5. (\A i \in 1 .. l : witness[i] = origin[i]) /\ witness[l + 1] = last
    BY <2>3
  <2> HIDE DEF witness
  <2> QED
    BY <2>4, <2>5
<1>8. /\ longer \in [DOMAIN new -> Origin]
      /\ DOMAIN longer = 1 .. l + 1
      /\ \A i \in 1 .. l : longer[i] = origin[i]
      /\ longer[l + 1] = last /\ last.by = p /\ last.nth = n
  BY <1>6, <1>7
<1>9. l \in Nat /\ DOMAIN origin = 1 .. l
  BY <1>6
<1> HIDE DEF last, new
<1>10. \A q, m : Applied(q, m, origin) => Applied(q, m, longer)'
  BY <1>4, <1>9, <1>8 DEF Applied, MayBeLost
<1>11. Sourced(u, longer)'
  <2> SUFFICES ASSUME NEW i \in 1 .. l + 1
               PROVE  /\ IdOf[longer[i].by] = u
                      /\ longer[i].nth \in DOMAIN confirmed[longer[i].by]
                      /\ new[i] = Asked(confirmed[longer[i].by][longer[i].nth])
                      /\ \A m \in 1 .. longer[i].nth - 1 : Applied(longer[i].by, m, longer)'
    BY <1>4, <1>6 DEF Sourced, Asked, new
  <2>1. CASE i \in 1 .. l
    <3>1. longer[i] = origin[i] /\ new[i] = log[i] /\ i \in DOMAIN log
      BY <1>6, <1>8, <2>1
    <3>2. /\ IdOf[origin[i].by] = u
          /\ origin[i].nth \in DOMAIN confirmed[origin[i].by]
          /\ log[i] = Asked(confirmed[origin[i].by][origin[i].nth])
          /\ \A m \in 1 .. origin[i].nth - 1 : Applied(origin[i].by, m, origin)
      BY <1>1, <1>2, <3>1 DEF Sourced
    <3> QED
      BY <1>10, <3>1, <3>2
  <2>2. CASE i = l + 1
    <3>1. longer[i].by = p /\ longer[i].nth = n /\ new[i] = Asked(a[n])
      BY <1>6, <1>8, <2>2
    <3>2. \A m \in 1 .. n - 1 : Applied(p, m, longer)'
      <4>1. n - 1 = Len(a) - Len(b)
        BY <1>4
      <4> QED
        BY <1>5, <1>10, <4>1
    <3> QED
      BY <1>4, <3>1, <3>2
  <2> QED
    BY <1>9, <2>1, <2>2
<1>12. \A i \in 1 .. l : origin[i].by = p =>
        origin[i].nth < n /\ \A j \in 1 .. l : i < j => origin[j].by = p
  <2> SUFFICES ASSUME NEW i \in 1 .. l, origin[i].by = p
               PROVE  origin[i].nth < n /\ \A j \in 1 .. l : i < j => origin[j].by = p
    OBVIOUS
  <2>1. origin[i].nth \in Nat
    <3>1. origin[i] \in Origin
      BY <1>9
    <3> QED
      BY <3>1 DEF Origin
  <2>2. origin[i].nth <= Len(a) - Len(b) /\ \A j \in 1 .. l : i < j => origin[j].by = p
    BY <1>5, <1>9
  <2>3. Len(a) \in Nat /\ Len(b) \in Nat /\ n = Len(a) - Len(b) + 1
    BY <1>4
  <2> QED
    BY ONLY <2>1, <2>2, <2>3
<1>13. SessionBySession(longer)'
  <2> SUFFICES ASSUME NEW i \in 1 .. l + 1, NEW j \in 1 .. l + 1, i < j,
                      longer[i].by = longer[j].by
               PROVE  /\ longer[i].nth < longer[j].nth
                      /\ \A k \in i .. j : longer[k].by = longer[i].by
    BY <1>8 DEF SessionBySession
  <2>1. i \in 1 .. l /\ longer[i] = origin[i]
    BY <1>8, <1>9
  <2>2. CASE j \in 1 .. l
    <3>1. longer[j] = origin[j] /\ \A k \in i .. j : longer[k] = origin[k]
      BY <1>8, <1>9, <2>1, <2>2
    <3> QED
      BY <1>1, <1>9, <2>1, <2>2, <3>1 DEF SessionBySession
  <2>3. CASE j = l + 1
    <3>1. origin[i].by = p /\ longer[j].nth = n
      BY <1>8, <2>1, <2>3
    <3>2. origin[i].nth < n /\ \A k \in 1 .. l : i < k => origin[k].by = p
      BY <1>12, <2>1, <3>1
    <3>3. ASSUME NEW k \in i .. j PROVE longer[k].by = p
      <4>1. CASE k = i
        BY <2>1, <3>1, <4>1
      <4>2. CASE k \in 1 .. l /\ i < k
        BY <1>8, <3>2, <4>2
      <4>3. CASE k = l + 1
        BY <1>8, <4>3
      <4> QED
        BY <1>9, <2>1, <2>3, <4>1, <4>2, <4>3
    <3> QED
      BY <2>1, <3>1, <3>2, <3>3
  <2> QED
    BY <1>9, <2>2, <2>3
<1>14. UpToDate(f, longer)'
  <2>1. \A m \in 1 .. n : Applied(p, m, longer)'
    <3> SUFFICES ASSUME NEW m \in 1 .. n PROVE Applied(p, m, longer)'
      OBVIOUS
    <3>1. m \in 1 .. Len(a) - Len(b) \/ m = n
      <4>1. Len(a) \in Nat /\ Len(b) \in Nat /\ n \in Nat /\ n = Len(a) - Len(b) + 1
        BY <1>4
      <4> QED
        BY ONLY <4>1, m \in 1 .. n, UpToThis
    <3>2. CASE m \in 1 .. Len(a) - Len(b)
      BY <1>5, <1>10, <3>2
    <3>3. CASE m = n
      <4>1. l + 1 \in DOMAIN longer /\ longer[l + 1] = [by |-> p, nth |-> n]
        BY <1>8, <1>9 DEF last
      <4> QED
        BY <3>3, <4>1 DEF Applied
    <3> QED
      BY <3>1, <3>2, <3>3
  <2>2. ASSUME NEW i \in DOMAIN longer, longer[i].by = p
        PROVE  /\ longer[i].nth <= n
               /\ \A j \in DOMAIN longer : i < j => longer[j].by = p
    <3>1. CASE i \in 1 .. l
      <4>1. origin[i].by = p /\ longer[i].nth = origin[i].nth /\ origin[i].nth \in Nat
        BY <1>8, <1>9, <2>2, <3>1 DEF Origin
      <4>2. origin[i].nth < n /\ \A j \in 1 .. l : i < j => origin[j].by = p
        BY <1>12, <3>1, <4>1
      <4>3. ASSUME NEW j \in 1 .. l + 1, i < j PROVE longer[j].by = p
        <5>1. CASE j \in 1 .. l
          BY <1>8, <4>2, <4>3, <5>1
        <5>2. CASE j = l + 1
          BY <1>8, <5>2
        <5> QED
          BY <1>9, <5>1, <5>2
      <4> QED
        BY <1>4, <1>8, <4>1, <4>2, <4>3
    <3>2. CASE i = l + 1
      BY <1>4, <1>8, <1>9, <3>2
    <3> QED
      BY <1>8, <1>9, <3>1, <3>2
  <2> QED
    <3>1. /\ a \in Seq(Request) /\ b \in Seq(IdFrame \cup Request) /\ b # <<>>
          /\ Len(b) <= Len(a) /\ \A k \in DOMAIN b : b[k] = a[Len(a) - Len(b) + k]
          /\ confirmed'[p] = a /\ toServer'[p] = Tail(b) /\ n = Len(a) - Len(b) + 1
      BY <1>4, <1>5
    <3>2. \A i \in DOMAIN longer : longer[i].by = p =>
            /\ longer[i].nth <= n
            /\ \A j \in DOMAIN longer : i < j => longer[j].by = p
      BY <2>2
    <3> QED
      <4>1. /\ Len(Tail(b)) <= Len(a) /\ Len(a) - Len(Tail(b)) = n
            /\ \A k \in DOMAIN Tail(b) : Tail(b)[k] = a[n + k]
        BY ONLY <3>1, EndsShorter
      <4>2. /\ Len(toServer'[p]) <= Len(confirmed'[p])
            /\ Len(confirmed'[p]) - Len(toServer'[p]) = n
            /\ \A k \in DOMAIN toServer'[p] : toServer'[p][k] = confirmed'[p][n + k]
        BY <3>1, <4>1
      <4> QED
        BY <2>1, <3>2, <4>2 DEF UpToDate
<1>15. \A i \in DOMAIN longer :
         longer[i].by = p \/ \E j \in DOMAIN origin : longer[i].by = origin[j].by
  <2> SUFFICES ASSUME NEW i \in 1 .. l + 1
               PROVE  longer[i].by = p \/ \E j \in 1 .. l : longer[i].by = origin[j].by
    BY <1>8, <1>9
  <2>1. CASE i \in 1 .. l
    BY <1>8, <2>1
  <2>2. CASE i = l + 1
    BY <1>8, <2>2
  <2> QED
    BY <1>9, <2>1, <2>2
<1>16. Continues(longer, origin, f, p, u)
  BY <1>11, <1>13, <1>14, <1>15 DEF Continues
<1> QED
  BY <1>8, <1>16 DEF new

\* The service of a command keeps the account of every log.
LEMMA ScanNotes ==
  ASSUME IInv, CommandInv, ScanCommand, UNCHANGED subscriber
  PROVE  CommandInv'
<1>1. PICK f \in Fd, p \in Proc, u \in UserId, n \in 1 .. MaxCommands : Serves(f, p, u, n)
  BY NextCommand
<1>2. /\ UNCHANGED <<pc, conn, connfd, backlog, fdsToUsers, confirmed, client>>
      /\ ~Ended /\ ~Ended' /\ connfd \notin Fd /\ ~Queued(p) /\ ~Waiting(p)
      /\ conn[f] = p /\ conn'[f] = p /\ fdsToUsers[f] = u
      /\ \A g \in Fd : conn[g] = p => g = f
      /\ \A g \in Fd : fdsToUsers[g] = u => g = f
      /\ \A q \in Proc \ {p} : toServer'[q] = toServer[q]
      /\ \A v \in UserId \ {u} : LogOf(v)' = LogOf(v)
  BY <1>1 DEF ScanCommand, Serves, Ended, subscriber, Waiting
<1>3. \A q \in Proc : Confirms(q)
  BY <1>2 DEF Confirms
<1>4. \A q \in Proc : Waiting(q)' => Waiting(q) /\ q # p
  BY <1>2 DEF Waiting, Queued
<1>5. ASSUME NEW v \in UserId
      PROVE  \E origin \in [DOMAIN LogOf(v)' -> Origin] : Account(v, origin)'
  <2>1. PICK origin \in [DOMAIN LogOf(v) -> Origin] : Account(v, origin)
    BY DEF CommandInv, LogBySessions
  <2>2. CASE v # u
    <3>1. \A g \in Fd : fdsToUsers'[g] = v =>
             fdsToUsers[g] = v /\ conn'[g] = conn[g] /\ Carried(conn[g])
      <4> SUFFICES ASSUME NEW g \in Fd, fdsToUsers'[g] = v
                   PROVE  fdsToUsers[g] = v /\ conn'[g] = conn[g] /\ Carried(conn[g])
        OBVIOUS
      <4>1. g # f /\ fdsToUsers[g] = v /\ conn'[g] = conn[g]
        BY <1>2, <2>2
      <4>2. conn[g] \in Proc \ {p}
        <5>1. fdsToUsers[g] # NoUser
          BY <4>1, IdAssumption
        <5>2. conn[g] # NoProc
          BY <1>2, <5>1 DEF IInv, SessionInv, TableExact
        <5>3. conn[g] \in Proc
          BY <5>2, CommandTypes DEF IInv
        <5> QED
          BY <1>2, <4>1, <5>3
      <4> QED
        BY <1>2, <4>1, <4>2 DEF Carried
    <3>2. LogOf(v)' = LogOf(v)
      BY <1>2, <2>2
    <3>3. Account(v, origin)'
      BY <1>2, <1>3, <1>4, <2>1, <3>1, <3>2, AccountStays
    <3> QED
      BY <3>2, <3>3
  <2>3. ASSUME v = u, NEW longer \in [DOMAIN LogOf(u)' -> Origin],
               Sourced(u, longer)', SessionBySession(longer)', UpToDate(f, longer)',
               \A i \in DOMAIN longer :
                  longer[i].by = p \/ \E j \in DOMAIN origin : longer[i].by = origin[j].by
        PROVE  Account(v, longer)'
    <3>1. \A g \in Fd : fdsToUsers'[g] = u => UpToDate(g, longer)'
      <4>1. \A g \in Fd : fdsToUsers'[g] = u => g = f
        BY <1>2
      <4> QED
        BY <2>3, <4>1
    <3>2. ASSUME NEW i \in DOMAIN longer
          PROVE  ~Waiting(longer[i].by)'
      <4>1. longer[i].by \in Proc
        BY DEF Origin
      <4>2. CASE longer[i].by = p
        BY <1>4, <4>1, <4>2
      <4>3. CASE \E j \in DOMAIN origin : longer[i].by = origin[j].by
        <5>1. \A j \in DOMAIN origin : ~Waiting(origin[j].by)
          BY <1>2, <2>1 DEF Account
        <5>2. ~Waiting(longer[i].by)
          BY <4>3, <5>1
        <5> QED
          BY <1>4, <4>1, <5>2
      <4> QED
        BY <2>3, <4>2, <4>3
    <3> QED
      BY <2>3, <3>1, <3>2 DEF Account
  <2>4. CASE v = u /\ MayBeLost(confirmed[p][n]) /\ LogOf(u)' = LogOf(u)
    <3>1. origin \in [DOMAIN LogOf(u) -> Origin] /\ Account(u, origin)
      BY <2>1, <2>4
    <3>2. Sourced(u, origin)' /\ SessionBySession(origin)' /\ UpToDate(f, origin)'
      BY <1>1, <1>2, <2>4, <3>1, LostKeepsAccount
    <3>3. Account(v, origin)'
      BY <2>3, <2>4, <3>1, <3>2
    <3> QED
      BY <2>1, <2>4, <3>3
  <2>5. CASE v = u /\ LogOf(u)' = Append(LogOf(u), Asked(confirmed[p][n]))
    <3>1. origin \in [DOMAIN LogOf(u) -> Origin] /\ Account(u, origin)
      BY <2>1, <2>5
    <3>2. PICK longer \in [DOMAIN LogOf(u)' -> Origin] : Continues(longer, origin, f, p, u)
      BY <1>1, <1>2, <2>5, <3>1, NotedKeepsAccount
    <3>3. Account(v, longer)'
      BY <2>3, <2>5, <3>2 DEF Continues
    <3> QED
      BY <2>5, <3>3
  <2> QED
    BY <1>1, <2>2, <2>4, <2>5 DEF Serves
<1>6. ASSUME NEW q \in Proc, Waiting(q)'
      PROVE  WaitsWhole(q)'
  <2>1. Waiting(q) /\ q # p
    BY <1>4, <1>6
  <2>2. WaitsWhole(q)
    BY <1>2, <2>1 DEF CommandInv
  <2> QED
    BY <1>2, <2>1, <2>2 DEF WaitsWhole
<1>7. LogBySessions'
  BY <1>5 DEF LogBySessions
<1> QED
  BY <1>2, <1>6, <1>7 DEF CommandInv

\* At the beginning nothing is confirmed and nobody waits.
LEMMA CommandsBegin == Init => CommandInv
<1> SUFFICES ASSUME Init PROVE CommandInv
  OBVIOUS
<1>1. /\ confirmed = [p \in Proc |-> <<>>]
      /\ backlog = <<>> /\ connfd = NoFd
      /\ fdsToUsers = [f \in Fd |-> NoUser]
      /\ userSubscriptions =
           [u \in UserId |-> [active |-> FALSE, fd |-> NoFd, subscriptions |-> <<>>]]
  BY DEF Init, NetworkInit, ServerInit, SubscriberInit
<1>2. \A p \in Proc : confirmed[p] = <<>> /\ Len(confirmed[p]) <= MaxCommands
  <2>1. Len(<<>>) = 0 /\ 0 <= MaxCommands
    BY MaxCommandsAssumption
  <2> QED
    BY <1>1, <2>1
<1>3. \A p \in Proc : ~Waiting(p)
  <2>1. DOMAIN backlog = {} /\ connfd \notin Fd
    BY <1>1, FdAssumption
  <2> QED
    BY <2>1 DEF Waiting, Queued
<1>4. ASSUME NEW u \in UserId
      PROVE  \E origin \in [DOMAIN LogOf(u) -> Origin] : Account(u, origin)
  <2>1. LogOf(u) = <<>> /\ DOMAIN LogOf(u) = {}
    BY <1>1 DEF LogOf
  <2>2. PICK origin : origin = [i \in {} |-> NoFd]
    OBVIOUS
  <2>3. DOMAIN origin = {} /\ origin \in [DOMAIN LogOf(u) -> Origin]
    BY <2>1, <2>2
  <2>4. Sourced(u, origin) /\ SessionBySession(origin)
    BY <2>1, <2>3 DEF Sourced, SessionBySession
  <2>5. \A f \in Fd : fdsToUsers[f] # u
    BY <1>1, IdAssumption
  <2>6. Account(u, origin)
    BY <2>3, <2>4, <2>5 DEF Account
  <2> QED
    BY <2>3, <2>6
<1> QED
  BY <1>2, <1>3, <1>4 DEF CommandInv, LogBySessions

\* Every step keeps the command invariant.
LEMMA CommandsKeep ==
  ASSUME IInv, [Next]_vars, CommandInv
  PROVE  CommandInv'
<1>1. CASE LoginNew /\ UNCHANGED subscriber
  <2>1. PICK u \in UserId : IdReceived(u) /\ u \notin userIdSet /\ Enter(u, <<>>)
    BY <1>1 DEF LoginNew
  <2>2. <<>> = LogOf(u) /\ ~userSubscriptions[u].active
    BY <2>1 DEF IInv, SessionInv, UsersKnown, IdReceived, Ended, LogOf
  <2> QED
    BY <1>1, <2>1, <2>2, EnterNotes
<1>2. CASE LoginBack /\ UNCHANGED subscriber
  <2>1. PICK u \in UserId :
          /\ IdReceived(u) /\ ~userSubscriptions[u].active
          /\ Enter(u, userSubscriptions[u].subscriptions)
    BY <1>2 DEF LoginBack
  <2>2. Enter(u, LogOf(u))
    BY <2>1 DEF LogOf
  <2> QED
    BY <1>2, <2>1, <2>2, EnterNotes
<1>3. CASE UNCHANGED vars
  <2>1. SameLogs /\ Quiet
    BY <1>3 DEF SameLogs, Quiet, LogOf, Carried, Waiting, Queued, Ended, vars, network,
       server, tables, subscriber
  <2>2. /\ \A p \in Proc : Confirms(p)
        /\ \A p \in Proc : client'[p] \in {"idle", "connected"} =>
                             client[p] \in {"idle", "connected"}
    BY <1>3, ServerConfirms DEF vars
  <2> QED
    BY <2>1, <2>2, QuietKeeps
<1> QED
  BY <1>1, <1>2, <1>3, ScanNotes, ServerQuiet, ProcessQuiet DEF Next

\* What is confirmed on each connection, and how much of it is in the logs.
THEOREM CommandsAccounted == Spec => []CommandInv
<1>1. IInv /\ CommandInv /\ [Next]_vars => CommandInv'
  BY CommandsKeep
<1> QED
  BY <1>1, CommandsBegin, SessionsAgree, PTL DEF Spec

\* Every log is what the user's processes confirmed, each command once, in
\* order, session by session, and nothing of a session in progress is missing.
THEOREM LogsBySessions == Spec => []LogBySessions
<1>1. CommandInv => LogBySessions
  BY DEF CommandInv
<1> QED
  BY <1>1, CommandsAccounted, PTL
==============================================================================
