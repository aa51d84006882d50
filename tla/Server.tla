------------------------------- MODULE Server --------------------------------
(***************************************************************************)
(* The server process: the poll loop of main in server.cpp, one action for *)
(* each stretch of it between two points where another process or a signal *)
(* can make a difference.                                                  *)
(***************************************************************************)
EXTENDS Sockets, Subscriptions

CONSTANTS
  UserId,        \* ids the server accepts
  BadId,         \* an empty id, or one with a space
  Topic,         \* topics of the datagrams
  Malformed,     \* a datagram for which manageUdp returns ""
  Fd,            \* descriptors the process may still open
  NoProc, NoUser, NoFd,
  FirstWord,     \* what "iss >> topic" makes of a topic: white space ends it
  MaxArrivals,   \* bound: datagrams that arrive
  Faults         \* the system and library calls that may fail

ASSUME IdAssumption == BadId \notin UserId /\ NoUser \notin UserId \cup {BadId}
ASSUME DatagramAssumption == Topic \subseteq String /\ Malformed \notin Topic
ASSUME FdAssumption == Fd \subseteq Nat /\ NoFd \notin Fd
ASSUME NoProcAssumption == NoProc \notin Proc
ASSUME MaxArrivalsAssumption == MaxArrivals \in Nat
ASSUME FaultsAssumption == Faults \subseteq {"setsockopt", "realloc", "strdup"}

VARIABLES
  pc,                 \* where the main loop is, or how the process ended
  pollfds,            \* the poll table from index 3 on: the subscribers
  maxSize,            \* allocated length of the whole table
  idx,                \* loop counter of the scan and of freeMemory
  connfd,             \* the descriptor that is being logged in
  conn,               \* the connection behind each descriptor
  userIdSet, userSubscriptions, fdsToUsers,
  arrived,            \* every datagram that reached the UDP socket
  taken,              \* how many of them recvfrom returned
  todo,               \* users the current notification still has to go to
  exitTyped           \* "exit" waits on standard input

tables == <<userIdSet, userSubscriptions, fdsToUsers>>
udp == <<arrived, taken>>
server == <<pc, pollfds, maxSize, idx, connfd, conn, tables, udp, todo, exitTyped>>

\* The first frame of a subscriber.
IdFrame == [id : UserId \cup {BadId}]

PollFd == [fd : Fd, pollin : BOOLEAN]
User == [active : BOOLEAN, fd : Fd \cup {NoFd}, subscriptions : Seq(Subscription)]

Ended == pc \in {"exited", "crashed"}

\* pollStruct.nfds: standard input, listening and UDP socket come first.
nfds == Len(pollfds) + 3

ServerTypeOK ==
  /\ pc \in {"poll", "stdin", "accept", "register", "login", "udp", "fanout",
             "scan", "free", "exited", "crashed"}
  /\ pollfds \in Seq(PollFd)
  /\ maxSize \in Nat
  /\ idx \in Nat \ {0}
  /\ connfd \in Fd \cup {NoFd}
  /\ conn \in [Fd -> Proc \cup {NoProc}]
  /\ userIdSet \subseteq UserId
  /\ userSubscriptions \in [UserId -> User]
  /\ fdsToUsers \in [Fd -> UserId \cup {NoUser}]
  /\ arrived \in Seq(Topic \cup {Malformed})
  /\ taken \in Nat
  /\ todo \subseteq UserId
  /\ exitTyped \in BOOLEAN

ServerInit ==
  /\ pc = "poll"
  /\ pollfds = <<>>
  /\ maxSize = 4
  /\ idx = 1
  /\ connfd = NoFd
  /\ conn = [f \in Fd |-> NoProc]
  /\ userIdSet = {}
  /\ userSubscriptions =
       [u \in UserId |-> [active |-> FALSE, fd |-> NoFd, subscriptions |-> <<>>]]
  /\ fdsToUsers = [f \in Fd |-> NoUser]
  /\ arrived = <<>>
  /\ taken = 0
  /\ todo = {}
  /\ exitTyped = FALSE

-----------------------------------------------------------------------------
\* sendTcp on a descriptor.
SendTo(f, m) ==
  /\ srvSock[conn[f]] # "epipe"
  /\ toClient' = Delivered(toClient, srvSock, conn[f], m)
  /\ srvSock' = [srvSock EXCEPT ![conn[f]] = AfterSend(@)]
  /\ UNCHANGED <<backlog, cliSock, toServer>>

\* The process ends and the kernel closes what it had open.  Connections
\* that were never accepted are reset.
End(how) ==
  /\ pc' = how
  /\ srvSock' = [p \in Proc |-> IF srvSock[p] = "none" THEN "none" ELSE "closed"]
  /\ \E reset \in [Proc -> {"rst", "sent"}] :
        cliSock' = [p \in Proc |->
          IF cliSock[p] # "open" THEN cliSock[p]
          ELSE IF \E i \in DOMAIN backlog : backlog[i] = p THEN "rst"
          ELSE IF toServer[p] # <<>> THEN reset[p]
          ELSE "fin"]
  /\ backlog' = <<>>
  /\ toServer' = [p \in Proc |-> <<>>]
  /\ UNCHANGED <<toClient, pollfds, maxSize, idx, connfd, conn, tables, udp,
                 todo, exitTyped>>

\* sendTcp to a connection whose reset was already reported: nothing in the
\* program catches SIGPIPE.
Sigpipe ==
  /\ \/ pc = "fanout" /\ \E u \in todo :
           srvSock[conn[userSubscriptions[u].fd]] = "epipe"
     \/ pc = "free" /\ idx <= Len(pollfds)
           /\ srvSock[conn[pollfds[idx].fd]] = "epipe"
  /\ End("crashed")

-----------------------------------------------------------------------------
\* What poll finds at a subscriber's descriptor: a frame, or that the peer's
\* end is gone.
FdReadable_NoHangup(f) == toServer[conn[f]] # <<>>
FdReadable(f) == toServer[conn[f]] # <<>> \/ srvSock[conn[f]] # "open"

\* poll returns when something is readable, and the if chain picks the one
\* branch that this round serves.
Poll ==
  /\ pc = "poll"
  /\ pollfds' = [i \in DOMAIN pollfds |->
                   [pollfds[i] EXCEPT !.pollin = FdReadable(pollfds[i].fd)]]
  /\ \/ exitTyped /\ pc' = "stdin"
     \/ ~exitTyped /\ backlog # <<>> /\ pc' = "accept"
     \/ /\ ~exitTyped /\ backlog = <<>>
        /\ taken < Len(arrived) /\ pc' = "udp"
     \/ /\ ~exitTyped /\ backlog = <<>> /\ taken = Len(arrived)
        /\ \E i \in DOMAIN pollfds : FdReadable(pollfds[i].fd)
        /\ pc' = "scan"
  /\ idx' = 1
  /\ UNCHANGED <<network, maxSize, connfd, conn, tables, udp, todo, exitTyped>>

\* "exit" on standard input.  (Mutant: freeMemory starts one entry late.)
Stdin_SkipsFirst ==
  /\ pc = "stdin"
  /\ exitTyped' = FALSE
  /\ pc' = "free"
  /\ idx' = 2
  /\ UNCHANGED <<network, pollfds, maxSize, connfd, conn, tables, udp, todo>>

Stdin ==
  /\ pc = "stdin"
  /\ exitTyped' = FALSE
  /\ pc' = "free"
  /\ idx' = 1
  /\ UNCHANGED <<network, pollfds, maxSize, connfd, conn, tables, udp, todo>>

\* accept fails because no descriptor is left; the connection stays queued.
AcceptFails ==
  /\ pc = "accept"
  /\ \A f \in Fd : conn[f] # NoProc
  /\ pc' = "poll"
  /\ UNCHANGED <<network, pollfds, maxSize, idx, connfd, conn, tables, udp, todo,
                 exitTyped>>

\* accept takes the oldest connection and the lowest free descriptor.
Accept ==
  /\ pc = "accept"
  /\ \E f \in Fd :
       /\ conn[f] = NoProc
       /\ \A g \in Fd : conn[g] = NoProc => f <= g
       /\ connfd' = f
       /\ conn' = [conn EXCEPT ![f] = Head(backlog)]
  /\ backlog' = Tail(backlog)
  /\ pc' = "register"
  /\ UNCHANGED <<srvSock, cliSock, toServer, toClient, pollfds, maxSize, idx,
                 tables, udp, todo, exitTyped>>

-----------------------------------------------------------------------------
\* close(connfd), seen from both ends, when the server has read the first n
\* of the frames that are there.
Close(p, n) ==
  /\ srvSock' = [srvSock EXCEPT ![p] = "closed"]
  /\ \E s \in PeerAfterClose(cliSock[p], Len(toServer[p]) > n) :
        cliSock' = [cliSock EXCEPT ![p] = s]
  /\ toServer' = [toServer EXCEPT ![p] = <<>>]
  /\ UNCHANGED backlog

\* The connection that is being set up is given up, n of its frames read.
Drop(n) ==
  /\ Close(conn[connfd], n)
  /\ conn' = [conn EXCEPT ![connfd] = NoProc]
  /\ connfd' = NoFd
  /\ pc' = "poll"
  /\ UNCHANGED <<maxSize, idx, tables, udp, todo, exitTyped>>

\* ... after telling the subscriber to shut down.
Refuse(n) ==
  /\ toClient' = Delivered(toClient, srvSock, conn[connfd], Shutdown)
  /\ Drop(n)

\* TCP_NODELAY cannot be set.
SetsockoptFails ==
  /\ pc = "register"
  /\ "setsockopt" \in Faults
  /\ Drop(0)
  /\ UNCHANGED <<toClient, pollfds>>

\* addFd has to grow the table and realloc fails.
AddFdFails ==
  /\ pc = "register"
  /\ "realloc" \in Faults
  /\ nfds = maxSize
  /\ Refuse(0)
  /\ UNCHANGED pollfds

\* addFd.  The new entry's revents are not written.
AddFd ==
  /\ pc = "register"
  /\ \E garbage \in BOOLEAN :
        pollfds' = Append(pollfds, [fd |-> connfd, pollin |-> garbage])
  /\ maxSize' = IF nfds = maxSize THEN maxSize * 2 ELSE maxSize
  /\ pc' = "login"
  /\ UNCHANGED <<network, idx, connfd, conn, tables, udp, todo, exitTyped>>

-----------------------------------------------------------------------------
\* applicationProtocol(connfd) returned a usable id; until something arrives
\* the whole server waits here.
IdReceived(u) ==
  /\ pc = "login"
  /\ toServer[conn[connfd]] # <<>>
  /\ Head(toServer[conn[connfd]]) = [id |-> u]

\* The frame that was read is gone.
Taken(p) == [toServer EXCEPT ![p] = Tail(@)]

\* The session of u on connfd begins with the given subscriptions.
Enter(u, subscriptions) ==
  /\ userIdSet' = userIdSet \cup {u}
  /\ userSubscriptions' = [userSubscriptions EXCEPT ![u] =
       [active |-> TRUE, fd |-> connfd, subscriptions |-> subscriptions]]
  /\ fdsToUsers' = [fdsToUsers EXCEPT ![connfd] = u]
  /\ toServer' = Taken(conn[connfd])
  /\ connfd' = NoFd
  /\ pc' = "poll"
  /\ UNCHANGED <<backlog, srvSock, cliSock, toClient, pollfds, maxSize, idx, conn,
                 udp, todo, exitTyped>>

\* The id is new.
LoginNew ==
  \E u \in UserId : IdReceived(u) /\ u \notin userIdSet /\ Enter(u, <<>>)

\* The user was here before and is not now.  (Mutants: the user may be here;
\* the subscriptions are begun anew.)
LoginBack_Always ==
  \E u \in UserId :
     IdReceived(u) /\ u \in userIdSet /\ Enter(u, userSubscriptions[u].subscriptions)

LoginBack_Forgets ==
  \E u \in UserId :
     IdReceived(u) /\ u \in userIdSet /\ ~userSubscriptions[u].active /\ Enter(u, <<>>)

LoginBack ==
  \E u \in UserId :
     /\ IdReceived(u) /\ u \in userIdSet /\ ~userSubscriptions[u].active
     /\ Enter(u, userSubscriptions[u].subscriptions)

\* removeLast forgets the last entry of the table.  (Mutant: it only closes.)
RemoveLast_KeepsEntry == pollfds' = pollfds
RemoveLast == pollfds' = SubSeq(pollfds, 1, Len(pollfds) - 1)

\* The user is here, from wherever.
LoginRefused ==
  /\ \E u \in UserId :
        IdReceived(u) /\ u \in userIdSet /\ userSubscriptions[u].active
  /\ Refuse(1)
  /\ RemoveLast

\* No id, or one that cannot be used: the connection is already gone, or the
\* first frame is empty or has a space in it.  (Mutants: the end of the
\* connection is not seen; the subscriber is told, and may try again.)
LoginInvalid_WaitsOn ==
  /\ pc = "login"
  /\ toServer[conn[connfd]] # <<>>
  /\ Head(toServer[conn[connfd]]) \notin [id : UserId]
  /\ Refuse(1)
  /\ RemoveLast

LoginInvalid_AsksAgain ==
  /\ pc = "login"
  /\ toServer[conn[connfd]] = <<>> /\ srvSock[conn[connfd]] # "open"
  /\ SendTo(connfd, Shutdown)
  /\ UNCHANGED server

LoginInvalid ==
  /\ pc = "login"
  /\ \/ toServer[conn[connfd]] = <<>> /\ srvSock[conn[connfd]] # "open"
     \/ /\ toServer[conn[connfd]] # <<>>
        /\ Head(toServer[conn[connfd]]) \notin [id : UserId]
  /\ Refuse(1)
  /\ RemoveLast

-----------------------------------------------------------------------------
\* recvfrom, manageUdp, and the users getMatch selects.
Udp ==
  /\ pc = "udp"
  /\ taken' = taken + 1
  /\ todo' = IF arrived[taken + 1] = Malformed THEN {}
             ELSE {u \in userIdSet :
                     GetMatch(userSubscriptions[u], arrived[taken + 1])}
  /\ pc' = IF todo' = {} THEN "poll" ELSE "fanout"
  /\ UNCHANGED <<network, pollfds, maxSize, idx, connfd, conn, tables, arrived,
                 exitTyped>>

\* The notification goes to one more user; the order is the hash table's.
\* (Mutants: the user is not left behind; the loop ends at the first match.)
Fanout_Stays ==
  /\ pc = "fanout"
  /\ \E u \in todo : SendTo(userSubscriptions[u].fd, taken)
  /\ \E left \in SUBSET todo : todo' = left
  /\ pc' = IF todo' = {} THEN "poll" ELSE "fanout"
  /\ UNCHANGED <<pollfds, maxSize, idx, connfd, conn, tables, udp, exitTyped>>

Fanout_FirstOnly ==
  /\ pc = "fanout"
  /\ \E u \in todo : SendTo(userSubscriptions[u].fd, taken)
  /\ todo' = {}
  /\ pc' = "poll"
  /\ UNCHANGED <<pollfds, maxSize, idx, connfd, conn, tables, udp, exitTyped>>

Fanout ==
  /\ pc = "fanout"
  /\ \E u \in todo :
       /\ SendTo(userSubscriptions[u].fd, taken)
       /\ todo' = todo \ {u}
  /\ pc' = IF todo' = {} THEN "poll" ELSE "fanout"
  /\ UNCHANGED <<pollfds, maxSize, idx, connfd, conn, tables, udp, exitTyped>>

-----------------------------------------------------------------------------
\* The loop over the subscribers has come to entry i: the entries between
\* idx and i had nothing to read when poll returned.
Scanning(i) ==
  /\ pc = "scan"
  /\ i \in DOMAIN pollfds /\ i >= idx
  /\ pollfds[i].pollin
  /\ \A j \in idx .. i-1 : ~pollfds[j].pollin
  /\ idx' = i + 1

\* A frame from entry i.  Only the two commands do anything, with what of the
\* topic stands before white space, and strdup may fail before either does.
ScanCommand ==
  /\ \E i \in DOMAIN pollfds :
       LET f == pollfds[i].fd
           p == conn[f]
           u == fdsToUsers[f]
           frame == Head(toServer[p])
       IN /\ Scanning(i)
          /\ toServer[p] # <<>>
          /\ toServer' = Taken(p)
          /\ \/ "strdup" \in Faults /\ UNCHANGED userSubscriptions
             \/ userSubscriptions' = [userSubscriptions EXCEPT ![u].subscriptions =
                  AddSubscription(@, FirstWord[frame.topic], frame.command = "subscribe")]
  /\ UNCHANGED <<backlog, srvSock, cliSock, toClient, pc, pollfds, maxSize, connfd,
                 conn, userIdSet, fdsToUsers, udp, todo, exitTyped>>

\* The user behind f is logged out.  (Mutant: fdsToUsers is not told.)
LogOut_KeepsFd(f) ==
  /\ fdsToUsers' = fdsToUsers
  /\ userSubscriptions' =
       [userSubscriptions EXCEPT ![fdsToUsers[f]].active = FALSE]

LogOut(f) ==
  /\ fdsToUsers' = [fdsToUsers EXCEPT ![f] = NoUser]
  /\ userSubscriptions' =
       [userSubscriptions EXCEPT ![fdsToUsers[f]].active = FALSE]

\* Nothing more will come from entry i: its user is logged out, the
\* descriptor closed, and the entries behind it move up by one, the next of
\* them to where the loop has just been.
ScanDisconnect ==
  /\ \E i \in DOMAIN pollfds :
       LET f == pollfds[i].fd
           p == conn[f]
       IN /\ Scanning(i)
          /\ toServer[p] = <<>> /\ srvSock[p] # "open"
          /\ LogOut(f)
          /\ pollfds' = [j \in 1 .. Len(pollfds) - 1 |->
                           IF j < i THEN pollfds[j] ELSE pollfds[j + 1]]
          /\ Close(p, 0)
          /\ conn' = [conn EXCEPT ![f] = NoProc]
  /\ UNCHANGED <<toClient, pc, maxSize, connfd, userIdSet, udp, todo, exitTyped>>

ScanDone ==
  /\ pc = "scan"
  /\ \A j \in DOMAIN pollfds : j >= idx => ~pollfds[j].pollin
  /\ pc' = "poll"
  /\ UNCHANGED <<network, pollfds, maxSize, idx, connfd, conn, tables, udp, todo,
                 exitTyped>>

-----------------------------------------------------------------------------
\* freeMemory tells one more subscriber to shut down ...
FreeStep ==
  /\ pc = "free"
  /\ idx <= Len(pollfds)
  /\ SendTo(pollfds[idx].fd, Shutdown)
  /\ idx' = idx + 1
  /\ UNCHANGED <<pc, pollfds, maxSize, connfd, conn, tables, udp, todo, exitTyped>>

\* ... and when all are told, the process closes everything and is gone.
FreeDone ==
  /\ pc = "free"
  /\ idx > Len(pollfds)
  /\ End("exited")

\* SIGINT, SIGTERM or SIGQUIT: freeMemory runs in the handler, wherever the
\* loop is, and the process exits.
Signal ==
  /\ ~Ended /\ pc # "free"
  /\ pc' = "free"
  /\ idx' = 1
  /\ UNCHANGED <<network, pollfds, maxSize, connfd, conn, tables, udp, todo,
                 exitTyped>>

-----------------------------------------------------------------------------
\* A publisher's datagram reaches the socket; what the network loses,
\* repeats or reorders on the way is the choice of d.
Arrive ==
  /\ ~Ended
  /\ Len(arrived) < MaxArrivals
  /\ \E d \in Topic \cup {Malformed} : arrived' = Append(arrived, d)
  /\ UNCHANGED <<network, pc, pollfds, maxSize, idx, connfd, conn, tables, taken,
                 todo, exitTyped>>

\* The operator types "exit".
TypeExit ==
  /\ ~Ended /\ pc # "free" /\ ~exitTyped
  /\ exitTyped' = TRUE
  /\ UNCHANGED <<network, pc, pollfds, maxSize, idx, connfd, conn, tables, udp,
                 todo>>

\* The steps the server takes by itself.
ServerStep ==
  \/ Poll \/ Stdin
  \/ AcceptFails \/ Accept \/ SetsockoptFails \/ AddFdFails \/ AddFd
  \/ LoginNew \/ LoginBack \/ LoginRefused \/ LoginInvalid
  \/ Udp \/ Fanout
  \/ ScanCommand \/ ScanDisconnect \/ ScanDone
  \/ FreeStep \/ FreeDone \/ Sigpipe

\* The steps that happen to it.
ServerEnvironment == Signal \/ Arrive \/ TypeExit
==============================================================================
