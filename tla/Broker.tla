------------------------------- MODULE Broker --------------------------------
(***************************************************************************)
(* The whole system: one server, the subscriber processes, the publishers  *)
(* and the operator, joined by the sockets.                                *)
(***************************************************************************)
EXTENDS Server, Subscriber

ASSUME IdOfAssumption == IdOf \in [Proc -> UserId \cup {BadId}]
ASSUME FirstWordAssumption == FirstWord \in [Pattern -> String]

vars == <<network, server, subscriber>>

Init == NetworkInit /\ ServerInit /\ SubscriberInit

\* The steps a subscriber process takes by itself.
SubscriberStep(p) ==
  /\ SendId(p) \/ Receive(p) \/ ReceiveReset(p)
  /\ UNCHANGED server

\* What users do: start a process, type, end it.
UserStep(p) ==
  /\ Connect(p, ~Ended) \/ TypeCommand(p) \/ TypeCommandSigpipe(p) \/ Quit(p)
  /\ UNCHANGED server

Reset(p) ==
  /\ ResetServerEnd(p) \/ ResetClientEnd(p)
  /\ UNCHANGED <<server, subscriber>>

Next ==
  \/ (ServerStep \/ ServerEnvironment) /\ UNCHANGED subscriber
  \/ \E p \in Proc : SubscriberStep(p) \/ UserStep(p) \/ Reset(p)

Spec == Init /\ [][Next]_vars

\* Processes that are started go on running, and resets arrive.  Nobody has
\* to type, to connect, to publish or to send a signal.
Fairness ==
  /\ WF_vars(ServerStep /\ UNCHANGED subscriber)
  /\ \A p \in Proc : WF_vars(SubscriberStep(p)) /\ WF_vars(Reset(p))

FairSpec == Spec /\ Fairness

-----------------------------------------------------------------------------
TypeOK ==
  /\ NetworkTypeOK /\ ServerTypeOK /\ SubscriberTypeOK
  /\ toServer \in [Proc -> Seq(IdFrame \cup Request)]
  /\ toClient \in [Proc -> Seq(Nat)]

\* The connection of p is in the listening queue.
Queued(p) == \E i \in DOMAIN backlog : backlog[i] = p

-----------------------------------------------------------------------------
(***************************************************************************)
(* Sessions: the descriptor tables, the users and the connections agree.   *)
(***************************************************************************)

\* The descriptors in the poll table.
Polled == {pollfds[i].fd : i \in DOMAIN pollfds}

\* No descriptor is polled twice, none but the one being logged in is open
\* without a user, and no two descriptors are the same connection: what
\* remove, removeLast and the reuse of descriptors must keep up.
TableExact ==
  ~Ended =>
    /\ \A i, j \in DOMAIN pollfds : pollfds[i].fd = pollfds[j].fd => i = j
    /\ \A f \in Fd : conn[f] # NoProc <=> fdsToUsers[f] # NoUser \/ f = connfd
    /\ \A f \in Fd : fdsToUsers[f] # NoUser => f \in Polled
    /\ \A f, g \in Fd : conn[f] = conn[g] /\ conn[f] # NoProc => f = g

\* The "strong fd <-> user relationship": a user is logged in exactly while
\* the descriptor kept for the user is that user's in fdsToUsers, and the
\* connection behind it belongs to a process started with that id.  Nobody is
\* ever sent what is meant for the previous owner of a descriptor.
FdUserBijection ==
  ~Ended =>
    /\ \A u \in UserId : userSubscriptions[u].active =>
          /\ userSubscriptions[u].fd \in Fd
          /\ fdsToUsers[userSubscriptions[u].fd] = u
    /\ \A f \in Fd : fdsToUsers[f] # NoUser =>
          /\ userSubscriptions[fdsToUsers[f]].active
          /\ userSubscriptions[fdsToUsers[f]].fd = f
          /\ IdOf[conn[f]] = fdsToUsers[f]

\* The table is never written past the allocation.
TableFits == ~Ended => nfds <= maxSize

\* Telling a subscriber that its login failed cannot kill the server: no
\* reset has been reported on a connection nothing was ever sent on.
RefusalIsSafe ==
  pc \in {"register", "login"} => srvSock[conn[connfd]] \in {"open", "fin", "rst"}

\* A connection's first frame is its id, it is read at login, and what the
\* scan reads are commands: no frame is taken for one of the other kind.
FramesInPlace ==
  ~Ended => \A f \in Fd : fdsToUsers[f] # NoUser =>
    \A k \in DOMAIN toServer[conn[f]] : toServer[conn[f]][k] \in Request

-----------------------------------------------------------------------------
(***************************************************************************)
(* Delivery.                                                               *)
(***************************************************************************)

\* What process p has been sent and has not lost.
Received(p) == printed[p] \o toClient[p]

\* Notifications arrive in the order of the datagrams and none twice,
\* whatever joins, leaves and reconnects; "shutdown" comes last.
InOrder ==
  \A p \in Proc : \A j, k \in DOMAIN Received(p) :
     j < k => \/ Received(p)[j] # Shutdown /\ Received(p)[j] < Received(p)[k]
              \/ Received(p)[k] = Shutdown

\* A process prints only topics its user subscribed to at some time, although
\* descriptors change hands and the user's log may be another session's work.
OnlySubscribed ==
  \A p \in Proc : \A k \in DOMAIN printed[p] :
     /\ IdOf[p] \in UserId
     /\ LET log == userSubscriptions[IdOf[p]].subscriptions
        IN \E i \in DOMAIN log :
             log[i].subscribed /\ Match(log[i].expression, arrived[printed[p][k]])

\* When the loop over the users ends, everyone logged in and interested, and
\* still connected, has the notification.
FanoutReachesAll ==
  [][pc = "fanout" /\ pc' = "poll" =>
       \A u \in userIdSet :
          LET p == conn[userSubscriptions[u].fd]
          IN /\ GetMatch(userSubscriptions[u], arrived[taken])
             /\ srvSock[p] = "open"
             => \E k \in DOMAIN Received(p)' : Received(p)'[k] = taken]_vars

\* Whatever a user asked for stays on record through logout and login: the
\* log of a user only ever grows at its end.
LogsGrow ==
  \A u \in UserId :
    LET old == userSubscriptions[u].subscriptions
        new == userSubscriptions'[u].subscriptions
    IN Len(old) <= Len(new) /\ SubSeq(new, 1, Len(old)) = old

NothingForgotten == [][LogsGrow]_vars

-----------------------------------------------------------------------------
(***************************************************************************)
(* Commands: from a process' confirmation to its user's log.               *)
(***************************************************************************)

\* Where an element of a log comes from: the nth command that a process
\* confirmed.
Origin == [by : Proc, nth : 1 .. MaxCommands]

LogOf(u) == userSubscriptions[u].subscriptions

\* The subscription that command r asks for.  The user was shown all of the
\* topic; what is noted is its first word.
Asked(r) == [expression |-> FirstWord[r.topic], subscribed |-> r.command = "subscribe"]

\* Commands that may leave no trace: without a topic, or met by a failing
\* strdup.
MayBeLost(r) == "strdup" \in Faults \/ FirstWord[r.topic] = EmptyString

\* Command n of process p is in the log, or is one of those.
Applied(p, n, origin) ==
  \/ MayBeLost(confirmed[p][n])
  \/ \E i \in DOMAIN origin : origin[i] = [by |-> p, nth |-> n]

\* Each element is what a process of the user confirmed, and none of that
\* process' earlier commands is left out.
Sourced(u, origin) ==
  \A i \in DOMAIN LogOf(u) :
    LET p == origin[i].by
        n == origin[i].nth
    IN /\ IdOf[p] = u
       /\ n \in DOMAIN confirmed[p]
       /\ LogOf(u)[i] = Asked(confirmed[p][n])
       /\ \A m \in 1 .. n - 1 : Applied(p, m, origin)

\* The commands of a process are applied once and in the order in which it
\* confirmed them, with none of another session between them.
SessionBySession(origin) ==
  \A i, j \in DOMAIN origin :
    i < j /\ origin[i].by = origin[j].by =>
      /\ origin[i].nth < origin[j].nth
      /\ \A k \in i .. j : origin[k].by = origin[i].by

\* Of what the process behind descriptor f confirmed, the last commands are
\* still to be read and those before them are applied; its session is the
\* last in the log.
UpToDate(f, origin) ==
  LET p == conn[f]
      read == Len(confirmed[p]) - Len(toServer[p])
  IN /\ Len(toServer[p]) <= Len(confirmed[p])
     /\ \A k \in DOMAIN toServer[p] : toServer[p][k] = confirmed[p][read + k]
     /\ \A n \in 1 .. read : Applied(p, n, origin)
     /\ \A i \in DOMAIN origin : origin[i].by = p =>
          /\ origin[i].nth <= read
          /\ \A j \in DOMAIN origin : i < j => origin[j].by = p

\* The connection of p is not logged in yet.
Waiting(p) == Queued(p) \/ (connfd \in Fd /\ conn[connfd] = p)

Account(u, origin) ==
  /\ Sourced(u, origin) /\ SessionBySession(origin)
  /\ ~Ended =>
       /\ \A f \in Fd : fdsToUsers[f] = u => UpToDate(f, origin)
       /\ \A i \in DOMAIN origin : ~Waiting(origin[i].by)

\* The log of a user is what the user's processes asked for, session by
\* session: commands are applied once, in the order in which they were
\* confirmed, never one of an ended session after one of the session that
\* replaced it, and none before its process is logged in.  Of a session that
\* is not noticed to have ended, everything confirmed is applied or about to
\* be read.
LogBySessions ==
  \A u \in UserId : \E origin \in [DOMAIN LogOf(u) -> Origin] : Account(u, origin)

-----------------------------------------------------------------------------
(***************************************************************************)
(* Stopping.                                                               *)
(***************************************************************************)

\* A server that stops in good order has told every logged-in subscriber that
\* is still there.
StopTellsAll ==
  [][pc # "exited" /\ pc' = "exited" =>
       \A f \in Fd :
          fdsToUsers[f] # NoUser /\ client[conn[f]] = "running"
            => \E k \in DOMAIN toClient[conn[f]] : toClient[conn[f]][k] = Shutdown]_vars

\* A subscriber that was told to shut down ends.
ToldToEnd ==
  \A p \in Proc :
     (\E k \in DOMAIN toClient[p] : toClient[p][k] = Shutdown)
       ~> client[p] \in {"exited", "crashed"}

\* Every command that reached the server's socket is applied in the end (or
\* the server stops), although commands come last in the order of service.
CommandsServed ==
  \A p \in Proc : toServer[p] # <<>> ~> toServer[p] = <<>>

\* Every datagram that arrived is taken in the end (or the server stops),
\* although connections come before datagrams and each login holds the loop
\* until the newcomer has spoken or left.
DatagramsTaken ==
  \A n \in 1 .. MaxArrivals : Len(arrived) >= n ~> taken >= n \/ Ended

\* When a subscriber is gone the server notices in the end: the descriptor is
\* free and the user may come back.
DepartureNoticed ==
  \A p \in Proc : cliSock[p] = "closed" ~> srvSock[p] = "closed"

-----------------------------------------------------------------------------
(***************************************************************************)
(* The session invariant, in parts: what the tables of the server, the     *)
(* queues of the kernel and the states of the processes have to do with    *)
(* each other while the server is up.  It contains the invariants on       *)
(* sessions above and is inductive.                                        *)
(***************************************************************************)

\* connfd names the connection being set up, and only then.
ConnfdExact ==
  /\ pc \in {"register", "login"} => connfd \in Fd
  /\ pc \notin {"register", "login", "free"} => connfd = NoFd
  /\ connfd \in Fd => conn[connfd] # NoProc /\ fdsToUsers[connfd] = NoUser

\* Polled descriptors are open; the one being logged in is the last of them.
PolledOpen ==
  /\ \A i \in DOMAIN pollfds : conn[pollfds[i].fd] # NoProc
  /\ pc = "register" => \A i \in DOMAIN pollfds : pollfds[i].fd # connfd
  /\ pc = "login" => Len(pollfds) > 0 /\ pollfds[Len(pollfds)].fd = connfd

\* The listening queue holds each connection once and none that is accepted,
\* and the branches that take something find it there.
QueueExact ==
  /\ pc = "accept" => backlog # <<>>
  /\ taken <= Len(arrived)
  /\ pc = "udp" => taken < Len(arrived)
  /\ \A i, j \in DOMAIN backlog : backlog[i] = backlog[j] => i = j
  /\ \A f \in Fd : ~Queued(conn[f])

\* Nothing was sent yet on a connection that is not logged in, and nothing
\* happened on one that waits which could make a send on it fatal.
NothingSentYet ==
  /\ \A p \in Proc : Queued(p) =>
        srvSock[p] \in {"open", "fin", "rst"} /\ toClient[p] = <<>>
  /\ \A p \in Proc : client[p] = "idle" => toClient[p] = <<>>
  /\ pc \in {"register", "login"} => toClient[conn[connfd]] = <<>>

\* A process that has not connected has no connection, and one that has and
\* is alive sees it open as long as the server knows of it.
ProcessExact ==
  /\ \A p \in Proc : Queued(p) => client[p] # "idle"
  /\ \A f \in Fd : conn[f] # NoProc => client[conn[f]] # "idle"
  /\ \A p \in Proc : client[p] \in {"idle", "connected"} => toServer[p] = <<>>
  /\ \A p \in Proc : Queued(p) /\ client[p] \in {"connected", "running"}
                       => cliSock[p] = "open"
  /\ \A f \in Fd : conn[f] # NoProc /\ client[conn[f]] \in {"connected", "running"}
                       => cliSock[conn[f]] = "open"
  /\ \A f \in Fd : fdsToUsers[f] # NoUser => client[conn[f]] # "connected"

\* Before login the id of the process comes first and then commands; while
\* the process runs the id is there.
Introduced(p) ==
  /\ client[p] = "running" => toServer[p] # <<>>
  /\ toServer[p] # <<>> =>
       /\ toServer[p][1] = [id |-> IdOf[p]]
       /\ \A k \in 2 .. Len(toServer[p]) : toServer[p][k] \in Request

IntroducedFirst ==
  /\ \A p \in Proc : Queued(p) => Introduced(p)
  /\ connfd \in Fd => Introduced(conn[connfd])

\* A user who is logged in is known, one who is not has no log, and everyone
\* the notification in hand still has to go to is logged in.
UsersKnown ==
  /\ \A u \in UserId : userSubscriptions[u].active => u \in userIdSet
  /\ \A u \in UserId \ userIdSet : userSubscriptions[u].subscriptions = <<>>
  /\ pc = "fanout" => \A u \in todo : userSubscriptions[u].active

SessionInv ==
  /\ TableExact /\ FdUserBijection /\ TableFits /\ RefusalIsSafe /\ FramesInPlace
  /\ ~Ended => /\ ConnfdExact /\ PolledOpen /\ QueueExact /\ NothingSentYet
               /\ ProcessExact /\ IntroducedFirst /\ UsersKnown

\* The inductive invariant: types, and server, kernel and processes agree on
\* who is logged in where while descriptors are dropped and reused.
IInv == TypeOK /\ SessionInv
-----------------------------------------------------------------------------
(***************************************************************************)
(* The delivery invariant, in parts: what has reached whom while a         *)
(* notification goes round, or the server stops.  With the session         *)
(* invariant it is inductive.                                              *)
(***************************************************************************)

\* The user asked for the topic at some time.
AskedFor(u, topic) ==
  LET log == userSubscriptions[u].subscriptions
  IN \E i \in DOMAIN log : log[i].subscribed /\ Match(log[i].expression, topic)

Has(p, m) == \E k \in DOMAIN Received(p) : Received(p)[k] = m

\* What a process has was taken before, and its user asked for it.
Due(p, m) ==
  m \in 1 .. taken /\ IdOf[p] \in UserId /\ AskedFor(IdOf[p], arrived[m])

OnlyDue ==
  \A p \in Proc : \A k \in DOMAIN Received(p) :
     Received(p)[k] = Shutdown \/ Due(p, Received(p)[k])

\* "shutdown" is not printed, and nobody whose connection the server keeps is
\* told to shut down before the server stops.
ToldLast ==
  /\ \A p \in Proc : \A k \in DOMAIN printed[p] : printed[p][k] # Shutdown
  /\ ~Ended /\ pc # "free" => \A f \in Fd : conn[f] # NoProc => ~Has(conn[f], Shutdown)

\* While a process runs the server can send to it.
Alive(p) == client[p] \in {"connected", "running"}

AliveOpen ==
  \A p \in Proc :
    Alive(p) /\ (Queued(p) \/ \E f \in Fd : conn[f] = p) => srvSock[p] = "open"

\* The users to whom the notification in hand still has to go asked for it
\* and do not have it; the others have it unless they are going.
Halfway ==
  pc = "fanout" =>
    /\ taken > 0
    /\ \A u \in todo : /\ AskedFor(u, arrived[taken])
                       /\ ~Has(conn[userSubscriptions[u].fd], taken)
    /\ \A u \in userIdSet \ todo :
         /\ GetMatch(userSubscriptions[u], arrived[taken])
         /\ srvSock[conn[userSubscriptions[u].fd]] = "open"
         => Has(conn[userSubscriptions[u].fd], taken)

\* Those that freeMemory has passed are told, or gone.
ToldSoFar ==
  pc = "free" =>
    \A i \in DOMAIN pollfds :
      LET p == conn[pollfds[i].fd]
      IN i < idx /\ Alive(p)
           => \E k \in DOMAIN toClient[p] : toClient[p][k] = Shutdown

DeliveryInv ==
  /\ InOrder /\ OnlyDue /\ ToldLast
  /\ ~Ended => AliveOpen /\ Halfway /\ ToldSoFar
-----------------------------------------------------------------------------
(***************************************************************************)
(* The command invariant: what waits on a connection before login.  With   *)
(* the session invariant and LogBySessions it is inductive.                *)
(***************************************************************************)

\* Behind the id waits all that the process confirmed.
WaitsWhole(p) ==
  \/ toServer[p] = <<>> /\ confirmed[p] = <<>>
  \/ /\ Len(toServer[p]) = Len(confirmed[p]) + 1
     /\ \A k \in DOMAIN confirmed[p] : toServer[p][k + 1] = confirmed[p][k]

CommandInv ==
  /\ \A p \in Proc : Len(confirmed[p]) <= MaxCommands
  /\ \A p \in Proc : client[p] \in {"idle", "connected"} => confirmed[p] = <<>>
  /\ ~Ended => \A p \in Proc : Waiting(p) => WaitsWhole(p)
  /\ LogBySessions
=============================================================================
