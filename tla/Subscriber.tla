----------------------------- MODULE Subscriber ------------------------------
(***************************************************************************)
(* The subscriber process: main of client.cpp, from connect to its end.    *)
(* The user at the terminal may type at any time; the loop serves standard *)
(* input before the socket.                                                *)
(***************************************************************************)
EXTENDS Sockets

CONSTANTS
  IdOf,          \* each process's second argument: the user id
  Pattern,       \* topics that validateMessage lets through
  MaxCommands    \* bound: commands typed in one process

ASSUME MaxCommandsAssumption == MaxCommands \in Nat

VARIABLES
  client,      \* where each process is
  confirmed,   \* commands it has confirmed on its standard output
  printed      \* notifications it has printed on its standard output

subscriber == <<client, confirmed, printed>>

Request == [command : {"subscribe", "unsubscribe"}, topic : Pattern]

SubscriberTypeOK ==
  /\ client \in [Proc -> {"idle", "connected", "running", "exited", "crashed"}]
  /\ confirmed \in [Proc -> Seq(Request)]
  /\ printed \in [Proc -> Seq(Nat)]

SubscriberInit ==
  /\ client = [p \in Proc |-> "idle"]
  /\ confirmed = [p \in Proc |-> <<>>]
  /\ printed = [p \in Proc |-> <<>>]

\* The process ends and the kernel closes its socket.
Leave(p, how) ==
  /\ client' = [client EXCEPT ![p] = how]
  /\ cliSock' = [cliSock EXCEPT ![p] = "closed"]
  /\ \E s \in PeerAfterClose(srvSock[p], toClient[p] # <<>>) :
        srvSock' = [srvSock EXCEPT ![p] = s]
  /\ toClient' = [toClient EXCEPT ![p] = <<>>]

\* connect, which the kernel completes while the listening queue has room
\* (listen(fd, n) admits n + 1) and which fails when nobody listens.
Connect(p, listening) ==
  /\ client[p] = "idle"
  /\ \/ /\ listening
        /\ Len(backlog) <= Backlog
        /\ client' = [client EXCEPT ![p] = "connected"]
        /\ backlog' = Append(backlog, p)
        /\ srvSock' = [srvSock EXCEPT ![p] = "open"]
        /\ cliSock' = [cliSock EXCEPT ![p] = "open"]
     \/ /\ ~listening
        /\ client' = [client EXCEPT ![p] = "exited"]
        /\ UNCHANGED <<backlog, srvSock, cliSock>>
  /\ UNCHANGED <<toServer, toClient, confirmed, printed>>

\* sendTcp on the subscriber's socket.
ClientSend(p, frame) ==
  /\ cliSock[p] # "epipe"
  /\ toServer' = Delivered(toServer, cliSock, p, frame)
  /\ cliSock' = [cliSock EXCEPT ![p] = AfterSend(@)]
  /\ UNCHANGED <<backlog, srvSock, toClient>>

SendId(p) ==
  /\ client[p] = "connected"
  /\ client' = [client EXCEPT ![p] = "running"]
  /\ ClientSend(p, [id |-> IdOf[p]])
  /\ UNCHANGED <<confirmed, printed>>

\* A subscribe or unsubscribe line.  It is confirmed to the user as soon as
\* sendTcp returns, whatever became of it.
TypeCommand(p) ==
  /\ client[p] = "running"
  /\ Len(confirmed[p]) < MaxCommands
  /\ \E r \in Request :
       /\ ClientSend(p, r)
       /\ confirmed' = [confirmed EXCEPT ![p] = Append(@, r)]
  /\ UNCHANGED <<client, printed>>

\* The same when sendTcp raises SIGPIPE.
TypeCommandSigpipe(p) ==
  /\ client[p] = "running"
  /\ cliSock[p] = "epipe"
  /\ Leave(p, "crashed")
  /\ UNCHANGED <<backlog, toServer, confirmed, printed>>

\* "exit" on standard input, or a signal, at any time after connect.
Quit(p) ==
  /\ client[p] \in {"connected", "running"}
  /\ Leave(p, "exited")
  /\ UNCHANGED <<backlog, toServer, confirmed, printed>>

\* A frame from the server: "shutdown" ends the process, anything else is
\* printed.  (Mutant: "shutdown" is not recognised.)
Receive_PrintsAll(p) ==
  /\ client[p] = "running"
  /\ toClient[p] # <<>>
  /\ printed' = [printed EXCEPT ![p] = Append(@, Head(toClient[p]))]
  /\ toClient' = [toClient EXCEPT ![p] = Tail(@)]
  /\ UNCHANGED <<backlog, client, cliSock, srvSock, toServer, confirmed>>

Receive(p) ==
  /\ client[p] = "running"
  /\ toClient[p] # <<>>
  /\ \/ /\ Head(toClient[p]) = Shutdown
        /\ client' = [client EXCEPT ![p] = "exited"]
        /\ cliSock' = [cliSock EXCEPT ![p] = "closed"]
        /\ \E s \in PeerAfterClose(srvSock[p], Tail(toClient[p]) # <<>>) :
              srvSock' = [srvSock EXCEPT ![p] = s]
        /\ toClient' = [toClient EXCEPT ![p] = <<>>]
        /\ UNCHANGED printed
     \/ /\ Head(toClient[p]) # Shutdown
        /\ printed' = [printed EXCEPT ![p] = Append(@, Head(toClient[p]))]
        /\ toClient' = [toClient EXCEPT ![p] = Tail(@)]
        /\ UNCHANGED <<client, cliSock, srvSock>>
  /\ UNCHANGED <<backlog, toServer, confirmed>>

\* recv reports a reset: the empty notification is ignored and the loop goes
\* round again, as it does for ever when the server has closed.
ReceiveReset(p) ==
  /\ client[p] = "running"
  /\ toClient[p] = <<>>
  /\ cliSock[p] = "rst"
  /\ cliSock' = [cliSock EXCEPT ![p] = "epipe"]
  /\ UNCHANGED <<backlog, srvSock, toServer, toClient, subscriber>>
==============================================================================
