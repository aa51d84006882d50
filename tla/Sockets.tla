------------------------------- MODULE Sockets -------------------------------
(***************************************************************************)
(* The part of the kernel that server and subscribers share: one TCP       *)
(* connection per subscriber process, and the listening socket's queue.    *)
(*                                                                         *)
(* A connection carries whole frames (what one sendTcp writes and one      *)
(* applicationProtocol reads), reliably and in order.  What this module    *)
(* keeps of TCP is what the program can be hurt by: the two ends close at  *)
(* different times, and an end that writes to a peer that is gone is told  *)
(* so late, by a signal that kills it.                                     *)
(***************************************************************************)
EXTENDS Naturals, Sequences

CONSTANTS Proc,       \* subscriber processes; each connects at most once
          Backlog     \* the second argument of listen

ASSUME BacklogAssumption == Backlog \in Nat

VARIABLES
  backlog,    \* connections completed by the kernel and not yet accepted
  srvSock,    \* the server's end of each process's connection
  cliSock,    \* the subscriber's end
  toServer,   \* frames sent by the subscriber and not yet read
  toClient    \* frames sent by the server and not yet read

\* The text that ends a subscriber.  Other texts from the server are named by
\* the number of the datagram they were made of, counted from 1.
Shutdown == 0

network == <<backlog, srvSock, cliSock, toServer, toClient>>

\* One end of a connection:
\*   open    both ends open
\*   fin     the peer has closed; nothing was sent since
\*   sent    something was sent to the closed peer; its reset is on its way
\*   rst     a reset arrived; the next call on the socket reports it
\*   epipe   the reset has been reported: the next send raises SIGPIPE
SocketState == {"none", "open", "fin", "sent", "rst", "epipe", "closed"}

NetworkTypeOK ==
  /\ backlog \in Seq(Proc)
  /\ srvSock \in [Proc -> SocketState]
  /\ cliSock \in [Proc -> SocketState]

NetworkInit ==
  /\ backlog = <<>>
  /\ srvSock = [p \in Proc |-> "none"]
  /\ cliSock = [p \in Proc |-> "none"]
  /\ toServer = [p \in Proc |-> <<>>]
  /\ toClient = [p \in Proc |-> <<>>]

\* The inbox of the other end after sending m, and the sender's own end.
Delivered(inbox, sock, p, m) ==
  IF sock[p] = "open" THEN [inbox EXCEPT ![p] = Append(@, m)] ELSE inbox

AfterSend(s) ==
  CASE s = "fin" -> "sent"
    [] s = "rst" -> "epipe"
    [] OTHER     -> s

\* The end that is left when the peer closes its own.  A peer that closes
\* with frames unread resets the connection, at once or when the frames
\* reach it.
PeerAfterClose(s, unread) ==
  IF s # "open" THEN {s} ELSE IF unread THEN {"rst", "sent"} ELSE {"fin"}

\* The reset that answers what was sent to a closed peer arrives.
ResetServerEnd(p) ==
  /\ srvSock[p] = "sent"
  /\ srvSock' = [srvSock EXCEPT ![p] = "epipe"]
  /\ UNCHANGED <<backlog, cliSock, toServer, toClient>>

ResetClientEnd(p) ==
  /\ cliSock[p] = "sent"
  /\ cliSock' = [cliSock EXCEPT ![p] = "epipe"]
  /\ UNCHANGED <<backlog, srvSock, toServer, toClient>>
==============================================================================
