------------------------------ MODULE Datagrams ------------------------------
(***************************************************************************)
(* The kernel's part in publishing: UDP ports, and the receive queue of    *)
(* the server's UDP socket.  All processes are on the server's host, where *)
(* a datagram is either queued at once or lost: nobody listens at its      *)
(* destination, or the queue is full.                                      *)
(***************************************************************************)
EXTENDS CommandLine

CONSTANTS
  Publisher,    \* publisher processes
  Local,        \* the addresses of the host
  ServerPort,
  Ephemeral,    \* ports the kernel gives to sockets bound to port 0
  QueueLength,  \* datagrams that the server's socket can hold
  Unbound

ASSUME LocalAssumption == Local \subseteq IPv4 /\ "0.0.0.0" \in Local
ASSUME PortAssumption == /\ ServerPort \in Nat /\ Ephemeral \subseteq Nat
                         /\ ServerPort \notin Ephemeral
ASSUME QueueAssumption == QueueLength \in Nat
ASSUME UnboundAssumption == Unbound \notin [address : Local, port : Nat]

VARIABLES
  bound,     \* the address and port of each publisher's socket
  queue,     \* what recvfrom has not returned yet
  lost,      \* history: the datagrams that reached nobody
  serverUp

kernel == <<bound, queue, lost, serverUp>>

\* The nth datagram of a publisher.
Datagram == [by : Publisher, nth : Nat \ {0}, from : Nat, payload : Payload]

DatagramsTypeOK ==
  /\ bound \in [Publisher -> [address : Local, port : Nat] \cup {Unbound}]
  /\ queue \in Seq(Datagram)
  /\ lost \subseteq Publisher \X Nat
  /\ serverUp \in BOOLEAN

DatagramsInit ==
  /\ bound = [p \in Publisher |-> Unbound]
  /\ queue = <<>>
  /\ lost = {}
  /\ serverUp = TRUE

\* Nobody holds the port on that address.  The server's socket is bound to
\* every address; that it allows reuse does not help, both would have to.
Free(address, port) ==
  /\ ~(serverUp /\ port = ServerPort)
  /\ \A q \in Publisher :
       bound[q] # Unbound /\ bound[q].port = port =>
         /\ address # bound[q].address
         /\ "0.0.0.0" \notin {address, bound[q].address}

\* The ports that bind can give to a socket.
PortsFor(address, port) ==
  {n \in IF port = 0 THEN Ephemeral ELSE {port} :
     address \in Local /\ Free(address, n)}

\* sendto.
Transmit(d, address, port) ==
  IF serverUp /\ address \in Local /\ port = ServerPort /\ Len(queue) < QueueLength
  THEN queue' = Append(queue, d) /\ lost' = lost
  ELSE queue' = queue /\ lost' = lost \cup {<<d.by, d.nth>>}
==============================================================================
