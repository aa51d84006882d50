------------------------------ MODULE Publisher ------------------------------
(***************************************************************************)
(* The publisher, udp_client.py: it reads its command line and a list of   *)
(* payloads, binds a socket, and sends payloads in one of three modes,     *)
(* pausing after each.  An exception that nothing handles ends it.         *)
(***************************************************************************)
EXTENDS Datagrams

CONSTANTS
  CommandLines,  \* the command lines each publisher may be started with
  Line,          \* lines that users type: numbers, Word, Exit, EndOfFile
  Exit, EndOfFile,
  MaxLines,      \* bound: lines typed to one publisher
  MaxSent        \* bound: datagrams of a random run without --count

ASSUME CommandLinesAssumption ==
  CommandLines \in [Publisher -> SUBSET CommandLine]
ASSUME PayloadAssumption ==
  \A x \in Payload : {x.sendable, x.described} \subseteq BOOLEAN
ASSUME LineAssumption ==
  /\ Line \subseteq Int \cup {Word, Exit, EndOfFile}
  /\ {Exit, EndOfFile} \cap (Int \cup {Word}) = {} /\ Exit # EndOfFile
ASSUME BoundAssumption == MaxLines \in Nat /\ MaxSent \in Nat

VARIABLES
  stage,        \* where a publisher is, or how it ended
  commandLine,
  message,      \* position of the payload taken last, 0 before the first
  count,        \* run_random's counter
  typed,        \* what the user typed
  read,         \* how many lines of it were read
  sent          \* history: the positions of the payloads sent

publisher == <<stage, commandLine, message, count, typed, read, sent>>

Ended == {"refused", "raised", "done", "interrupted"}

Args(p) == Parsed(commandLine[p])
List(p) == Args(p).input_file

PublisherTypeOK ==
  /\ stage \in [Publisher -> {"parse", "bind", "loop", "sleep"} \cup Ended]
  /\ commandLine \in [Publisher -> CommandLine]
  /\ message \in [Publisher -> Nat]
  /\ count \in [Publisher -> Nat]
  /\ typed \in [Publisher -> Seq(Line)]
  /\ read \in [Publisher -> Nat]
  /\ sent \in [Publisher -> Seq(Nat)]

PublisherInit ==
  /\ stage = [p \in Publisher |-> "parse"]
  /\ commandLine \in {f \in [Publisher -> UNION {CommandLines[p] : p \in Publisher}] :
                        \A p \in Publisher : f[p] \in CommandLines[p]}
  /\ message = [p \in Publisher |-> 0]
  /\ count = [p \in Publisher |-> 0]
  /\ typed = [p \in Publisher |-> <<>>]
  /\ read = [p \in Publisher |-> 0]
  /\ sent = [p \in Publisher |-> <<>>]

-----------------------------------------------------------------------------
\* The process is gone, and its socket with it.
Finish(p, how) ==
  /\ stage' = [stage EXCEPT ![p] = how]
  /\ bound' = [bound EXCEPT ![p] = Unbound]

Parse(p) ==
  /\ stage[p] = "parse"
  /\ Accepted(commandLine[p])
  /\ stage' = [stage EXCEPT ![p] = "bind"]
  /\ UNCHANGED <<kernel, commandLine, message, count, typed, read, sent>>

Refuse(p) ==
  /\ stage[p] = "parse"
  /\ ~Accepted(commandLine[p])
  /\ Finish(p, "refused")
  /\ UNCHANGED <<queue, lost, serverUp, commandLine, message, count, typed, read, sent>>

\* setup_socket, and main up to the loop of the mode.
Bind(p) ==
  /\ stage[p] = "bind"
  /\ \E port \in PortsFor(Args(p).source_address, Args(p).source_port) :
       bound' = [bound EXCEPT ![p] = [address |-> Args(p).source_address,
                                      port |-> port]]
  /\ stage' = [stage EXCEPT ![p] = "loop"]
  /\ UNCHANGED <<queue, lost, serverUp, commandLine, message, count, typed, read, sent>>

\* Another process has the port, or the address is not the host's or not
\* IPv4.  (Mutant: bind is tried again.)
BindRaises_Retries(p) ==
  /\ stage[p] = "bind"
  /\ PortsFor(Args(p).source_address, Args(p).source_port) = {}
  /\ UNCHANGED <<kernel, publisher>>

BindRaises(p) ==
  /\ stage[p] = "bind"
  /\ PortsFor(Args(p).source_address, Args(p).source_port) = {}
  /\ Finish(p, "raised")
  /\ UNCHANGED <<queue, lost, serverUp, commandLine, message, count, typed, read, sent>>

-----------------------------------------------------------------------------
\* send_message with the kth payload.  What is wrong with the payload's
\* contents or the destination shows before the datagram is sent, what is
\* wrong with its description or the delay only afterwards.  (Mutant: a
\* failure is passed over.)
SendMessage_Continues(p, k) ==
  /\ message' = [message EXCEPT ![p] = k]
  /\ IF List(p)[k].sendable /\ Args(p).server_ip \in IPv4
     THEN /\ sent' = [sent EXCEPT ![p] = Append(@, k)]
          /\ Transmit([by |-> p, nth |-> Len(sent[p]) + 1, from |-> bound[p].port,
                       payload |-> List(p)[k]],
                      Args(p).server_ip, Args(p).server_port)
     ELSE UNCHANGED <<queue, lost, sent>>
  /\ stage' = [stage EXCEPT ![p] = "sleep"]
  /\ UNCHANGED <<bound, serverUp, commandLine, count, typed>>

SendMessage(p, k) ==
  /\ message' = [message EXCEPT ![p] = k]
  /\ IF List(p)[k].sendable /\ Args(p).server_ip \in IPv4
     THEN /\ sent' = [sent EXCEPT ![p] = Append(@, k)]
          /\ Transmit([by |-> p, nth |-> Len(sent[p]) + 1, from |-> bound[p].port,
                       payload |-> List(p)[k]],
                      Args(p).server_ip, Args(p).server_port)
          /\ IF List(p)[k].described /\ Args(p).delay >= 0
             THEN stage' = [stage EXCEPT ![p] = "sleep"] /\ bound' = bound
             ELSE Finish(p, "raised")
     ELSE Finish(p, "raised") /\ UNCHANGED <<queue, lost, sent>>
  /\ UNCHANGED <<serverUp, commandLine, count, typed>>

\* The pause is over, and with it this turn of the loop; run_random counts.
\* (Mutant: the count is forgotten.)
Wake_Uncounted(p) ==
  /\ stage[p] = "sleep"
  /\ stage' = [stage EXCEPT ![p] = "loop"]
  /\ UNCHANGED <<kernel, commandLine, message, count, typed, read, sent>>

Wake(p) ==
  /\ stage[p] = "sleep"
  /\ stage' = [stage EXCEPT ![p] = "loop"]
  /\ count' = IF Args(p).mode = "random" THEN [count EXCEPT ![p] = @ + 1] ELSE count
  /\ UNCHANGED <<kernel, commandLine, message, typed, read, sent>>

Looping(p, mode) == stage[p] = "loop" /\ Args(p).mode = mode

\* The loop of the mode is left.
Done(p) ==
  /\ Finish(p, "done")
  /\ UNCHANGED <<queue, lost, serverUp, commandLine, message, count, typed, sent>>

\* run_all_once.
AllOnce(p) ==
  /\ Looping(p, "all_once")
  /\ \/ message[p] < Len(List(p)) /\ SendMessage(p, message[p] + 1)
     \/ message[p] = Len(List(p)) /\ Done(p)
  /\ UNCHANGED read

\* run_random.  (Mutant: it stops one datagram late.)
Wanted_OneMore(p) == Args(p).count # NotGiven => count[p] <= Args(p).count
Wanted(p) == Args(p).count # NotGiven => count[p] < Args(p).count

Random(p) ==
  /\ Looping(p, "random")
  /\ \/ /\ Wanted(p) /\ List(p) # <<>>
        /\ Args(p).count = NotGiven => count[p] < MaxSent
        /\ \E k \in DOMAIN List(p) : SendMessage(p, k)
     \/ /\ Wanted(p) /\ List(p) = <<>>
        /\ Finish(p, "raised")
        /\ UNCHANGED <<queue, lost, serverUp, commandLine, message, count, typed, sent>>
     \/ ~Wanted(p) /\ Done(p)
  /\ UNCHANGED read

\* run_manual lists the descriptions before it asks for anything.
HasMenu(p) == \A k \in DOMAIN List(p) : List(p)[k].described

MenuRaises(p) ==
  /\ Looping(p, "manual")
  /\ ~HasMenu(p)
  /\ Finish(p, "raised")
  /\ UNCHANGED <<queue, lost, serverUp, commandLine, message, count, typed, read, sent>>

\* run_manual: the choices count from 0, and what is neither "exit" nor a
\* number is int's to refuse.  (Mutant: they count from 1.)
Choices_FromOne(p) == 1 .. Len(List(p))
Choices(p) == 0 .. Len(List(p)) - 1

Manual(p) ==
  /\ Looping(p, "manual")
  /\ HasMenu(p)
  /\ read[p] < Len(typed[p])
  /\ read' = [read EXCEPT ![p] = @ + 1]
  /\ LET line == typed[p][read[p] + 1] IN
     \/ line = Exit /\ Done(p)
     \/ /\ line \in {Word, EndOfFile}
        /\ Finish(p, "raised")
        /\ UNCHANGED <<queue, lost, serverUp, commandLine, message, count, typed, sent>>
     \/ line \in Choices(p) /\ SendMessage(p, line + 1)
     \/ /\ line \in Int \ Choices(p)
        /\ UNCHANGED <<kernel, stage, commandLine, message, count, typed, sent>>

-----------------------------------------------------------------------------
\* The user types ahead, or to the prompt; nothing follows the end of file.
Type(p) ==
  /\ stage[p] \notin Ended /\ Args(p).mode = "manual"
  /\ Len(typed[p]) < MaxLines
  /\ \A i \in DOMAIN typed[p] : typed[p][i] # EndOfFile
  /\ \E line \in Line : typed' = [typed EXCEPT ![p] = Append(@, line)]
  /\ UNCHANGED <<kernel, stage, commandLine, message, count, read, sent>>

\* Ctrl-C, or any other signal that ends the process.
Interrupt(p) ==
  /\ stage[p] \notin Ended
  /\ Finish(p, "interrupted")
  /\ UNCHANGED <<queue, lost, serverUp, commandLine, message, count, typed, read, sent>>

\* What a publisher does by itself.
PublisherStep(p) ==
  \/ Parse(p) \/ Refuse(p) \/ Bind(p) \/ BindRaises(p)
  \/ AllOnce(p) \/ Random(p) \/ MenuRaises(p) \/ Manual(p) \/ Wake(p)
==============================================================================
