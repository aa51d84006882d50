# ServerUdpTcp: specification, model checking and proofs

The program is a small topic broker. *Publishers* send datagrams (topic, type,
value) to a UDP port. *Subscribers* hold a TCP connection to the same port,
give their id, and type `subscribe`, `unsubscribe` and `exit`. One
single-threaded *server* multiplexes standard input, the listening socket, the
UDP socket and all subscribers with `poll`, keeps what each user asked for
across logout and login, and forwards each datagram to the users who are logged
in and interested.

Paths below are relative to `src/`.

## 1. Inventory

| part | source | state | operations |
|---|---|---|---|
| topic patterns | `subscriptions.cpp` 134-295 | none | split at `/`, detect wildcards, match |
| subscription log of a user | `subscriptions.cpp` 297-371 | vector of (expression, subscribed), `active`, `fd` | addSubscribe, addUnsubscribe, getMatch |
| poll table | `subscriptions.cpp` 20-80 | `pollfds`, `nfds`, `maxSize` | addFd, remove, removeLast, freeMemory |
| framing | `subscriptions.cpp` 82-132 | the byte stream, what of a frame is sent and received | sendTcp, applicationProtocol |
| server loop | `server.cpp` 119-351 | `userIdSet`, `userSubscriptions`, `fdsToUsers`, the poll table | stdin, accept and login, notification, command, logout, signal |
| notification text | `server.cpp` 44-117, 287-300 | the datagram buffer | recvfrom, manageUdp |
| subscriber | `client.cpp` | a poll table of two | connect, id, command, notification, exit, signal |
| standard input | `server.cpp` 208-217, `client.cpp` 30-39, 92-114, `utils.h` | `stdin_buffer`, stdio's buffer | fgets, strip the newline, validateMessage |
| publisher | `pcom_hw2_udp_client/udp_client.py` | position in the list, count, socket | parse, bind, send_message, three modes |
| port check | `pcom_hw2_udp_client/utils/unpriv_port.py` | none | unprivileged_port_type |
| sockets | the kernel | listening queue, two ends of each connection, UDP ports and queue | connect, accept, send, recv, close, reset, bind, sendto, recvfrom |

**Interaction.** Subscriber and server share a TCP connection: an id frame,
then commands one way, notifications and at last `shutdown` the other way.
Publishers and server share the UDP socket. Operator and user share standard
input with their process. Inside the server everything is sequential, but every
step works on tables filled in earlier steps and on sockets whose other end has
moved on since `poll` looked. A signal handler shares the poll table and the
connections with whatever it interrupts.

**What is hard.**

* *Priority.* Each round serves one of standard input, listening socket, UDP
  socket, subscribers, in this order. A reconnect overtakes the departure it
  follows, a datagram overtakes the subscription confirmed before it.
* *Stale knowledge.* A departed subscriber stays logged in until its socket is
  read. A send to it draws a reset; the next one raises SIGPIPE, which nothing
  handles. `poll` looks at a descriptor, `fgets` at stdio's buffer. One buffer
  serves all datagrams.
* *Reuse.* Descriptors are handed out again at once; three tables and the
  kernel must agree on whose they are.
* *Blocking.* The id is read with a blocking `recv` in the accept branch, and
  `fgets` waits for the rest of a line.
* *Signals.* `freeMemory` runs from a handler, between any two instructions of
  the operations on the table, in the middle of a `sendTcp`, or in the middle
  of another `freeMemory`.
* *Pieces.* `send` and `recv` move any number of bytes; an end, an error or a
  signal may come inside a frame. `fgets` returns a long line in parts.
* *Stopping.* `exit` or a signal tells the subscribers in the table one by one,
  while they leave and while others are still in the listening queue.
* *Requests that overlap.* The log is searched backwards by a backtracking
  matcher.
* *Failing late.* A publisher meets a payload that cannot be decoded, has no
  description, or a delay that `sleep` refuses only when it is there, in part
  after the datagram is out.

**What makes each part correct.** Patterns: the matcher accepts exactly the
topics whose levels can be laid along the pattern's. Log: it stands for a set
of topics that requests widen and narrow. Sessions: tables, descriptors,
connections and process ids agree, one session per user. Delivery: in order, at
most once, to whoever is interested and connected, to nobody else. Commands:
applied once, in order, session by session, kept through logout. Stopping: who
is logged in is told, who is told ends. Table: a list, whatever instruction is
interrupted. Framing: texts arrive whole and in order while nothing breaks.
Standard input: each line is served once, nothing else is taken for a command.
Publishing: what the mode says is sent, what arrives is announced as it was
sent. Progress: commands and departures are served in the end, runs that have
an end come to it.

`PROJECT.json` lists the hazards with their lines and the properties that watch
them.

## 2. Modules

```
TopicPatterns <- MCTopicPatterns <- TopicPatternsProofs
      ^
      +------ Subscriptions
                   ^    ^
                   |    +- UserSubscriptions (implements Interest) <- UserSubscriptionsProofs
   Sockets <----- Server
      ^             ^
   Subscriber       |
      ^             |
      +- Broker ----+ <- BrokerProofs, MCBroker

   CommandLine <- Publisher -> Datagrams         Notification
                      ^                                ^
                      +------------ Publishing --------+ <- PublishingProofs, MCPublishing
                       (implements Workload and Arrivals)

   PollTable   (implements FdTable)      <- PollTableProofs
   Framing     (implements FrameChannel) <- FramingProofs (with SequenceLemmas), MCFraming
   StdinReader                           <- StdinProofs (with SequenceLemmas), MCStdin
```

| module | models | lines |
|---|---|---|
| `TopicPatterns` | splitting, `isItRegEx`, both `match` functions; `Covers`, the reference definition | `subscriptions.cpp` 134-290 |
| `Subscriptions` | `addSubscribe`, `addUnsubscribe`, `getMatch` on one user's vector | `subscriptions.cpp` 297-371 |
| `UserSubscriptions` | that vector over a history of requests | `server.cpp` 336-344 |
| `Interest` | abstract: a set of topics, widened and narrowed by requests | - |
| `Sockets` | the kernel's part: listening queue, both ends of a connection, frames under way | external |
| `Server` | the poll loop, call by call | `server.cpp` 119-351 |
| `Subscriber` | `main` of the client | `client.cpp` 41-127 |
| `Broker` | server, subscribers and kernel together, and their properties | - |
| `CommandLine` | `setup_parser` and the port check: what is accepted, and the defaults | `udp_client.py` 18-52, `unpriv_port.py` |
| `Datagrams` | the kernel's part: ports, the server's receive queue, losses | external |
| `Publisher` | reading the list, binding, `send_message`, the modes, pauses, exceptions, interruption | `udp_client.py` 55-133 |
| `Workload` | abstract: what a mode lets a publisher send | - |
| `Notification` | the datagram buffer and `manageUdp` | `server.cpp` 44-117, 289-295 |
| `Publishing` | publishers, kernel and the server's UDP branch together | - |
| `Arrivals` | abstract: the queue of topics that `Server` takes from | - |
| `PollTable` | `addFd`, `remove`, `removeLast`, `freeMemory` and the handler, instruction by instruction | `subscriptions.cpp` 20-80, `server.cpp` 35-42 |
| `FdTable` | abstract: a list of descriptors | - |
| `Framing` | `sendTcp` and `applicationProtocol`, byte by byte | `subscriptions.cpp` 82-132 |
| `FrameChannel` | abstract: texts, whole and in order unless broken | - |
| `StdinReader` | `fgets` behind `poll`, the stripped character, `validateMessage` | `server.cpp` 208-217, `client.cpp` 30-39, 92-114 |
| `SequenceLemmas` | facts about joining, cutting and flattening sequences | - |
| `*Proofs` | theorems | - |
| `MC*` | small populations for TLC; `MCTopicPatterns` is also what its theorems are about | - |

A definition `X_Y` next to `X` is `X` with one plausible mistake `Y`; it is used
nowhere in the specifications. Each shows that some property notices the
mistake.

### How the modules fit together

The system is checked in five compositions rather than one, each with the grain
its hazards need. Where one takes something for granted, another shows it:

* `Server` delivers a frame whole. `Framing` shows that this is what happens
  while nothing breaks (`Inv`, `ImplementsChannel`), and what a break does.
* `Server` changes the poll table in one step of an operation. `PollTable`
  shows that the instructions implement that list (`ImplementsFdTable`).
* `Server` takes a queue of topics, some datagrams being `Malformed`.
  `Publishing` implements that queue (`ImplementsArrivals`).
* `Server` reads `exit`, `Subscriber` a command, as one step. `StdinReader`
  shows which lines become such a step, and when.
* A user's log stands for a set of topics (`ImplementsInterest`).

### Broker: the sessions

**Data.** A topic string is the sequence of its pieces between `/`, one to one
with the text, because trailing and doubled separators matter to the matcher.
A notification is the number of the datagram it was made of, "shutdown" is 0.
A frame is the id, or a command and its topic.

**The server.** `pc` says where the loop stands. One action is one stretch of
code between two points where another process, the kernel or a signal can make
a difference:

| `pc` | the code is | actions |
|---|---|---|
| `poll` | in `poll` | `Poll`: computes `revents` of every entry and takes the one branch the if chain takes |
| `stdin` | reading "exit" | `Stdin` |
| `accept` | before `accept` | `Accept`, `AcceptFails` |
| `register` | before `setsockopt` and `addFd` | `AddFd`, `SetsockoptFails`, `AddFdFails` |
| `login` | blocked in `applicationProtocol(connfd)` | `LoginNew`, `LoginBack`, `LoginRefused`, `LoginInvalid` |
| `udp` | before `recvfrom` | `Udp`: takes the datagram and selects the users |
| `fanout` | in the loop over the users | `Fanout`, one user at a time, in any order |
| `scan` | in the loop over the subscribers | `ScanCommand`, `ScanDisconnect`, `ScanDone` |
| `free` | in `freeMemory` | `FreeStep`, one subscriber at a time, then `FreeDone` |
| `exited`, `crashed` | gone | `Sigpipe` leads to `crashed` |

`pollfds` is the table without its first three entries; `pollin` is what
`poll` wrote into `revents` (anything at all in a new entry, since `addFd` does
not write the field). `conn` is the kernel's knowledge of the connection behind
a descriptor and exists so that reuse can be stated. Descriptors are given out
lowest first. `Faults` chooses which of `setsockopt`, `realloc` and `strdup`
may fail.

**The subscriber.** `client[p]` is `idle` before `connect`, `connected` until
the id is sent, then `running`. A process connects at most once; a user who
comes back is another process with the same id.

**The kernel.** An end of a connection is `open`; `fin` once the peer has
closed; `sent` when something was sent to the closed peer; `rst` when a reset
has arrived and not been reported; `epipe` when the next send raises SIGPIPE.
`ResetServerEnd` and `ResetClientEnd` are the arrival of a reset, at any later
time. A process that closes with frames unread resets the connection.

### Publishing: from a file to a notification

A publisher runs through `stage`: `parse`, `bind`, `loop`, `sleep`, and ends
`done`, `refused` (by the parser), `raised` (an exception nothing
handles) or `interrupted`. `message`, `count` and `read` are the variables its
loops go by; `sent` is what went out. A payload is a record: the datagram it
decodes to, whether it has a description, whether it can be decoded at all.
Every kind of command line is started: missing, default, malformed, IPv6, a
port out of range or taken, each mode with each kind of count and file.

A datagram is its topic field and the rest: the type and the contents, bytes.
`udp_recv` is one buffer that is cleared and filled, as in the code, so that
what an earlier datagram left can be told from what arrived. A number's text is
its sign, its digits as a number, and how many of them are decimals; `Denotes`
says independently of `ManageUdp` what value a datagram stands for.

### PollTable: one instruction at a time

`memory` is the block behind `pollfds`, `stack` the main loop and the handlers
that interrupted it and each other, each with a label of the source. `memmove`
reads all it needs and stores in any order. `realloc` may move the block:
until `pollfds = temp` the pointer then points to freed memory. What the code
does after undefined behaviour is not described: `status` becomes `undefined`.

### Framing: one direction of a connection

`stream` is what was written, `taken` how much of it was read; the kernel holds
at most `Room` bytes between. `Write` is one `send`, of any length that fits;
`Header` and `Body` are one `recv` each. `Interrupt` is `freeMemory` called at
any time, also inside a frame; `End` is the end of the writer at any time;
`Reset` loses what has not arrived. The only empty text is a subscriber's first,
its id. `frames` records where in the stream each
text lies, for the properties only.

### StdinReader: lines

Standard input is a terminal (a read returns a line; an end of file may be
followed by more), a pipe (written in any pieces) or a file (complete before
the process starts, always readable). The words `exit`, `subscribe` and
`unsubscribe` are one letter each. The proportion that matters is kept: the
buffer holds the longest word, the longest message and three more bytes.

## 3. Runs

| run | configuration | states | fairness |
|---|---|---|---|
| `patterns` | `MCTopicPatterns`, up to 4 pieces out of `""`, `+`, `*`, `a`, `b` | 62 000 | - |
| `subscription_log` | `MCUserSubscriptions`, 3 topics, 5 overlapping patterns, 4 requests | 4 700 | - |
| `sessions` | processes a, c (same id) and x (unusable id), 2 descriptors, `setsockopt` and `realloc` may fail | 143 000 | yes |
| `delivery` | a and b, 2 datagrams, 1 command each, `strdup` may fail | 2.1 million | - |
| `commands` | a and c (same id), 2 commands each, a topic with a tab and one that is nothing else | 2.9 million | - |
| `two_users` | a and b, 1 command each, 1 datagram | 356 000 | yes |
| `publishing` | 2 publishers, 35 kinds of command line, 9 files, a queue of 2 | 47 000 | yes |
| `poll_table` | 2 descriptors, 2 signals, `setsockopt` and `realloc` may fail | 498 000 | - |
| `framing` | texts of 0, 1, 2, 3 and 9 bytes, 3 frames, 4 bytes of room | 62 000 | yes |
| `stdin` | 6 kinds of line, 2 lines, a buffer of 8 | 65 000 | yes |

What they show:

* `patterns`: the backtracking matcher computes `Covers`, which lays the levels
  of a topic along those of a pattern; widening `+` to `*` loses nothing.
* `subscription_log`: the log, searched backwards, implements `Interest`.
* `sessions`: tables, descriptors, connections and processes agree; refusing a
  connection cannot raise SIGPIPE; who is logged in is told of a stop. Departures
  are noticed, although a reconnect of the same user overtakes them and is
  refused, and the told end. No commands and no datagrams here: the two liveness
  properties are about connections, which come before the subscribers' sockets.
* `delivery`: notifications come in order, none twice, none that was not asked
  for; nobody who is interested and still there is left out.
* `commands`: commands are applied once, in order, session by session, and
  outlive the session. `LogBySessions` asks for the origin of every element of
  a log: which command of which process it is.
* `two_users`: commands are applied in the end, also those of a subscriber whose
  entry moves up while the loop is at it; every datagram is taken, although
  connections come first and each login may hold the loop.
* `publishing`: a publisher sends what its mode, the command line and the user
  say and stops where it fails; what it sends is lost by the kernel or announced
  once, in order, with the value it was given; runs that have an end reach it.
* `poll_table`: the table is the list `Server` works with; a process that ends
  in good order told everybody in it; memory that is not the table's is used in
  two situations only, which `DefinedBehaviour` names.
* `framing`: texts arrive whole and in order until something breaks, and after
  that only pieces of them do; the server closes a connection on an empty text
  when the subscriber is gone, or when its id was empty, and never else; a
  subscriber that was told to stop stops.
* `stdin`: each line is served once while lines fit; what is served was typed,
  and no too long line is taken for a shorter command; at a terminal no line
  waits for the next one; the rest of the loop is not starved, except where
  `OthersServed` says.

`sigpipe` and `stop` each check a statement of the repository that the code does
not keep; see *Findings*.

**Bounds.** `Fd` has two descriptors: reuse, removal of the first of two
entries and `accept` without a free descriptor all occur, and the table, which
starts with room for four entries, has to grow. `Backlog` 1 lets two
connections queue. Two processes of one user are the least for reconnecting and
for being refused; a third, with an id that cannot be used, shows that it
disturbs neither. Two datagrams are the least for order and for a second send
to somebody who has gone. Two commands are the least for order within a
session. Four pieces let a `*` stand between two others, be backtracked twice
and meet trailing and doubled separators. A queue of two datagrams is full
while a publisher has more to send, and two publishers compete for ports, for
the server's port and for room. The program handles three signals (`server.cpp`
178-180); two are the least for one handler inside another, and the proofs hold
for any number.
`Base` 8 makes the longest text need both bytes of the length, and makes the
wrong byte order show; with `Room` 4 no frame but the shortest can be sent at
once. Three frames let one be cut, one follow, and a stop come after. The lines
of `MCStdin` are an exit, an empty line, one that fills `fgets`, a command, a
long one that ends in "exit" where the second part begins, and a `subscribe`
one letter too long.

`MaxArrivals`, `MaxCommands`, `MaxRequests`, `MaxPieces`, `MaxLines`, `MaxSent`
and `MaxFrames` are the only bounds on behaviours, and are guards of `Arrive`,
`TypeCommand`, `Request`, of writing a pattern, of typing or writing a line, of
`Random` without `--count`, and of `SendTcp` and `Interrupt`. What is proved
(section 4) holds for all values of them.

**Deadlock** is not checked: every program here is meant to stop, or waits for
input that may never come.

**Fairness.** Only of what a scheduler or the kernel does, and weak everywhere.

* `Broker`: the server's own steps, each subscriber's own steps, and the arrival
  of resets. Nobody is obliged to start a process, to type, to publish, to send
  a signal. The server blocks in `login` until the newcomer speaks or leaves;
  that it does is the subscriber's own step, since the client sends its id right
  after `connect`. Datagrams are bounded by `MaxArrivals`, which stands for what
  the code needs: a pause in which the UDP socket is empty. Under an unending
  flow of datagrams the subscribers' sockets are never read, and
  `CommandsServed` and `DepartureNoticed` claim nothing. `DatagramsTaken` rests on
  four things more that the model has and the code does not guarantee: there are
  enough descriptors (`accept` does not fail for ever), whoever connects sends
  its id or leaves, standard input is not readable for ever, and `send` does not
  block.
* `Publishing`: each publisher's own steps (its sleeps end). Nobody has to type,
  and the server need not come to its UDP branch: whether it does is a question
  about its whole loop, which `Broker` has.
* `Framing`: `Write` and `ApplicationProtocol`: both processes run and the kernel
  passes on what it holds.
* `StdinReader`: the process' own steps.

**Findings.** Both are runs that end in a counterexample.

* `sigpipe`: a subscriber leaves; two notifications follow before its socket is
  read; the second kills the server with SIGPIPE.
* `stop`: a connection still in the listening queue at exit is told nothing, and
  its process spins on the dead socket.

**Other behaviour worth knowing**, met while modelling; the models contain it
and the properties except it by name:

* A user who leaves and comes straight back is refused: the listening socket is
  served before the end of the old connection (`Server.LoginRefused`).
* A connection that sends no id blocks everybody (`Server`, `pc = "login"`).
* Without a free descriptor the loop retries `accept` for ever and does not see
  the departures that would free one (`Server.AcceptFails`).
* "Subscribed to topic" is printed before the server has read the request; a
  datagram that comes between can be missed (`Subscriber.TypeCommand`).
* A topic with a tab in it is confirmed whole, and noted only up to the tab,
  because `iss >> topic` stops at any white space and `validateMessage` refuses
  spaces only; a topic of tabs alone is noted as the empty one
  (`Server.ScanCommand`, `FirstWord`).
* A subscriber started with an empty id sends a frame of length 0, which the
  server cannot tell from the end of the connection: it sends "shutdown" and
  closes, as it does for an id with a space (`Framing.EmptyId`,
  `Server.LoginInvalid`).
* A receive error inside a frame returns the part received so far as if it were
  the text (`Framing.BodyError`), although `README.md` promises the empty
  string for an error.
* When standard input ends, `fgets` leaves its buffer alone and each round
  strips and looks up one character less; from an empty buffer it writes in
  front of it (`StdinReader.Serve`).
* A handler between `realloc` and the assignment, or inside another handler
  after `free`, uses freed memory (`PollTable.Exposed`); one that interrupts
  `remove` may leave subscribers behind the removed one untold
  (`PollTable.Moving`).

## 4. Proofs

All theorems hold for every value of the constants that satisfies the named
assumptions, which say what kind of thing a constant is and that the values
standing for "none" are none of the others; that the payloads' datagrams are
shorter than the buffer (`DatagramFitsAssumption`); that texts, of which one may
be empty, have a length of two digits and no 0 in them (`TextAssumption`), and
`shutdown` one whose first digit is 0 and which is not 0 (`ShutdownAssumption`: 8
against 256); that the first word of a topic is a topic string
(`FirstWordAssumption`); that `stdin_buffer` is longer than
the longest command by the newline, the 0 and one more byte (`SizeAssumption`:
65 bytes against `unsubscribe` and 51 characters in the subscriber, 8 against
`exit` in the server). None limits how many processes,
users, descriptors, publishers, signals or texts there are, nor the bounds of
the runs. Each specification is proved without fairness.

| module | inductive invariant | theorems about |
|---|---|---|
| `TopicPatternsProofs` | strings have a piece | `MatchIsCoverage`, `StarIncludesPlus`; `MatcherIsCoverage` for any two strings |
| `UserSubscriptionsProofs` | `TypeOK` | `ImplementsInterest` |
| `BrokerProofs` | `Broker!IInv` | `TableExact`, `FdUserBijection`, `RefusalIsSafe`, `TableFits`, `FramesInPlace`, `NothingForgotten` |
| `BrokerProofs` | `Broker!DeliveryInv`, given `IInv` | `InOrder`, `OnlySubscribed`, `FanoutReachesAll`, `StopTellsAll` |
| `BrokerProofs` | `Broker!CommandInv`, given `IInv` | `LogBySessions` |
| `PublishingProofs` | - | `TextDenotes`: what `ManageUdp` makes of any datagram |
| `PublishingProofs` | `Publishing!PInv` | `FailuresAreFinal`, `ManualObeys`, `Conservation`, `AnnouncesWhatWasSent`, `ImplementsWorkload`, `ImplementsArrivals` |
| `PollTableProofs` | `PollTable!IInv` | `DefinedBehaviour`, `StopTellsTable`, `ImplementsFdTable` |
| `FramingProofs` | `Framing!Inv` | `ClosedForCause`, `ImplementsChannel` |
| `StdinProofs` | `StdinReader!Inv` | `PromptAtTerminal`, `EachLineOnce`, `CommandsWereTyped` |

The inductive invariants are defined in the modules of the components and
checked by their runs, so that the same formula is tried by TLC and proved.
(`DeliveryInv` is not listed in a run, as the four properties that follow from
it are; to try it, add it to the invariants of `MCDelivery.cfg`, `MCSessions.cfg`
or `MCTwoUsers.cfg`. `CommandInv` is not listed either: it is `LogBySessions` and
what waits in front of a login; to try it, add it to `MCCommands.cfg`.)

**The matcher.** `RegExMatcher` is a recursive function on pairs of strings.
`Covers` unfolds over the first pieces just as the matcher does
(`CoversUnfolds`, with a lemma for each way of laying a first level), so that
there is a function that fits the recursive definition, and the matcher fits it
too (`MatcherUnfolds`). The provers know no induction over data, but they know
that a set of numbers that is not empty has a least element (`LeastNumber`, from
the library's theorem on well-founded relations): if the matcher and `Covers`
differ for some topic, they differ for one with the fewest levels, and unfolding
both once shows that they do not (`MatcherIsCoverage`). A `/` at the very end
opens no level, which is where the matcher's empty strings and the levels have
to be brought together (`LevelsOfRest`).

**The log.** `LastRequestDecides` says what one more element does to the
backward search: it decides for the topics it matches and leaves the others
alone. With it every step maps to a step of `Interest`. `Match` stays opaque:
the theorem holds for any matcher.

**The sessions.** The properties one wants are `TableExact` (poll table,
descriptors and connections), `FdUserBijection` (descriptors and users),
`TableFits`, `RefusalIsSafe`, `FramesInPlace` and `NothingForgotten`. None is
inductive alone. `IInv == TypeOK /\ SessionInv` is, and adds what the code
relies on silently:

* `ConnfdExact`, `PolledOpen`: the connection being logged in is open, has no
  user, and is the last in the table when `removeLast` is called.
* `QueueExact`: no connection is both queued and accepted, so `accept` never
  brings a second descriptor for one; a branch that takes something finds it.
* `NothingSentYet`: before login nothing was sent on a connection, so the
  process at its other end cannot leave anything unread behind, and the
  refusal cannot meet a reported reset.
* `ProcessExact`, `IntroducedFirst`: the first frame on a connection is its id
  and the rest are commands, because a process sends its id before it reads
  standard input. This is why the id the server read is the process's own
  (`FdUserBijection`) and why no command is read as an id.
* `UsersKnown`: who is logged in is in `userIdSet`; who is not in it has an
  empty log, so that a login as a new user forgets nothing.

There is one lemma for each kind of step. `LoopMove`, `SendKeeps`, `DropKeeps`
and `OneProcess` are shared: moving the loop, sending to a user, giving up a
connection, and a step of one process, which needs facts about that process
only. `NextKeeps` collects them.

**Delivery.** `InOrder` alone is not inductive: that the next notification is
later than all a process has, and not behind a "shutdown", depends on where the
server's loops are. `DeliveryInv` says so, and is inductive given `IInv`:

* `OnlyDue`: what a process has was taken before, and its user asked for it;
  the log keeps that true (`LogsGrow`).
* `ToldLast`: nobody whose connection the server keeps has been told to shut
  down before the server stops. A refused process has, but its descriptor is
  given up in the same step, and `TableExact` leaves it no other.
* `AliveOpen`: as long as the server knows a living process, a send reaches it.
* `Halfway`: in the loop over the users, those still to be served do not have
  the notification and those served have it or are going. That two users never
  share a connection (`FdUserBijection`) keeps one send from serving another.
* `ToldSoFar`: the same for the loop of `freeMemory`.

`EachReceives` says once what a step of the system can do to what one process
has: take away from its end, or add one notification due to it, or "shutdown".
`FanoutReachesAll` and `StopTellsAll` are what `Halfway` and `ToldSoFar` say at
the last step of each loop.

**Commands.** `LogBySessions` asks for an *account* of each log: for every element
its origin, a process and the number of one of its commands. The elements are
what those commands ask for, each process' commands are in order and together,
and none is left out but those that may be lost. It is inductive but for one
thing: when a process is logged in, what waits on its connection must be its id
and then everything it has confirmed. `CommandInv` adds that (`WaitsWhole`). Most
steps are `Quiet`: they note nothing, and on a connection that stays they do
nothing, or add a command at both ends (`AccountStays`). Three are not. A login
begins a session: no element of the log is from a waiting process
(`EnterNotes`). A command that is read and noted makes the account longer by its
own origin (`NotedKeepsAccount`), which is the next of its process because what is
under way is the end of what was confirmed; one that is read and lost was one
that may be (`LostKeepsAccount`). That a descriptor has one user and a connection
one descriptor comes from `IInv`.

**Publishing.** `PInv` adds to the types that the position and the count that a
mode goes by agree with what was sent, at the places where the loops look at
them, and that only an accepted command line leads to sending. `Workload`
follows from it step by step. For `Conservation` the argument is over
`Arrived`, what was taken followed by what is queued: taking moves the border
and leaves it alone, sending appends to it or to `lost`. `ManualObeys` says which
line each datagram sent was chosen by; one more line read adds one place, or
none if it chooses nothing.

**The table.** The list that `FdTable` speaks of is read through `Place`, which
knows how far `memmove` has come. `Consistent` says at each label which of
`nfds`, the entries and the open descriptors are ahead of the others
(`Counters`, `Entries`, `OpenExact`), and that whatever is closed was told or is
gone (`ClosedTold`, `FramesTold`). The latter holds at every instruction, so
whatever a handler interrupts, `StopTellsTable` follows at its last one.

**Framing.** `Aligned`: while nothing is broken, frames lie end to end in the
stream with their bytes in place, the writer stands at the end of the last or
inside of it, and the reader stands in the frame after the last one returned.
What is returned is then that frame's text. It is empty only if the frame is the
first of a subscriber (`EmptyFirst`), and the server has then read its two bytes
and nothing else; once broken, a server's subscriber is gone. That is
`ClosedForCause`.

A break leaves the reader in the wrong place: it may take two bytes of a
`shutdown` for a length. `ImplementsChannel` says that what it returns is a piece
of one text nevertheless, and `Whereabouts` why. `Laid`: frames still lie end to
end, one that was cut ending where the next begins, and behind a cut one there is
nothing but `shutdown`, because only the handler cuts a frame and goes on. From
there on the stream is `Loose`. `ReaderStands`: the reader is at an edge of
frames, or where everything is loose, or at the end; and a text that it reads
reaches the end of the frame in which it begins (`TakesRest`). A length read in a
loose place is 0, or its first byte is not 0 and it is as large as a `shutdown`
or larger (`HeaderTakes`, `LooseBody`): this is where `ShutdownAssumption` is
needed. What the text takes beyond its frame begins with the 0 of the next, and
`std::string` stops there (`Pieces`). `PastIs` says that the frames that count as
past are the first ones, so that each step of the code is one of the channel's
(`StepImplements`).

**Standard input.** `AtTerminal`: each read of a terminal is one whole line, and
stdio holds at most that line while `fgets` runs. `InPlace` is about lines of any
length on any input: what stdio, the kernel and the writer still hold, one
behind the other, is what is left of some line, either all of it or what is
behind some number of full buffers, followed by the lines typed after it. One
`fgets` takes either the rest of that line or one more full buffer of it
(`FgetsTakes`); a full buffer is too long for a command, by `SizeAssumption`, so
that only a rest is acted on (`CommandIsWhole`). `EachLineOnce` and
`CommandsWereTyped` follow. At the end of the input the program looks up what it
finds in its buffer again and again, one character shorter each time;
`BufferIsAPiece` says that it remains a piece of one line.

**Only model-checked.** Liveness, which needs fairness: `WholeFramesRead`,
`ToldStops` and the leads-to properties of the other runs.

## 5. Not modelled

* `convertTo2Decimals`: nothing calls it. `test.py` and the Makefile run the
  program; start-up ends the process at its first error, before there is any
  state to keep.
* *Both directions of a connection waiting for each other.* The server blocks in
  `send` to a subscriber that does not read; when that subscriber is itself
  blocked in `send`, both wait for ever. It needs the kernel's two buffers full
  at once, which takes more commands and notifications than a model of whole
  frames can hold. In `Framing` one direction may block, and the reader goes on.
* *Sends from the handler* do not block, and `malloc`, `free` and `exit` inside
  the handler, which are not async-signal-safe, work as if they were called
  outside.
* *The compiler.* The Makefile asks for no optimisation, so that the instructions
  of `PollTable` are in the order of the source. `memmove` may store in any order.
* *Memory.* `realloc`, `strdup` and `setsockopt` fail where `Faults` says so;
  `malloc` in `sendTcp` and in the matcher, and `push_back`, do not fail.
* *Sizes.* Datagrams are shorter than the receive buffer, and texts shorter than
  the buffers of `sendTcp` and `applicationProtocol`. Commands and notifications
  of such datagrams are; an id is as long as whoever starts the subscriber makes
  it, and a datagram as long as its sender likes. What happens to longer ones is
  not described.
* *The matcher's memory.* `split_at_first_separator` cuts its strings in place, and
  the matcher backtracks with copies made before. `TopicPatterns` computes with
  values, so that a mistake in copying would not show in it.
* *Text.* Addresses, layout, prompts and error messages.
