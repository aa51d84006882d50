------------------------------ MODULE PollTable ------------------------------
(***************************************************************************)
(* The server's poll table, pollAdjustable, instruction by instruction,    *)
(* and the signal handler that tells everybody in it to shut down and ends *)
(* the process.  The handler may come between any two instructions of the  *)
(* main loop, and of another signal's handler.                             *)
(*                                                                         *)
(* Entries 0 to 2 of the table (standard input, listening and UDP socket)  *)
(* never change; what they hold is left out.  The Makefile does not let    *)
(* the compiler reorder: instructions are in the order of the source.      *)
(***************************************************************************)
EXTENDS Naturals, Sequences

CONSTANTS
  Fd,        \* descriptors that connections may get
  Junk,      \* what an entry holds that was never written
  Signal,    \* signals that shutdown_server handles
  Main       \* stands for the main loop among the signals

ASSUME FdAssumption == Fd \subseteq Nat /\ Junk \notin Fd
ASSUME MainAssumption == Main \notin Signal

VARIABLES
  pollfds,   \* what the pointer points to: "table", "freed" memory, or "null"
  memory,    \* the entries of the table from index 3 on
  nfds, maxSize,
  connfd,    \* the connection being added
  loaded,    \* what memmove still has to store, by index
  open,      \* descriptors in use
  peer,      \* the subscriber behind a descriptor: "there", "gone", or "reset"
  told,      \* who was there to be told to shut down
  stack,     \* the main loop and the handlers that interrupted each other
  status     \* "running", or how the process ended

vars == <<pollfds, memory, nfds, maxSize, connfd, loaded, open, peer, told,
          stack, status>>

world == <<open, peer, told>>
block == <<pollfds, memory, maxSize>>

\* Where the main loop may be, and where freeMemory may be.
Loop == {"poll", "nodelay", "grow", "assign", "fill", "count", "login",
         "closeLast", "uncountLast", "uncount", "close", "load", "store"}
FreeMemory == {"tell", "closeAll", "free", "null", "zero"}

Frame == [signal : Signal \cup {Main}, at : Loop \cup FreeMemory, i : Nat]

Top == stack[Len(stack)]

\* The running code is at a label of the source, and goes on to another.
At(label) == status = "running" /\ Top.at = label
Go(label, i) ==
  stack' = [stack EXCEPT ![Len(stack)] = [signal |-> Top.signal, at |-> label, i |-> i]]

Init ==
  /\ pollfds = "table" /\ memory = [k \in 3 .. 3 |-> Junk]
  /\ nfds = 3 /\ maxSize = 4
  /\ connfd = Junk /\ loaded = <<>>
  /\ open = {} /\ peer = [f \in Fd |-> "gone"] /\ told = {}
  /\ stack = <<[signal |-> Main, at |-> "poll", i |-> 3]>>
  /\ status = "running"

-----------------------------------------------------------------------------
\* sendTcp.  A second text to a subscriber that is gone raises SIGPIPE.
Send(f) ==
  /\ \/ f \in open /\ peer[f] = "there" /\ UNCHANGED <<peer, status>>
     \/ f \in open /\ peer[f] = "gone" /\ UNCHANGED status
        /\ \E answer \in {"gone", "reset"} : peer' = [peer EXCEPT ![f] = answer]
     \/ f \in open /\ peer[f] = "reset" /\ UNCHANGED peer /\ status' = "killed"
     \/ f \notin open /\ UNCHANGED <<peer, status>>
  /\ UNCHANGED open

\* sendTcp(f, "shutdown").
Tell(f) ==
  /\ Send(f)
  /\ told' = IF f \in open /\ peer[f] = "there" THEN told \cup {f} ELSE told

\* The process reads through pollfds although there is no table.
BadAccess ==
  /\ pollfds # "table"
  /\ status' = IF pollfds = "null" THEN "killed" ELSE "undefined"
  /\ UNCHANGED <<block, nfds, connfd, loaded, world, stack>>

-----------------------------------------------------------------------------
\* addFd has to make room first.  (Mutant: it does so one entry too late.)
Full_Late == nfds > maxSize
Full == nfds = maxSize

Accept ==
  /\ At("poll")
  /\ \E f \in Fd \ open, who \in {"there", "gone"} :
       /\ \A g \in Fd \ open : f <= g
       /\ connfd' = f /\ open' = open \cup {f}
       /\ peer' = [peer EXCEPT ![f] = who]
       /\ told' = told \ {f}
  /\ Go("nodelay", 3)
  /\ UNCHANGED <<block, nfds, loaded, status>>

\* setsockopt fails: the newcomer is let go, and told nothing.
SetsockoptFails ==
  /\ At("nodelay")
  /\ open' = open \ {connfd}
  /\ Go("poll", 3)
  /\ UNCHANGED <<block, nfds, connfd, loaded, peer, told, status>>

\* It does not, and addFd begins.
AddFd ==
  /\ At("nodelay")
  /\ Go(IF Full THEN "grow" ELSE "fill", 3)
  /\ UNCHANGED <<block, nfds, connfd, loaded, world, status>>

\* realloc; the old table is freed unless it could grow where it is.
Grow ==
  /\ At("grow")
  /\ memory' = [k \in 3 .. 2 * maxSize - 1 |->
                  IF k < maxSize THEN memory[k] ELSE Junk]
  /\ pollfds' \in {"table", "freed"}
  /\ Go("assign", 3)
  /\ UNCHANGED <<nfds, maxSize, connfd, loaded, world, status>>

\* No memory: the newcomer is told and let go.
GrowFails ==
  /\ At("grow")
  /\ open' = open \ {connfd}
  /\ told' = IF peer[connfd] = "there" THEN told \cup {connfd} ELSE told
  /\ Go("poll", 3)
  /\ UNCHANGED <<block, nfds, connfd, loaded, peer, status>>

\* pollfds = temp, and the new length, which no handler looks at.  (Mutant:
\* the length is forgotten.)
AssignedLength_Same == maxSize
AssignedLength == 2 * maxSize

Assign ==
  /\ At("assign")
  /\ pollfds' = "table" /\ maxSize' = AssignedLength
  /\ Go("fill", 3)
  /\ UNCHANGED <<memory, nfds, connfd, loaded, world, status>>

Fill ==
  /\ At("fill")
  /\ IF nfds \in DOMAIN memory
     THEN memory' = [memory EXCEPT ![nfds] = connfd] /\ status' = status
     ELSE memory' = memory /\ status' = "undefined"
  /\ Go("count", 3)
  /\ UNCHANGED <<pollfds, nfds, maxSize, connfd, loaded, world>>

Count ==
  /\ At("count")
  /\ nfds' = nfds + 1
  /\ Go("login", 3)
  /\ UNCHANGED <<block, connfd, loaded, world, status>>

\* The login is decided: the subscriber stays, or is told and removeLast
\* called.
LoggedIn ==
  /\ At("login")
  /\ Go("poll", 3)
  /\ UNCHANGED <<block, nfds, connfd, loaded, world, status>>

Refused ==
  /\ At("login")
  /\ Tell(connfd)
  /\ Go("closeLast", 3)
  /\ UNCHANGED <<block, nfds, connfd, loaded>>

CloseLast ==
  /\ At("closeLast")
  /\ open' = open \ {connfd}
  /\ Go("uncountLast", 3)
  /\ UNCHANGED <<block, nfds, connfd, loaded, peer, told, status>>

UncountLast ==
  /\ At("uncountLast")
  /\ nfds' = nfds - 1
  /\ Go("poll", 3)
  /\ UNCHANGED <<block, connfd, loaded, world, status>>

-----------------------------------------------------------------------------
\* remove(pollfds[i].fd), for a subscriber that is gone.
Depart ==
  /\ At("poll")
  /\ \E i \in 3 .. nfds - 1 : peer[memory[i]] # "there" /\ Go("uncount", i)
  /\ UNCHANGED <<block, nfds, connfd, loaded, world, status>>

Uncount ==
  /\ At("uncount")
  /\ nfds' = nfds - 1
  /\ Go("close", Top.i)
  /\ UNCHANGED <<block, connfd, loaded, world, status>>

Close ==
  /\ At("close")
  /\ open' = open \ {memory[Top.i]}
  /\ Go("load", Top.i)
  /\ UNCHANGED <<block, nfds, connfd, loaded, peer, told, status>>

\* memmove reads the entries behind, and writes them one place further up in
\* an order of its own.  (Mutant: it starts one entry too far.)
Behind_Off(i) == [k \in i + 1 .. nfds - 1 |-> memory[k + 1]]
Behind(i) == [k \in i .. nfds - 1 |-> memory[k + 1]]

Load ==
  /\ At("load")
  /\ loaded' = Behind(Top.i)
  /\ Go("store", Top.i)
  /\ UNCHANGED <<block, nfds, connfd, world, status>>

Store ==
  /\ At("store")
  /\ \E k \in DOMAIN loaded :
       /\ memory' = [memory EXCEPT ![k] = loaded[k]]
       /\ loaded' = [n \in DOMAIN loaded \ {k} |-> loaded[n]]
  /\ UNCHANGED <<pollfds, nfds, maxSize, connfd, world, stack, status>>

Stored ==
  /\ At("store")
  /\ DOMAIN loaded = {}
  /\ Go("poll", 3)
  /\ UNCHANGED <<block, nfds, connfd, loaded, world, status>>

-----------------------------------------------------------------------------
\* Where freeMemory begins to tell subscribers.  (Mutant: one too far.)
FirstTold_Second == 4
FirstTold == 3

\* "exit" on standard input calls freeMemory, and so does the handler.
Exit ==
  /\ At("poll")
  /\ Go("tell", FirstTold)
  /\ UNCHANGED <<block, nfds, connfd, loaded, world, status>>

Caught(s) ==
  /\ status = "running"
  /\ \A j \in DOMAIN stack : stack[j].signal # s
  /\ stack' = Append(stack, [signal |-> s, at |-> "tell", i |-> FirstTold])
  /\ UNCHANGED <<block, nfds, connfd, loaded, world, status>>

TellNext ==
  /\ At("tell") /\ Top.i < nfds
  /\ \/ BadAccess
     \/ /\ pollfds = "table"
        /\ Tell(memory[Top.i])
        /\ Go("tell", Top.i + 1)
        /\ UNCHANGED <<block, nfds, connfd, loaded>>

TellDone ==
  /\ At("tell") /\ Top.i >= nfds
  /\ Go("closeAll", 1)
  /\ UNCHANGED <<block, nfds, connfd, loaded, world, status>>

\* Entries 1 and 2 are the server's own sockets.
CloseNext ==
  /\ At("closeAll") /\ Top.i < nfds
  /\ \/ BadAccess
     \/ /\ pollfds = "table"
        /\ open' = IF Top.i < 3 THEN open ELSE open \ {memory[Top.i]}
        /\ Go("closeAll", Top.i + 1)
        /\ UNCHANGED <<block, nfds, connfd, loaded, peer, told, status>>

CloseDone ==
  /\ At("closeAll") /\ Top.i >= nfds
  /\ Go("free", 3)
  /\ UNCHANGED <<block, nfds, connfd, loaded, world, status>>

Free ==
  /\ At("free")
  /\ pollfds' = IF pollfds = "table" THEN "freed" ELSE pollfds
  /\ status' = IF pollfds = "freed" THEN "undefined" ELSE status
  /\ Go("null", 3)
  /\ UNCHANGED <<memory, maxSize, nfds, connfd, loaded, world>>

Null ==
  /\ At("null")
  /\ pollfds' = "null"
  /\ Go("zero", 3)
  /\ UNCHANGED <<memory, maxSize, nfds, connfd, loaded, world, status>>

\* The counters, and then exit(1), or the end of main.
Zero ==
  /\ At("zero")
  /\ nfds' = 0 /\ maxSize' = 0
  /\ status' = "exited"
  /\ UNCHANGED <<pollfds, memory, connfd, loaded, world, stack>>

-----------------------------------------------------------------------------
\* A notification goes to a subscriber.
Notify ==
  /\ At("poll")
  /\ \E k \in 3 .. nfds - 1 : Send(memory[k])
  /\ UNCHANGED <<block, nfds, connfd, loaded, told, stack>>

\* A subscriber ends.
Vanish(f) ==
  /\ status = "running"
  /\ f \in open /\ peer[f] = "there"
  /\ peer' = [peer EXCEPT ![f] = "gone"]
  /\ UNCHANGED <<block, nfds, connfd, loaded, open, told, stack, status>>

LoopStep ==
  \/ Accept \/ SetsockoptFails \/ AddFd
  \/ Grow \/ GrowFails \/ Assign \/ Fill \/ Count
  \/ LoggedIn \/ Refused \/ CloseLast \/ UncountLast
  \/ Depart \/ Uncount \/ Close \/ Load \/ Store \/ Stored
  \/ Notify \/ Exit

FreeMemoryStep ==
  \/ TellNext \/ TellDone \/ CloseNext \/ CloseDone \/ Free \/ Null \/ Zero

Next ==
  \/ LoopStep \/ FreeMemoryStep
  \/ \E s \in Signal : Caught(s)
  \/ \E f \in Fd : Vanish(f)

Spec == Init /\ [][Next]_vars

-----------------------------------------------------------------------------
\* The length of the block that memory stands for.
Allocated == IF stack[1].at = "assign" THEN 2 * maxSize ELSE maxSize

TypeOK ==
  /\ pollfds \in {"table", "freed", "null"}
  /\ status = "running" => memory \in [3 .. Allocated - 1 -> Fd \cup {Junk}]
  /\ nfds \in Nat /\ maxSize \in Nat
  /\ connfd \in Fd \cup {Junk}
  /\ \A k \in DOMAIN loaded : k \in Nat /\ loaded[k] \in Fd
  /\ open \subseteq Fd /\ told \subseteq Fd
  /\ peer \in [Fd -> {"there", "gone", "reset"}]
  /\ stack \in Seq(Frame) /\ stack # <<>>
  /\ status \in {"running", "exited", "killed", "undefined"}

\* Removing an entry counts from nfds--, adding one from nfds++: the table
\* that the rest of the server works with.
Place(k) ==
  LET at == stack[1].at  i == stack[1].i IN
  IF at \in {"close", "load"} /\ k >= i THEN memory[k + 1]
  ELSE IF at = "store" /\ k \in DOMAIN loaded THEN loaded[k]
  ELSE memory[k]

Table == [k \in 1 .. (IF nfds < 3 THEN 0 ELSE nfds - 3) |-> Place(k + 2)]

\* Entries move and are counted one instruction at a time, but to the loop,
\* to which only whole calls return, descriptors join at the end and leave
\* from their place, never one twice.
T == INSTANCE FdTable WITH table <- Table

ImplementsFdTable == T!Spec

\* When the process ends in good order, every subscriber in the table that is
\* still there was told, however many signals came and whatever they
\* interrupted; except for those behind an entry that was just being removed.
Moving(k) == stack[1].at \in {"close", "load", "store"} /\ k >= stack[1].i

ToldOrGone(f) == f \in told \/ peer[f] # "there"

StopTellsTable ==
  [][status' = "exited" =>
       \A k \in 3 .. nfds - 1 : ToldOrGone(Place(k)) \/ Moving(k)]_vars

\* The handler works on memory that is not the table's only if it came
\* between realloc and the assignment, or interrupted another one between
\* free and the end.
Exposed(frame) == frame.at \in {"assign", "null"}

DefinedBehaviour ==
  status = "undefined" => \E j \in 1 .. Len(stack) - 1 : Exposed(stack[j])
-----------------------------------------------------------------------------
(***************************************************************************)
(* The invariant, in parts: how counters, entries, descriptors and what    *)
(* subscribers were told agree at every instruction.                       *)
(***************************************************************************)

\* Only handlers lie above the main loop.
StackShape ==
  \A j \in 1 .. Len(stack) :
    /\ stack[j].i >= 1 /\ (stack[j].at # "closeAll" => stack[j].i >= 3)
    /\ j > 1 => stack[j].at \in FreeMemory

Counters ==
  LET at == stack[1].at  i == stack[1].i IN
  /\ 3 <= nfds /\ nfds <= maxSize /\ 4 <= maxSize
  /\ at \in {"grow", "assign"} => nfds = maxSize
  /\ at \in {"fill", "count", "close", "load", "store"} => nfds < maxSize
  /\ at \in {"login", "closeLast", "uncountLast"} => 3 < nfds
  /\ at = "uncount" => i < nfds
  /\ at \in {"close", "load", "store"} => i <= nfds
  /\ at = "store" => DOMAIN loaded \subseteq i .. nfds - 1

\* Entries are written, and none twice in the table.
Entries ==
  LET at == stack[1].at  i == stack[1].i IN
  /\ \A k \in 3 .. nfds - 1 : memory[k] \in Fd /\ Place(k) \in Fd
  /\ \A k, l \in 3 .. nfds - 1 : Place(k) = Place(l) => k = l
  /\ at = "count" => memory[nfds] = connfd
  /\ at \in {"login", "closeLast", "uncountLast"} => memory[nfds - 1] = connfd
  /\ at \in {"nodelay", "grow", "assign", "fill", "count"} =>
       connfd \in Fd /\ \A k \in 3 .. nfds - 1 : memory[k] # connfd
  /\ at = "close" => memory[i] \in Fd /\ \A k \in 3 .. nfds - 1 : Place(k) # memory[i]

\* While the loop goes on, the descriptors in the table are open, and so is
\* the one being added; the next to be accepted is none of them.
OpenExact ==
  LET at == stack[1].at IN
  Len(stack) = 1 /\ at \in Loop =>
    /\ \A k \in 3 .. nfds - 1 :
         Place(k) \in open \/ (at = "uncountLast" /\ k = nfds - 1)
    /\ at \in {"nodelay", "grow", "assign", "fill", "count"} => connfd \in open

\* What is closed was told before, or is gone.
ClosedTold ==
  LET at == stack[1].at IN
  /\ \A k \in 3 .. nfds - 1 : memory[k] \in open \/ ToldOrGone(memory[k])
  /\ at \in {"uncount", "close"} => peer[memory[stack[1].i]] # "there"
  /\ at \in {"closeLast", "uncountLast"} => ToldOrGone(connfd)

\* How far each freeMemory has come.
FramesTold ==
  \A j \in 1 .. Len(stack) : \A k \in 3 .. nfds - 1 :
    \/ stack[j].at = "tell" /\ k < stack[j].i
    \/ stack[j].at \in {"closeAll", "free", "null", "zero"}
    => ToldOrGone(memory[k])

FreedKnown == pollfds = "freed" => \E j \in 1 .. Len(stack) : Exposed(stack[j])

Consistent ==
  status = "running" =>
    /\ StackShape /\ Counters /\ Entries /\ OpenExact /\ ClosedTold /\ FramesTold
    /\ FreedKnown

\* The inductive invariant: types, and the table can be told to shut down at
\* every instruction, but for what DefinedBehaviour and StopTellsTable except.
IInv == TypeOK /\ Consistent
==============================================================================
