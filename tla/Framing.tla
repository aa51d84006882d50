------------------------------ MODULE Framing --------------------------------
(***************************************************************************)
(* One direction of a connection, byte by byte: sendTcp, the stream, and   *)
(* applicationProtocol.  The other modules let whole texts travel; this    *)
(* one shows when that is what happens, although send and recv move any    *)
(* number of bytes, and what happens when a signal interrupts sendTcp, a   *)
(* process is killed, or the connection is reset inside a frame.           *)
(*                                                                         *)
(* A text is a sequence of bytes other than 0.  Texts are shorter than the *)
(* buffers of both sides, and memory for them never runs out.  The only    *)
(* empty text that is sent is the id of a subscriber started with one.     *)
(***************************************************************************)
EXTENDS Naturals, Sequences, FiniteSets

CONSTANTS
  Base,        \* values of a byte
  Text,        \* notifications, or a user's id and commands
  Shutdown,    \* the text that ends a subscriber
  Room,        \* bytes that the kernel holds between the two ends
  MaxFrames    \* bound: frames begun on the connection

ASSUME BaseAssumption == Base \in Nat /\ Base > 1
ASSUME TextAssumption ==
  \A t \in Text \cup {Shutdown} :
    t \in Seq(1 .. Base - 1) /\ Len(t) < Base * Base
\* "shutdown" is short: the first byte of its length is 0.
ASSUME ShutdownAssumption == Len(Shutdown) \in 1 .. Base - 1

VARIABLES
  to,          \* who reads, "client" or "server"
  writer,      \* the other: in the "loop", "sending", "stopping", or "closed"
  text, sendLen,            \* in sendTcp: what, and how much is written
  stream,      \* the bytes written so far
  conn,        \* "open", "fin", "reset" to be reported, or "over"
  frames,      \* what was begun, and where in the stream it lies
  broken,      \* a frame was left half written, or the connection reset
  reader,      \* about to "call", in the "body", has "left", or is "stopped"
  taken,       \* how much of the stream was read
  rc, payloadLen, recvLen,  \* in applicationProtocol: bytes of the length, and
               \* of the payload, that were received, and what the length says
  returned     \* texts that it returned, but for empty ones

writing == <<writer, text, sendLen, frames>>
reading == <<reader, taken, rc, payloadLen, recvLen, returned>>
vars == <<to, writing, stream, conn, broken, reading>>

Init ==
  /\ to \in {"client", "server"}
  /\ writer = "loop" /\ text = <<>> /\ sendLen = 0 /\ frames = <<>>
  /\ stream = <<>> /\ conn = "open" /\ broken = FALSE
  /\ reader = "call" /\ taken = 0 /\ rc = 0 /\ payloadLen = 0 /\ recvLen = 0
  /\ returned = <<>>

-----------------------------------------------------------------------------
\* The length in network byte order and the text, which is what sendTcp
\* sends.  (Mutant: in the order of the machine.)
Frame_Swapped(t) == <<Len(t) % Base, Len(t) \div Base>> \o t
Frame(t) == <<Len(t) \div Base, Len(t) % Base>> \o t

InFrame ==
  /\ writer \in {"sending", "stopping"}
  /\ 0 < sendLen /\ sendLen < Len(Frame(text))

\* A subscriber's first text is its id, which may be empty.  Commands and
\* notifications are not.
SendTcp ==
  /\ writer = "loop"
  /\ Len(frames) < MaxFrames
  /\ \E t \in Text : /\ t = <<>> => to = "server" /\ frames = <<>>
                     /\ text' = t
  /\ writer' = "sending" /\ sendLen' = 0
  /\ UNCHANGED <<to, frames, stream, conn, broken, reading>>

\* send takes what there is room for, and the loop comes back with the rest.
\* (Mutant: the loop is left out.)
AllSent_Once(n) == TRUE
AllSent(n) == n = Len(Frame(text))

Write ==
  /\ writer \in {"sending", "stopping"}
  /\ \E n \in 1 .. Len(Frame(text)) - sendLen :
       /\ Len(stream) + n - taken <= Room
       /\ stream' = stream \o SubSeq(Frame(text), sendLen + 1, sendLen + n)
       /\ sendLen' = sendLen + n
       /\ writer' = IF writer = "sending" /\ AllSent(sendLen + n) THEN "loop" ELSE writer
  /\ frames' = IF sendLen > 0 THEN frames
               ELSE Append(frames, [text |-> text, at |-> Len(stream),
                                    end |-> Len(stream) + Len(Frame(text))])
  /\ UNCHANGED <<to, text, conn, broken, reading>>

\* freeMemory, called on "exit" or by the handler: in the middle of a sendTcp
\* as well, that of another freeMemory included.
Interrupt ==
  /\ to = "client"
  /\ writer # "closed"
  /\ Len(frames) < MaxFrames
  /\ writer' = "stopping" /\ text' = Shutdown /\ sendLen' = 0
  /\ broken' = (broken \/ InFrame)
  /\ frames' = IF InFrame THEN [frames EXCEPT ![Len(frames)] = [@ EXCEPT !.end = Len(stream)]]
               ELSE frames
  /\ UNCHANGED <<to, stream, conn, reading>>

\* The writer closes its end: freeMemory is done, a subscriber exits or is
\* interrupted, or the process is killed.
End ==
  /\ writer # "closed"
  /\ writer' = "closed" /\ conn' = "fin"
  /\ broken' = (broken \/ InFrame)
  /\ UNCHANGED <<to, text, sendLen, frames, stream, reading>>

\* A reset: the writer left texts from the reader unread, or the reader sent
\* more of them.  What has not arrived yet does not arrive any more.
Reset ==
  /\ conn = "fin"
  /\ conn' = "reset" /\ broken' = TRUE
  /\ \E n \in taken .. Len(stream) : stream' = SubSeq(stream, 1, n)
  /\ UNCHANGED <<to, writing, reading>>

-----------------------------------------------------------------------------
\* The bytes that have arrived, and some_buffer.
Arrived == Len(stream) - taken
Buffer == SubSeq(stream, taken - recvLen + 1, taken)

\* A buffer as std::string takes it: up to the first 0.
CString(s) ==
  SubSeq(s, 1, Cardinality({i \in DOMAIN s : \A j \in 1 .. i : s[j] # 0}))

\* applicationProtocol returns t.  The server closes the connection on an
\* empty text, the subscriber ignores it.
Return(t) ==
  /\ returned' = IF t = <<>> THEN returned ELSE Append(returned, t)
  /\ reader' = CASE to = "client" /\ t = Shutdown -> "stopped"
                 [] to = "server" /\ t = <<>>     -> "left"
                 [] OTHER                         -> "call"

Header ==
  /\ reader = "call" /\ Arrived >= 2
  /\ payloadLen' = stream[taken + 1] * Base + stream[taken + 2]
  /\ taken' = taken + 2 /\ rc' = 2 /\ recvLen' = 0 /\ reader' = "body"
  /\ UNCHANGED <<to, writing, stream, conn, broken, returned>>

\* The end comes within the length: its second byte is not initialized.
HeaderHalf ==
  /\ reader = "call" /\ Arrived = 1 /\ conn # "open"
  /\ \E junk \in 0 .. Base - 1 : payloadLen' = stream[taken + 1] * Base + junk
  /\ taken' = taken + 1 /\ rc' = 1 /\ recvLen' = 0 /\ reader' = "body"
  /\ UNCHANGED <<to, writing, stream, conn, broken, returned>>

HeaderNone ==
  /\ reader = "call" /\ Arrived = 0 /\ conn # "open"
  /\ Return(<<>>)
  /\ conn' = IF conn = "reset" THEN "over" ELSE conn
  /\ UNCHANGED <<to, writing, stream, broken, taken, rc, payloadLen, recvLen>>

\* What recv is asked for in the loop.  (Mutant: for all of the payload again.)
Wanted_All == payloadLen
Wanted == payloadLen - recvLen

Body ==
  /\ reader = "body" /\ recvLen # payloadLen
  /\ \E n \in 1 .. Wanted :
       /\ n <= Arrived
       /\ taken' = taken + n /\ recvLen' = recvLen + n
  /\ UNCHANGED <<to, writing, stream, conn, broken, reader, rc, payloadLen, returned>>

BodyDone ==
  /\ reader = "body" /\ recvLen = payloadLen
  /\ Return(CString(Buffer))
  /\ UNCHANGED <<to, writing, stream, conn, broken, taken, rc, payloadLen, recvLen>>

BodyEnd ==
  /\ reader = "body" /\ recvLen # payloadLen
  /\ Arrived = 0 /\ conn \in {"fin", "over"}
  /\ Return(<<>>)
  /\ UNCHANGED <<to, writing, stream, conn, broken, taken, rc, payloadLen, recvLen>>

\* An error ends the loop, and what has been received is returned.
BodyError ==
  /\ reader = "body" /\ recvLen # payloadLen
  /\ Arrived = 0 /\ conn = "reset"
  /\ Return(CString(Buffer))
  /\ conn' = "over"
  /\ UNCHANGED <<to, writing, stream, broken, taken, rc, payloadLen, recvLen>>

ApplicationProtocol ==
  \/ Header \/ HeaderHalf \/ HeaderNone
  \/ Body \/ BodyDone \/ BodyEnd \/ BodyError

Next == SendTcp \/ Write \/ Interrupt \/ End \/ Reset \/ ApplicationProtocol

Spec == Init /\ [][Next]_vars

\* Both processes run on, and the kernel passes on what it holds.  Nobody has
\* to send anything, to stop or to be reset.
FairSpec == Spec /\ WF_vars(Write) /\ WF_vars(ApplicationProtocol)

-----------------------------------------------------------------------------
TypeOK ==
  /\ to \in {"client", "server"}
  /\ writer \in {"loop", "sending", "stopping", "closed"}
  /\ writer \in {"sending", "stopping"} => text \in Text \cup {Shutdown}
  /\ sendLen \in Nat
  /\ stream \in Seq(0 .. Base - 1)
  /\ conn \in {"open", "fin", "reset", "over"}
  /\ frames \in Seq([text : Text \cup {Shutdown}, at : Nat, end : Nat])
  /\ broken \in BOOLEAN
  /\ reader \in {"call", "body", "left", "stopped"}
  /\ taken \in 0 .. Len(stream)
  /\ rc \in 0 .. 2 /\ payloadLen \in Nat /\ recvLen \in 0 .. taken
  /\ returned \in Seq(Seq(0 .. Base - 1))

\* Texts arrive whole and in order.  Only when a frame was left half written,
\* or the connection was reset, may they be missed or cut: what follows a half
\* frame is never joined to it, although it stands where the reader looks for
\* the rest.
Begun == [i \in 1 .. Len(frames) |-> frames[i].text]

\* Where the text begins that is being read, or the next one.
Position == taken - (IF reader = "body" THEN rc + recvLen ELSE 0)

Past == Cardinality({i \in DOMAIN frames : frames[i].end <= Position \/ conn = "over"})

C == INSTANCE FrameChannel
       WITH Texts <- Text \cup {Shutdown}, sent <- Begun, passed <- Past,
            received <- returned

ImplementsChannel == C!Spec

\* The server closes a connection on an empty text, whether that is the end of
\* the stream, an error or a length of 0.  The subscriber is gone then, or
\* it sent an empty id, and nothing was read but this.
EmptyId == frames # <<>> /\ frames[1].text = <<>>

ClosedForCause == reader = "left" => writer = "closed" \/ (EmptyId /\ taken = 2)

\* A frame that was written whole is read, unless the connection breaks, the
\* reader has stopped, or closed the connection of a subscriber with no id.
Written(i) == i <= Len(frames) /\ frames[i].end <= Len(stream)

WholeFramesRead ==
  \A i \in 1 .. MaxFrames :
    Written(i) ~> \/ Len(returned) >= i \/ broken \/ reader = "stopped"
                  \/ reader = "left" /\ EmptyId

\* A subscriber that was told to shut down stops, unless the signal fell into
\* a frame that was being sent to it, or its connection is reset.
ToldStops ==
  (/\ writer = "closed" /\ text = Shutdown /\ sendLen = Len(Frame(Shutdown)))
    ~> reader = "stopped" \/ broken
-----------------------------------------------------------------------------
(***************************************************************************)
(* The invariant, in parts: while nothing breaks, frames lie end to end in *)
(* the stream, and the reader knows where it is.                           *)
(***************************************************************************)

\* Where a frame ends, or the stream begins.
Edge(i) == IF i = 0 THEN 0 ELSE frames[i].end

EndToEnd ==
  \A i \in 1 .. Len(frames) :
    /\ frames[i].at = Edge(i - 1)
    /\ frames[i].end = frames[i].at + Len(Frame(frames[i].text))
    /\ i < Len(frames) => frames[i].end <= frames[Len(frames)].at

InStream ==
  \A i \in 1 .. Len(frames) : \A j \in 1 .. Len(Frame(frames[i].text)) :
    frames[i].at + j <= Len(stream) =>
      stream[frames[i].at + j] = Frame(frames[i].text)[j]

\* Only the last frame may be under way.
UnderWay == writer \in {"sending", "stopping"} /\ sendLen > 0

WriterPlace ==
  /\ ~UnderWay => Len(stream) = Edge(Len(frames))
  /\ UnderWay =>
       /\ Len(frames) > 0 /\ frames[Len(frames)].text = text
       /\ Len(stream) = frames[Len(frames)].at + sendLen
       /\ sendLen <= Len(Frame(text))
  /\ conn = IF writer = "closed" THEN "fin" ELSE "open"

\* The only empty text is a subscriber's first.
EmptyFirst ==
  /\ \A i \in 1 .. Len(frames) : frames[i].text = <<>> => to = "server" /\ i = 1
  /\ writer \in {"sending", "stopping"} /\ text = <<>> =>
       to = "server" /\ (sendLen = 0 => frames = <<>>)

\* What was returned is what was begun first.
ReaderPlace ==
  LET n == Len(returned) IN
  /\ n <= Len(frames)
  /\ \A i \in 1 .. n : returned[i] = frames[i].text
  /\ reader \in {"call", "stopped"} => taken = Edge(n)
  /\ reader = "body" =>
       /\ n < Len(frames) /\ rc = 2
       /\ payloadLen = Len(frames[n + 1].text) /\ recvLen <= payloadLen
       /\ taken = frames[n + 1].at + 2 + recvLen
  /\ ClosedForCause

Aligned ==
  /\ EmptyFirst
  /\ ~broken => EndToEnd /\ InStream /\ WriterPlace /\ ReaderPlace
  /\ to = "server" /\ broken => writer = "closed"

-----------------------------------------------------------------------------
(***************************************************************************)
(* The invariant that holds when something is broken too: every byte of    *)
(* the stream still belongs to a frame, only frames of Shutdown follow one *)
(* that was cut, and a text that the reader is reading reaches the end of  *)
(* the frame where it begins and stops at the 0 that begins the next.      *)
(***************************************************************************)

\* Frame i was not, and will not be, written to its end.
Cut(i) == frames[i].end < frames[i].at + Len(Frame(frames[i].text))

\* Nothing but Shutdown is still to be begun.
Stopping == writer = "closed" \/ (writer = "stopping" /\ text = Shutdown)

Laid ==
  \A i \in 1 .. Len(frames) :
    /\ frames[i].at = Edge(i - 1)
    /\ frames[i].at < frames[i].end
    /\ frames[i].end <= frames[i].at + Len(Frame(frames[i].text))
    /\ \A j \in 1 .. frames[i].end - frames[i].at :
         frames[i].at + j <= Len(stream) =>
           stream[frames[i].at + j] = Frame(frames[i].text)[j]
    /\ \A k \in i + 1 .. Len(frames) : frames[i].end <= frames[k].at
    /\ Cut(i) => Stopping /\ \A k \in i + 1 .. Len(frames) : frames[k].text = Shutdown

WriterStands ==
  /\ writer = "stopping" => text = Shutdown
  /\ conn = "open" <=> writer # "closed"
  /\ Len(stream) <= Edge(Len(frames))
  /\ writer # "closed" /\ ~UnderWay => Len(stream) = Edge(Len(frames))
  /\ UnderWay =>
       /\ Len(frames) > 0 /\ frames[Len(frames)].text = text /\ ~Cut(Len(frames))
       /\ Len(stream) = frames[Len(frames)].at + sendLen
       /\ sendLen <= Len(Frame(text))

AtEdge(p) == \E i \in 0 .. Len(frames) : p = Edge(i)

\* Behind p nothing but Shutdown is or will be.
Loose(p) ==
  Stopping /\ \A i \in 1 .. Len(frames) : frames[i].end > p => frames[i].text = Shutdown

\* There is nothing to be read any more.
Drained == conn # "open" /\ taken = Len(stream)

\* A text of length n that begins after p takes the rest of its frame, or is
\* empty.
TakesRest(p, n) ==
  \/ Loose(p) /\ n = 0
  \/ AtEdge(p) /\ (Loose(p) \/ n = 0)
  \/ \E i \in 1 .. Len(frames) :
       /\ frames[i].at <= p /\ p < frames[i].end /\ frames[i].end - p <= n
       /\ frames[i].end - p < n => Loose(frames[i].end)

ReaderStands ==
  /\ reader = "call" => AtEdge(taken) \/ Loose(taken) \/ Drained
  /\ reader = "body" =>
       /\ conn # "over" /\ recvLen <= payloadLen /\ rc > 0 /\ rc + recvLen <= taken
       /\ (recvLen = 0 /\ Drained) \/ TakesRest(taken - recvLen, payloadLen)
  /\ conn = "over" => Drained

Whereabouts == Laid /\ WriterStands /\ ReaderStands

\* The inductive invariant: while nothing breaks the reader stands where the
\* writer's frames say, however send and recv cut the stream, and what was
\* returned is what was begun first; when something is broken, what it reads
\* still belongs to one frame.
Inv == TypeOK /\ Aligned /\ Whereabouts /\ ClosedForCause
==============================================================================
