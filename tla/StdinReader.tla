----------------------------- MODULE StdinReader -----------------------------
(***************************************************************************)
(* Standard input as the loops of the server and of a subscriber read it:  *)
(* poll looks at the descriptor, fgets at the buffer of stdio, and the     *)
(* last character of what fgets returns is taken for the newline.          *)
(*                                                                         *)
(* The server knows only "exit" and reads 8 bytes, the subscriber knows    *)
(* "subscribe" and "unsubscribe" also and reads 65; each of these words is *)
(* one letter here.                                                        *)
(***************************************************************************)
EXTENDS Naturals, Sequences, SequencesExt

CONSTANTS
  Size,        \* what fgets may fill, with the final 0
  Exit,        \* the word "exit"
  Word,        \* "subscribe", "unsubscribe", or nothing
  Letter,      \* the other characters, with " " and "/"
  MaxMessage,  \* how long what follows a word may be
  Line,        \* what is typed, or written to the file or the pipe
  Junk,        \* what the buffer may hold at first
  MaxLines     \* bound: lines in one history

NewLine == "newline"
Char == Letter \cup Word \cup {Exit}
Text == Seq(Char)

\* The buffer holds the longest command, its newline and the final 0, and one
\* character more, which keeps the first part of a line that is too long from
\* being one: 65 bytes for 11 + 51 characters, and 8 for "exit".
ASSUME SizeAssumption == Size \in Nat /\ Size >= MaxMessage + 4
ASSUME MessageAssumption == MaxMessage \in Nat
ASSUME LineAssumption == Line \subseteq Text /\ Junk \subseteq Text
ASSUME NewLineAssumption == NewLine \notin Char
ASSUME MaxLinesAssumption == MaxLines \in Nat

VARIABLES
  kind,      \* standard input is a "terminal", a "pipe" or a "file"
  typed,     \* the lines so far
  unwritten, \* what is still to be written of the last one, or never was
  kernel,    \* what each read will return; an empty one is an end of file
  closed,    \* nobody can write to the pipe any more
  pc,        \* in "poll", in "fgets", "stopped" by "exit", or "undefined"
  stdio,     \* read but not returned by fgets yet
  eof,       \* the end-of-file indicator of stdin
  buffer,    \* stdin_buffer, up to its first 0
  junk,      \* and what that was at first
  underflow, \* a 0 was written in front of the buffer
  done,      \* the texts that were acted on
  waiting    \* something waits on another descriptor

source == <<kind, typed, unwritten, closed, junk>>
vars == <<source, kernel, pc, stdio, eof, buffer, underflow, done, waiting>>

-----------------------------------------------------------------------------
\* validateMessage, of what follows the word.  (Mutant: of any length.)
ValidateMessage_AnyLength(s) ==
  /\ s # <<>> /\ s[1] = " "
  /\ \A i \in 2 .. Len(s) : s[i] # " " /\ ~(i < Len(s) /\ s[i] = "/" /\ s[i + 1] = "/")
  /\ Last(s) # " "

ValidateMessage(s) ==
  /\ Len(s) <= MaxMessage
  /\ s # <<>> /\ s[1] = " "
  /\ \A i \in 2 .. Len(s) : s[i] # " " /\ ~(i < Len(s) /\ s[i] = "/" /\ s[i + 1] = "/")
  /\ Last(s) # " "

\* A text that the process does something about.
Command(t) ==
  \/ t = <<Exit>>
  \/ t # <<>> /\ t[1] \in Word /\ ValidateMessage(Tail(t))

Init ==
  /\ kind \in {"terminal", "pipe", "file"}
  /\ typed = <<>> /\ unwritten = <<>> /\ kernel = <<>> /\ closed = FALSE
  /\ pc = "poll" /\ stdio = <<>> /\ eof = FALSE
  /\ buffer \in Junk /\ junk = buffer /\ underflow = FALSE
  /\ done = <<>> /\ waiting = FALSE

-----------------------------------------------------------------------------
\* A line is typed: read returns it by itself.
Type ==
  /\ kind = "terminal"
  /\ Len(typed) < MaxLines
  /\ \E l \in Line : typed' = Append(typed, l) /\ kernel' = Append(kernel, Append(l, NewLine))
  /\ UNCHANGED <<kind, unwritten, closed, junk, pc, stdio, eof, buffer, underflow, done, waiting>>

\* Control-D at the beginning of a line.  More can be typed afterwards.
TypeEnd ==
  /\ kind = "terminal"
  /\ ~eof /\ <<>> \notin Range(kernel)
  /\ kernel' = Append(kernel, <<>>)
  /\ UNCHANGED <<source, pc, stdio, eof, buffer, underflow, done, waiting>>

\* A pipe is written in any pieces, and read returns all that is there.  A
\* file is written before the process starts.
Begin ==
  /\ kind # "terminal" /\ ~closed
  /\ Len(typed) < MaxLines /\ unwritten = <<>>
  /\ \E l \in Line : typed' = Append(typed, l) /\ unwritten' = Append(l, NewLine)
  /\ UNCHANGED <<kind, kernel, closed, junk, pc, stdio, eof, buffer, underflow, done, waiting>>

There == IF kernel = <<>> THEN <<>> ELSE Head(kernel)

Write ==
  /\ unwritten # <<>> /\ ~closed
  /\ \E n \in 1 .. Len(unwritten) :
       /\ unwritten' = SubSeq(unwritten, n + 1, Len(unwritten))
       /\ kernel' = <<There \o SubSeq(unwritten, 1, n)>>
  /\ UNCHANGED <<kind, typed, closed, junk, pc, stdio, eof, buffer, underflow, done, waiting>>

CloseWriter ==
  /\ kind # "terminal" /\ ~closed
  /\ closed' = TRUE
  /\ UNCHANGED <<kind, typed, unwritten, kernel, junk, pc, stdio, eof, buffer, underflow, done, waiting>>

\* A socket has something to read.
SomethingElse ==
  /\ ~waiting /\ waiting' = TRUE
  /\ UNCHANGED <<source, kernel, pc, stdio, eof, buffer, underflow, done>>

Environment == Type \/ TypeEnd \/ Begin \/ Write \/ CloseWriter \/ SomethingElse

-----------------------------------------------------------------------------
Started == kind = "file" => closed

\* POLLIN on standard input.  The end of a pipe is POLLHUP only.  (Mutant:
\* POLLHUP is taken for input.)
Readable_Hangup == kernel # <<>> \/ closed
Readable == kernel # <<>> \/ kind = "file"

Poll ==
  /\ pc = "poll" /\ Started /\ Readable
  /\ pc' = "fgets"
  /\ UNCHANGED <<source, kernel, stdio, eof, buffer, underflow, done, waiting>>

\* The other branches of the loop.
ServeOthers ==
  /\ pc = "poll" /\ Started /\ ~Readable /\ waiting
  /\ waiting' = FALSE
  /\ UNCHANGED <<source, kernel, pc, stdio, eof, buffer, underflow, done>>

\* fgets has a line, or as much as it may return.  (Mutants: it does not
\* wait; it waits for a full buffer, as fread does.)
Enough_Anything == TRUE
Enough_Full == Len(stdio) >= Size - 1
Enough == NewLine \in Range(stdio) \/ Len(stdio) >= Size - 1

\* Otherwise it reads on, and waits for as long as there is nothing.
Read ==
  /\ pc = "fgets" /\ ~Enough /\ ~eof
  /\ \/ /\ kernel # <<>>
        /\ stdio' = stdio \o Head(kernel)
        /\ kernel' = Tail(kernel)
        /\ eof' = (Head(kernel) = <<>>)
     \/ /\ kernel = <<>> /\ closed
        /\ eof' = TRUE
        /\ UNCHANGED <<stdio, kernel>>
  /\ UNCHANGED <<source, pc, buffer, underflow, done, waiting>>

\* How much fgets returns.  (Mutants: one character less; all there is.)
Returned_Short ==
  CHOOSE n \in 0 .. Len(stdio) :
    /\ n < Size - 1 /\ \A i \in 1 .. n : stdio[i] = NewLine => i = n
    /\ n = Len(stdio) \/ n = Size - 2 \/ (n > 0 /\ stdio[n] = NewLine)
Returned_All == Len(stdio)
Returned ==
  CHOOSE n \in 0 .. Len(stdio) :
    /\ n < Size /\ \A i \in 1 .. n : stdio[i] = NewLine => i = n
    /\ n = Len(stdio) \/ n = Size - 1 \/ (n > 0 /\ stdio[n] = NewLine)

\* The buffer when fgets returns, as it was at the end of file, and without
\* its last character.
Got == IF stdio = <<>> THEN buffer ELSE SubSeq(stdio, 1, Returned)
Stripped == IF Got = <<>> THEN <<>> ELSE Front(Got)

\* The command is looked up.  If the buffer was empty, it is the byte in front
\* of it that went: it belongs to nothing, or anything may follow.
Serve ==
  /\ pc = "fgets" /\ (Enough \/ eof)
  /\ buffer' = Stripped
  /\ underflow' = (underflow \/ Got = <<>>)
  /\ done' = IF Command(Stripped) THEN Append(done, Stripped) ELSE done
  /\ \/ pc' = IF Stripped = <<Exit>> THEN "stopped" ELSE "poll"
     \/ pc' = "undefined" /\ Got = <<>>
  /\ stdio' = SubSeq(stdio, Returned + 1, Len(stdio))
  /\ UNCHANGED <<source, kernel, eof, waiting>>

Process == Poll \/ ServeOthers \/ Read \/ Serve

Next == Environment \/ Process

Spec == Init /\ [][Next]_vars

\* The process runs on.  Nobody has to type or to write.
FairSpec == Spec /\ WF_vars(Process)

-----------------------------------------------------------------------------
TypeOK ==
  /\ kind \in {"terminal", "pipe", "file"}
  /\ typed \in Seq(Line)
  /\ closed \in BOOLEAN /\ eof \in BOOLEAN /\ underflow \in BOOLEAN /\ waiting \in BOOLEAN
  /\ pc \in {"poll", "fgets", "stopped", "undefined"}
  /\ unwritten \in Seq(Char \cup {NewLine}) /\ stdio \in Seq(Char \cup {NewLine})
  /\ kernel \in Seq(Seq(Char \cup {NewLine}))
  /\ buffer \in Text /\ junk \in Junk
  /\ done \in Seq(Text)

\* No line is too long for fgets.
Fits(l) == Len(l) + 1 <= Size - 1
AllFit == \A i \in DOMAIN typed : Fits(typed[i])

\* As long as lines fit and the end of the input is not met, each line is
\* served once, in the order typed, none is lost and none is split: those that
\* are not served lie whole in stdio, the kernel and the writer's hands.
Contents(lines) == FlattenSeq([i \in DOMAIN lines |-> Append(lines[i], NewLine)])

InOrder(n) ==
  \E at \in [DOMAIN done -> 1 .. n] :
    /\ \A i, j \in DOMAIN done : i < j => at[i] < at[j]
    /\ \A i \in DOMAIN done : done[i] = typed[at[i]]
    /\ Range(at) = {j \in 1 .. n : Command(typed[j])}

EachLineOnce ==
  AllFit /\ ~eof =>
    \E n \in 0 .. Len(typed) :
      /\ InOrder(n)
      /\ stdio \o FlattenSeq(kernel) \o unwritten
           = Contents(SubSeq(typed, n + 1, Len(typed)))

\* Nobody's words are cut into a command: what is acted on is a line, or what
\* is left of one when fgets returned full buffers of it.  The first part of a
\* line that is too long is never acted on, since validateMessage refuses it.
\* From the end of the input on, a command may also be the beginning of one.
Tail_Of(l, t) == \E k \in 0 .. Len(l) : t = SubSeq(l, k * (Size - 1) + 1, Len(l))
Piece_Of(l, t) == \E m, n \in 1 .. Len(l) : t = SubSeq(l, m, n)

CommandsWereTyped ==
  \A i \in DOMAIN done :
    \/ \E j \in DOMAIN typed : Tail_Of(typed[j], done[i])
    \/ eof /\ \E l \in Range(typed) \cup {junk} : Piece_Of(l, done[i])

\* At a terminal no line stays behind in stdio, where poll does not see it.
PromptAtTerminal ==
  kind = "terminal" /\ AllFit /\ pc = "poll" => stdio = <<>>

\* The buffer is not written outside of its bounds before the input ends.
DefinedUntilEnd == underflow => eof

\* A command typed at a terminal is served.
Commands(n) == Len(SelectSeq(typed, Command)) >= n

CommandsServed ==
  \A n \in 1 .. MaxLines :
    kind = "terminal" /\ Commands(n)
      ~> Len(done) >= n \/ eof \/ pc = "stopped" \/ ~AllFit

\* The rest of the loop is not starved by standard input, unless half a line
\* is written to a pipe, or the input has ended, and is a file or typed on.
HalfLine == kind = "pipe" /\ ~closed /\ pc = "fgets" /\ ~Enough /\ kernel = <<>>

OthersServed ==
  waiting /\ Started ~>
             \/ ~waiting \/ pc \in {"stopped", "undefined"}
             \/ HalfLine
             \/ eof /\ (kind = "file" \/ kernel # <<>>)
-----------------------------------------------------------------------------
\* Where lines are, at a terminal: each by itself, and one at a time in stdio
\* while fgets runs.
Typed(s) == \E j \in 1 .. Len(typed) : s = Append(typed[j], NewLine)

AtTerminal ==
  kind = "terminal" =>
    /\ unwritten = <<>>
    /\ \A i \in 1 .. Len(kernel) : kernel[i] = <<>> \/ Typed(kernel[i])
    /\ AllFit => stdio = <<>> \/ (pc = "fgets" /\ Typed(stdio))

\* A pipe or a file is one text for the kernel.
OneText == kind # "terminal" => Len(kernel) <= 1

\* What is left of a line when k full buffers of it are gone.
Full(l, k) == k * (Size - 1) <= Len(l)
Rest(l, k) == SubSeq(Append(l, NewLine), k * (Size - 1) + 1, Len(l) + 1)

\* What may be left of the first n lines: nothing, or the end of the last.
LeftOf(n) ==
  {<<>>} \cup IF n = 0 THEN {} ELSE {Rest(typed[n], k) : k \in {k \in 1 .. Len(typed[n]) : Full(typed[n], k)}}

\* What was typed and not served, when r is left of the first n lines.
Unserved(n, r) == r \o Contents(SubSeq(typed, n + 1, Len(typed)))

\* Lines of any length, whether the input has ended or not: n of them have been
\* served, the last of which perhaps in part.  What follows is on its way in
\* the order typed; after the end of the input only stdio counts.
InPlace ==
  \E n \in 0 .. Len(typed) : \E r \in LeftOf(n) :
    /\ ~eof => stdio \o (FlattenSeq(kernel) \o unwritten) = Unserved(n, r)
    /\ eof => IsPrefix(stdio, Unserved(n, r))
    /\ AllFit /\ ~eof => InOrder(n)

\* The buffer of the program is empty, or a piece of a line.
BufferIsAPiece ==
  buffer = <<>> \/ \E l \in Range(typed) \cup {junk} : Piece_Of(l, buffer)

\* The inductive invariant: types, the buffer is intact until the input ends,
\* where lines may be at a terminal, and where they are on any input.
Inv ==
  /\ TypeOK /\ DefinedUntilEnd /\ AtTerminal
  /\ OneText /\ InPlace /\ BufferIsAPiece /\ CommandsWereTyped
==============================================================================
