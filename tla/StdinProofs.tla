----------------------------- MODULE StdinProofs -----------------------------
(***************************************************************************)
(* For buffers and lines of any length: what the loop does with a buffer   *)
(* after fgets is within bounds until the input ends, a terminal never     *)
(* leaves a line where poll does not look, each line that fits is served   *)
(* once and in order, and nothing is acted on that was not typed.          *)
(*                                                                         *)
(* First the types, then where lines are at a terminal, then, for any      *)
(* input, what of the lines is still to be served (InPlace).               *)
(***************************************************************************)
EXTENDS StdinReader, SequenceLemmas

Symbol == Char \cup {NewLine}

-----------------------------------------------------------------------------
\* Concatenation of characters.
LEMMA SymbolsAssociate ==
  \A a, b, c \in Seq(Symbol) : (a \o b) \o c = a \o (b \o c)
BY Associative

\* The buffer has room for the longest command and more.
LEMMA Room == Size \in Nat /\ Size > 2 /\ MaxMessage \in Nat /\ MaxMessage + 1 < Size - 2
BY SizeAssumption, MessageAssumption

\* fgets returns something of a buffer that holds something, up to the first
\* end of a line in it.
LEMMA ReturnedFacts ==
  ASSUME TypeOK
  PROVE  /\ Returned \in 0 .. Len(stdio) /\ Returned < Size
         /\ \A i \in 1 .. Returned : stdio[i] = NewLine => i = Returned
         /\ stdio # <<>> => Returned >= 1
         /\ \/ Returned = Len(stdio) \/ Returned = Size - 1
            \/ Returned > 0 /\ stdio[Returned] = NewLine
<1> DEFINE P(n) == /\ n < Size /\ \A i \in 1 .. n : stdio[i] = NewLine => i = n
                   /\ n = Len(stdio) \/ n = Size - 1 \/ (n > 0 /\ stdio[n] = NewLine)
<1>1. Len(stdio) \in Nat /\ Size \in Nat /\ Size > 2
  BY Room DEF TypeOK
<1> DEFINE T == {n \in 0 .. Len(stdio) :
                   n = Len(stdio) \/ n = Size - 1 \/ (n > 0 /\ stdio[n] = NewLine)}
<1>2. T \subseteq Nat /\ Len(stdio) \in T
  BY <1>1
<1> HIDE DEF T
<1>3. PICK n \in T : \A m \in T : n <= m
  BY <1>2, Smallest
<1>4. n \in 0 .. Len(stdio) /\ P(n)
  <2> USE DEF T
  <2>1. n \in 0 .. Len(stdio)
    OBVIOUS
  <2>2. n < Size
    <3>1. ASSUME n >= Size PROVE FALSE
      <4>1. Size - 1 \in 0 .. Len(stdio)
        BY <1>1, <2>1, <3>1
      <4>2. Size - 1 \in T
        BY <4>1
      <4> QED
        BY <1>1, <1>3, <2>1, <3>1, <4>2
    <3> QED
      BY <1>1, <2>1, <3>1
  <2>3. ASSUME NEW i \in 1 .. n, stdio[i] = NewLine PROVE i = n
    <3>1. i \in 0 .. Len(stdio) /\ i > 0 /\ i <= n
      BY <1>1, <2>1
    <3>2. i \in T
      BY <2>3, <3>1
    <3> QED
      BY <1>3, <2>1, <3>1, <3>2
  <2> QED
    BY <2>1, <2>2, <2>3
<1>5. Returned = CHOOSE k \in 0 .. Len(stdio) : P(k)
  BY DEF Returned
<1>6. Returned \in 0 .. Len(stdio) /\ P(Returned)
  <2> HIDE DEF P
  <2> QED
    BY <1>4, <1>5
<1>7. stdio # <<>> => Len(stdio) >= 1
  BY EmptySeq, <1>1 DEF TypeOK
<1> QED
  BY <1>1, <1>6, <1>7

\* No end of a line is left in the buffer of the program.
LEMMA StrippedFacts ==
  ASSUME TypeOK
  PROVE  /\ Stripped \in Text
         /\ stdio # <<>> => Got # <<>>
<1>1. /\ stdio \in Seq(Symbol) /\ Len(stdio) \in Nat /\ buffer \in Seq(Char)
  BY DEF TypeOK, Symbol, Text
<1>2. CASE stdio = <<>>
  <2>1. Got = buffer
    BY <1>2 DEF Got
  <2>2. CASE buffer = <<>>
    BY <1>2, <2>1, <2>2 DEF Stripped, Text
  <2>3. CASE buffer # <<>>
    <3>1. Len(buffer) \in Nat /\ Len(buffer) - 1 \in Int
      BY <1>1
    <3>2. \A i \in 1 .. Len(buffer) - 1 : buffer[i] \in Char
      BY <1>1, <3>1, ElementOfSeq
    <3>3. SubSeq(buffer, 1, Len(buffer) - 1) \in Seq(Char)
      BY <3>1, <3>2, SubSeqProperties
    <3> QED
      BY <1>2, <2>1, <2>3, <3>3 DEF Stripped, Front, Text
  <2> QED
    BY <1>2, <2>2, <2>3
<1>3. CASE stdio # <<>>
  <2> DEFINE n == Returned
             g == SubSeq(stdio, 1, n)
  <2>1. /\ n \in Nat /\ n >= 1 /\ n <= Len(stdio)
        /\ \A i \in 1 .. n : stdio[i] = NewLine => i = n
    BY <1>1, <1>3, ReturnedFacts
  <2> HIDE DEF n
  <2>2. \A i \in 1 .. n : stdio[i] \in Symbol
    BY <1>1, <2>1, ElementOfSeq
  <2>3. Len(g) = n /\ \A i \in 1 .. n : g[i] = stdio[i]
    <3>1. /\ Len(g) = IF 1 <= n THEN n - 1 + 1 ELSE 0
          /\ \A i \in 1 .. n - 1 + 1 : g[i] = stdio[1 + i - 1]
      BY <2>1, <2>2, SubSeqProperties
    <3>2. n - 1 + 1 = n /\ \A i \in 1 .. n : 1 + i - 1 = i
      BY <2>1
    <3> QED
      BY <2>1, <3>1, <3>2
  <2>4. Got = g /\ g # <<>>
    <3>1. Len(<<>>) = 0
      OBVIOUS
    <3> QED
      BY <1>3, <2>1, <2>3, <3>1 DEF Got, n
  <2> HIDE DEF g
  <2>5. \A i \in 1 .. n - 1 : g[i] \in Char
    <3> TAKE i \in 1 .. n - 1
    <3>1. i \in 1 .. n /\ i # n
      BY <2>1
    <3> QED
      BY <2>1, <2>2, <2>3, <3>1 DEF Symbol
  <2>6. SubSeq(g, 1, n - 1) \in Seq(Char)
    BY <2>1, <2>5, SubSeqProperties
  <2> QED
    BY <2>3, <2>4, <2>6 DEF Stripped, Front, Text
<1> QED
  BY <1>2, <1>3

-----------------------------------------------------------------------------
\* At first: types, and nothing was typed.
LEMMA InitTypes == Init => TypeOK /\ DefinedUntilEnd /\ AtTerminal
<1> SUFFICES ASSUME Init PROVE TypeOK /\ DefinedUntilEnd /\ AtTerminal
  OBVIOUS
<1>1. TypeOK
  <2>1. typed \in Seq(Line) /\ kernel \in Seq(Seq(Char \cup {NewLine})) /\ done \in Seq(Text)
    BY DEF Init
  <2>2. unwritten \in Seq(Char \cup {NewLine}) /\ stdio \in Seq(Char \cup {NewLine})
    BY DEF Init
  <2>3. buffer \in Text /\ junk \in Junk
    BY LineAssumption DEF Init
  <2>4. /\ closed \in BOOLEAN /\ eof \in BOOLEAN /\ underflow \in BOOLEAN /\ waiting \in BOOLEAN
        /\ pc \in {"poll", "fgets", "stopped", "undefined"}
        /\ kind \in {"terminal", "pipe", "file"}
    BY DEF Init
  <2> QED
    BY <2>1, <2>2, <2>3, <2>4 DEF TypeOK
<1>2. DefinedUntilEnd
  BY DEF Init, DefinedUntilEnd
<1>3. AtTerminal
  <2>1. Len(<<>>) = 0
    OBVIOUS
  <2> QED
    BY <2>1 DEF Init, AtTerminal
<1> QED
  BY <1>1, <1>2, <1>3

\* A line with its end.
LEMMA LineTypes ==
  ASSUME NEW l \in Line
  PROVE  /\ Append(l, NewLine) \in Seq(Symbol)
         /\ Len(Append(l, NewLine)) = Len(l) + 1 /\ Len(l) \in Nat
         /\ Append(l, NewLine)[Len(l) + 1] = NewLine
         /\ \A i \in 1 .. Len(l) : Append(l, NewLine)[i] # NewLine
<1>1. l \in Seq(Char)
  BY LineAssumption DEF Text
<1>2. \A i \in 1 .. Len(l) : l[i] \in Char
  BY <1>1, ElementOfSeq
<1>3. l \in Seq(Symbol)
  <2>1. Char \subseteq Symbol
    BY DEF Symbol
  <2> QED
    BY <1>1, <2>1, SeqMonotonic
<1>4. NewLine \in Symbol
  BY DEF Symbol
<1>5. /\ Append(l, NewLine) \in Seq(Symbol) /\ Len(Append(l, NewLine)) = Len(l) + 1
      /\ \A i \in 1 .. Len(l) : Append(l, NewLine)[i] = l[i]
      /\ Append(l, NewLine)[Len(l) + 1] = NewLine
  BY <1>3, <1>4, AppendProperties
<1> QED
  BY <1>1, <1>2, <1>5, NewLineAssumption

\* Steps of those who type, write and close keep the types.
LEMMA WritingTypes ==
  ASSUME TypeOK, Environment
  PROVE  TypeOK'
<1>0. /\ kernel \in Seq(Seq(Symbol)) /\ unwritten \in Seq(Symbol) /\ Len(unwritten) \in Nat
      /\ typed \in Seq(Line)
  BY DEF TypeOK, Symbol
<1>1. CASE Type
  <2>1. PICK l \in Line : typed' = Append(typed, l) /\ kernel' = Append(kernel, Append(l, NewLine))
    BY <1>1 DEF Type
  <2>2. typed' \in Seq(Line)
    BY <1>0, <2>1, AppendProperties
  <2>3. kernel' \in Seq(Seq(Symbol))
    BY <1>0, <2>1, LineTypes, AppendProperties
  <2> QED
    BY <1>1, <2>2, <2>3 DEF Type, TypeOK, Symbol
<1>2. CASE TypeEnd
  <2>1. <<>> \in Seq(Symbol)
    OBVIOUS
  <2>2. kernel' \in Seq(Seq(Symbol))
    BY <1>0, <1>2, <2>1, AppendProperties DEF TypeEnd
  <2> QED
    BY <1>2, <2>2 DEF TypeEnd, TypeOK, source, Symbol
<1>3. CASE Begin
  <2>1. PICK l \in Line : typed' = Append(typed, l) /\ unwritten' = Append(l, NewLine)
    BY <1>3 DEF Begin
  <2>2. typed' \in Seq(Line) /\ unwritten' \in Seq(Symbol)
    BY <1>0, <2>1, LineTypes, AppendProperties
  <2> QED
    BY <1>3, <2>2 DEF Begin, TypeOK, Symbol
<1>4. CASE Write
  <2>1. PICK n \in 1 .. Len(unwritten) :
          /\ unwritten' = SubSeq(unwritten, n + 1, Len(unwritten))
          /\ kernel' = <<There \o SubSeq(unwritten, 1, n)>>
    BY <1>4 DEF Write
  <2>2. There \in Seq(Symbol)
    <3>1. CASE kernel = <<>>
      BY <3>1 DEF There
    <3>2. CASE kernel # <<>>
      BY <1>0, <3>2, HeadTailProperties DEF There
    <3> QED
      BY <3>1, <3>2
  <2>3. \A i \in 1 .. Len(unwritten) : unwritten[i] \in Symbol
    BY <1>0, ElementOfSeq
  <2>4. SubSeq(unwritten, 1, n) \in Seq(Symbol)
    BY <1>0, <2>1, <2>3, SubSeqProperties
  <2>5. SubSeq(unwritten, n + 1, Len(unwritten)) \in Seq(Symbol)
    BY <1>0, <2>1, <2>3, SubSeqProperties
  <2>6. There \o SubSeq(unwritten, 1, n) \in Seq(Symbol)
    BY <2>2, <2>4, ConcatProperties
  <2>7. kernel' \in Seq(Seq(Symbol))
    BY <2>1, <2>6
  <2> QED
    BY <1>4, <2>1, <2>5, <2>7 DEF Write, TypeOK, Symbol
<1>5. CASE CloseWriter
  BY <1>5 DEF CloseWriter, TypeOK
<1>6. CASE SomethingElse
  BY <1>6 DEF SomethingElse, TypeOK, source
<1> QED
  BY <1>1, <1>2, <1>3, <1>4, <1>5, <1>6 DEF Environment

\* And so do the steps of the loop and of stdio.
LEMMA ProcessTypes ==
  ASSUME TypeOK, Process
  PROVE  TypeOK'
<1>0. kernel \in Seq(Seq(Symbol)) /\ stdio \in Seq(Symbol) /\ Len(stdio) \in Nat
  BY DEF TypeOK, Symbol
<1>1. CASE Poll
  BY <1>1 DEF Poll, TypeOK, source
<1>2. CASE ServeOthers
  BY <1>2 DEF ServeOthers, TypeOK, source
<1>3. CASE Read
  <2>1. kernel' \in Seq(Seq(Symbol)) /\ stdio' \in Seq(Symbol)
    <3>1. CASE kernel # <<>>
      <4>1. Head(kernel) \in Seq(Symbol) /\ Tail(kernel) \in Seq(Seq(Symbol))
        BY <1>0, <3>1, HeadTailProperties
      <4>2. stdio \o Head(kernel) \in Seq(Symbol)
        BY <1>0, <4>1, ConcatProperties
      <4> QED
        BY <1>3, <3>1, <4>1, <4>2 DEF Read
    <3>2. CASE kernel = <<>>
      BY <1>0, <1>3, <3>2 DEF Read
    <3> QED
      BY <3>1, <3>2
  <2>2. eof' \in BOOLEAN
    BY <1>3 DEF Read
  <2> QED
    BY <1>3, <2>1, <2>2 DEF Read, TypeOK, source, Symbol
<1>4. CASE Serve
  <2>1. Returned \in 0 .. Len(stdio)
    BY ReturnedFacts
  <2>2. \A i \in Returned + 1 .. Len(stdio) : stdio[i] \in Symbol
    BY <1>0, <2>1, ElementOfSeq
  <2>3. SubSeq(stdio, Returned + 1, Len(stdio)) \in Seq(Symbol)
    BY <1>0, <2>1, <2>2, SubSeqProperties
  <2>4. Stripped \in Text
    BY StrippedFacts
  <2>5. done' \in Seq(Text)
    <3>1. done \in Seq(Text)
      BY DEF TypeOK
    <3>2. Append(done, Stripped) \in Seq(Text)
      BY <2>4, <3>1, AppendProperties
    <3> QED
      BY <1>4, <3>1, <3>2 DEF Serve
  <2>6. underflow' \in BOOLEAN
    BY <1>4 DEF Serve
  <2> QED
    BY <1>4, <2>3, <2>4, <2>5, <2>6 DEF Serve, TypeOK, source, Symbol
<1> QED
  BY <1>1, <1>2, <1>3, <1>4 DEF Process

-----------------------------------------------------------------------------
\* Only fgets at the end of the input leaves the buffer as it was.
LEMMA DefinedStep ==
  ASSUME TypeOK, DefinedUntilEnd, [Next]_vars
  PROVE  DefinedUntilEnd'
<1>1. eof => eof'
  BY DEF Next, Environment, Process, vars, source, Type, TypeEnd, Begin, Write, CloseWriter,
         SomethingElse, Poll, ServeOthers, Read, Serve
<1>2. CASE Serve
  <2>1. ASSUME Got = <<>> PROVE eof
    <3>1. stdio = <<>>
      BY <2>1, StrippedFacts
    <3>2. ~Enough
      <4>1. Len(<<>>) = 0 /\ DOMAIN <<>> = {}
        OBVIOUS
      <4> QED
        BY <3>1, <4>1, Room DEF Enough, Range
    <3> QED
      BY <1>2, <3>2 DEF Serve
  <2> QED
    BY <1>1, <1>2, <2>1 DEF Serve, DefinedUntilEnd
<1>3. CASE UNCHANGED underflow
  BY <1>1, <1>3 DEF DefinedUntilEnd
<1> QED
  BY <1>2, <1>3 DEF Next, Environment, Process, vars, source, Type, TypeEnd, Begin, Write,
         CloseWriter, SomethingElse, Poll, ServeOthers, Read

-----------------------------------------------------------------------------
\* A whole line that fits is returned whole.
LEMMA ReturnedWhole ==
  ASSUME TypeOK, AllFit, Typed(stdio)
  PROVE  Enough /\ Returned = Len(stdio)
<1>1. PICK j \in 1 .. Len(typed) : stdio = Append(typed[j], NewLine)
  BY DEF Typed
<1> DEFINE l == typed[j]
<1>2. l \in Line
  BY ElementOfSeq DEF TypeOK
<1>3. Len(l) + 1 <= Size - 1
  <2>1. j \in DOMAIN typed
    BY DEF TypeOK
  <2> QED
    BY <2>1 DEF AllFit, Fits
<1> HIDE DEF l
<1>4. /\ Len(stdio) = Len(l) + 1 /\ Len(l) \in Nat /\ stdio[Len(l) + 1] = NewLine
      /\ \A i \in 1 .. Len(l) : stdio[i] # NewLine
      /\ stdio \in Seq(Symbol)
  <2>1. stdio = Append(l, NewLine)
    BY <1>1 DEF l
  <2> QED
    BY <1>2, <2>1, LineTypes
<1>5. Enough
  <2>1. Len(l) + 1 \in DOMAIN stdio
    BY <1>4
  <2>2. NewLine \in Range(stdio)
    BY <1>4, <2>1 DEF Range
  <2> QED
    BY <2>2 DEF Enough
<1>6. Returned = Len(stdio)
  <2>1. /\ Returned \in 0 .. Len(stdio) /\ Returned < Size
        /\ \/ Returned = Len(stdio) \/ Returned = Size - 1
           \/ Returned > 0 /\ stdio[Returned] = NewLine
    BY ReturnedFacts
  <2>2. CASE Returned = Size - 1
    BY <1>3, <1>4, <2>1, <2>2, Room
  <2>3. CASE Returned > 0 /\ stdio[Returned] = NewLine
    <3>1. Returned \notin 1 .. Len(l)
      BY <1>4, <2>3
    <3> QED
      BY <1>4, <2>1, <2>3, <3>1
  <2> QED
    BY <2>1, <2>2, <2>3
<1> QED
  BY <1>5, <1>6

\* A terminal gives one line at a time, and fgets returns all of it.
LEMMA TerminalStep ==
  ASSUME TypeOK, AtTerminal, [Next]_vars
  PROVE  AtTerminal'
<1> SUFFICES ASSUME kind' = "terminal" PROVE AtTerminal'
  BY DEF AtTerminal
<1>1. kind = "terminal"
  BY DEF Next, Environment, Process, vars, source, Type, TypeEnd, Begin, Write, CloseWriter,
         SomethingElse, Poll, ServeOthers, Read, Serve
<1>2. /\ unwritten = <<>>
      /\ \A i \in 1 .. Len(kernel) : kernel[i] = <<>> \/ Typed(kernel[i])
      /\ AllFit => stdio = <<>> \/ (pc = "fgets" /\ Typed(stdio))
  BY <1>1 DEF AtTerminal
<1>3. /\ kernel \in Seq(Seq(Symbol)) /\ stdio \in Seq(Symbol)
      /\ typed \in Seq(Line) /\ Len(kernel) \in Nat /\ Len(typed) \in Nat /\ Len(stdio) \in Nat
  BY DEF TypeOK, Symbol
<1>4. CASE Type
  <2>1. PICK l \in Line : typed' = Append(typed, l) /\ kernel' = Append(kernel, Append(l, NewLine))
    BY <1>4 DEF Type
  <2>2. /\ Len(typed') = Len(typed) + 1 /\ typed'[Len(typed) + 1] = l
        /\ \A j \in 1 .. Len(typed) : typed'[j] = typed[j]
    BY <1>3, <2>1, AppendProperties
  <2>3. /\ Len(kernel') = Len(kernel) + 1 /\ kernel'[Len(kernel) + 1] = Append(l, NewLine)
        /\ \A i \in 1 .. Len(kernel) : kernel'[i] = kernel[i]
    BY <1>3, <2>1, LineTypes, AppendProperties
  <2>4. ASSUME NEW s, Typed(s)
        PROVE  \E j \in 1 .. Len(typed') : s = Append(typed'[j], NewLine)
    <3>1. PICK j \in 1 .. Len(typed) : s = Append(typed[j], NewLine)
      BY <2>4 DEF Typed
    <3>2. j \in 1 .. Len(typed') /\ typed'[j] = typed[j]
      BY <1>3, <2>2
    <3> QED
      BY <3>1, <3>2
  <2>5. ASSUME NEW i \in 1 .. Len(kernel')
        PROVE  kernel'[i] = <<>> \/ \E j \in 1 .. Len(typed') : kernel'[i] = Append(typed'[j], NewLine)
    <3>1. CASE i = Len(kernel) + 1
      <4>1. Len(typed) + 1 \in 1 .. Len(typed')
        BY <1>3, <2>2
      <4> QED
        BY <2>2, <2>3, <3>1, <4>1
    <3>2. CASE i # Len(kernel) + 1
      <4>1. i \in 1 .. Len(kernel) /\ kernel'[i] = kernel[i]
        BY <1>3, <2>3, <3>2
      <4> QED
        BY <1>2, <2>4, <4>1
    <3> QED
      BY <3>1, <3>2
  <2>6. AllFit' => AllFit
    <3>1. \A j \in DOMAIN typed : j \in DOMAIN typed' /\ typed'[j] = typed[j]
      <4>1. DOMAIN typed = 1 .. Len(typed) /\ DOMAIN typed' = 1 .. Len(typed')
        BY <1>3, <2>1, AppendProperties
      <4> QED
        BY <1>3, <2>2, <4>1
    <3> QED
      BY <3>1 DEF AllFit, Fits
  <2>7. stdio' = stdio /\ pc' = pc /\ unwritten' = unwritten
    BY <1>4 DEF Type
  <2>8. AllFit' => stdio' = <<>> \/ (pc' = "fgets" /\ \E j \in 1 .. Len(typed') : stdio' = Append(typed'[j], NewLine))
    BY <1>2, <2>4, <2>6, <2>7
  <2> QED
    BY <1>2, <2>5, <2>7, <2>8 DEF AtTerminal, Typed
<1>5. CASE TypeEnd
  <2>1. kernel' = Append(kernel, <<>>) /\ typed' = typed /\ stdio' = stdio /\ pc' = pc
        /\ unwritten' = unwritten
    BY <1>5 DEF TypeEnd, source
  <2>2. <<>> \in Seq(Symbol)
    OBVIOUS
  <2>3. /\ Len(kernel') = Len(kernel) + 1 /\ kernel'[Len(kernel) + 1] = <<>>
        /\ \A i \in 1 .. Len(kernel) : kernel'[i] = kernel[i]
    BY <1>3, <2>1, <2>2, AppendProperties
  <2>4. ASSUME NEW i \in 1 .. Len(kernel') PROVE kernel'[i] = <<>> \/ Typed(kernel'[i])
    <3>1. CASE i = Len(kernel) + 1
      BY <2>3, <3>1
    <3>2. CASE i # Len(kernel) + 1
      <4>1. i \in 1 .. Len(kernel) /\ kernel'[i] = kernel[i]
        BY <1>3, <2>3, <3>2
      <4> QED
        BY <1>2, <4>1
    <3> QED
      BY <3>1, <3>2
  <2> QED
    BY <1>2, <2>1, <2>4 DEF AtTerminal, Typed, AllFit, Fits
<1>6. CASE Begin \/ Write \/ CloseWriter
  BY <1>1, <1>2, <1>6 DEF Begin, Write, CloseWriter
<1>7. CASE SomethingElse \/ ServeOthers \/ Poll \/ UNCHANGED vars
  <2>1. /\ typed' = typed /\ kernel' = kernel /\ unwritten' = unwritten /\ stdio' = stdio
        /\ pc = "fgets" => pc' = "fgets"
    BY <1>7 DEF SomethingElse, ServeOthers, Poll, vars, source
  <2> QED
    BY <1>2, <2>1 DEF AtTerminal, Typed, AllFit, Fits
<1>8. CASE Read
  <2>1. typed' = typed /\ unwritten' = unwritten /\ pc' = "fgets" /\ pc = "fgets" /\ ~Enough
    BY <1>8 DEF Read, source
  <2>2. CASE kernel = <<>>
    <3>1. kernel' = kernel /\ stdio' = stdio
      BY <1>8, <2>2 DEF Read
    <3> QED
      BY <1>2, <2>1, <3>1 DEF AtTerminal, Typed, AllFit, Fits
  <2>3. CASE kernel # <<>>
    <3>1. kernel' = Tail(kernel) /\ stdio' = stdio \o Head(kernel)
      BY <1>8, <2>3 DEF Read
    <3>2. Head(kernel) = kernel[1] /\ Len(kernel) >= 1 /\ Head(kernel) \in Seq(Symbol)
      BY <1>3, <2>3, HeadTailProperties, EmptySeq
    <3>3. /\ Len(kernel') = Len(kernel) - 1
          /\ \A i \in 1 .. Len(kernel') : kernel'[i] = kernel[i + 1]
      BY <1>3, <2>3, <3>1, HeadTailProperties
    <3>4. \A i \in 1 .. Len(kernel') : kernel'[i] = <<>> \/ Typed(kernel'[i])
      <4> TAKE i \in 1 .. Len(kernel')
      <4>1. i + 1 \in 1 .. Len(kernel)
        BY <1>3, <3>3
      <4> QED
        BY <1>2, <3>3, <4>1
    <3>5. AllFit => stdio' = <<>> \/ Typed(stdio')
      <4> SUFFICES ASSUME AllFit PROVE stdio' = <<>> \/ Typed(stdio')
        OBVIOUS
      <4>1. stdio = <<>>
        BY <1>2, <2>1, ReturnedWhole
      <4>2. stdio' = Head(kernel)
        <5>1. <<>> \o Head(kernel) = Head(kernel)
          BY <3>2, ConcatEmptySeq
        <5> QED
          BY <3>1, <4>1, <5>1
      <4>3. 1 \in 1 .. Len(kernel)
        BY <1>3, <3>2
      <4> QED
        BY <1>2, <3>2, <4>2, <4>3
    <3> QED
      BY <1>2, <2>1, <3>4, <3>5 DEF AtTerminal, Typed, AllFit, Fits
  <2> QED
    BY <2>2, <2>3
<1>9. CASE Serve
  <2>1. /\ typed' = typed /\ unwritten' = unwritten /\ kernel' = kernel
        /\ stdio' = SubSeq(stdio, Returned + 1, Len(stdio))
    BY <1>9 DEF Serve, source
  <2>2. AllFit => stdio' = <<>>
    <3> SUFFICES ASSUME AllFit PROVE stdio' = <<>>
      OBVIOUS
    <3>1. CASE Returned = Len(stdio)
      BY <1>3, <2>1, <3>1, SubSeqEmpty
    <3>2. CASE stdio = <<>>
      <4>1. Returned \in 0 .. Len(stdio)
        BY ReturnedFacts
      <4>2. Len(stdio) = 0
        BY <3>2
      <4>3. Returned = Len(stdio)
        BY <4>1, <4>2
      <4> QED
        BY <3>1, <4>3
    <3> QED
      BY <1>2, <3>1, <3>2, ReturnedWhole
  <2> QED
    BY <1>2, <2>1, <2>2 DEF AtTerminal, Typed, AllFit, Fits
<1> QED
  BY <1>4, <1>5, <1>6, <1>7, <1>8, <1>9 DEF Next, Environment, Process

-----------------------------------------------------------------------------
\* Contents of no line, of one line more, of one line first.
LEMMA EndedLines ==
  ASSUME NEW s \in Seq(Line)
  PROVE  /\ [i \in DOMAIN s |-> Append(s[i], NewLine)] \in Seq(Seq(Symbol))
         /\ Len([i \in DOMAIN s |-> Append(s[i], NewLine)]) = Len(s)
<1>1. PICK n \in Nat : n = Len(s) /\ DOMAIN s = 1 .. n
  OBVIOUS
<1>2. \A i \in 1 .. n : Append(s[i], NewLine) \in Seq(Symbol)
  <2> TAKE i \in 1 .. n
  <2>1. PICK l \in Line : l = s[i]
    BY <1>1
  <2> QED
    BY <2>1, LineTypes
<1> DEFINE m == [i \in 1 .. n |-> Append(s[i], NewLine)]
<1>3. m \in [1 .. n -> Seq(Symbol)]
  BY <1>2
<1> HIDE DEF m
<1>4. m \in Seq(Seq(Symbol)) /\ Len(m) = n
  BY <1>3
<1> QED
  BY <1>1, <1>4 DEF m

\* The text of some lines, of none, and of one more at the end.
LEMMA ContentsType ==
  ASSUME NEW s \in Seq(Line)
  PROVE  Contents(s) \in Seq(Symbol)
BY EndedLines, FlattenType DEF Contents

\* Of no line.
LEMMA ContentsEmpty == Contents(<<>>) = <<>>
<1> DEFINE m == [i \in DOMAIN <<>> |-> Append(<<>>[i], NewLine)]
<1>1. <<>> \in Seq(Line)
  OBVIOUS
<1>2. m \in Seq(Seq(Symbol)) /\ Len(m) = 0
  BY <1>1, EndedLines
<1> HIDE DEF m
<1>3. m = <<>>
  BY <1>2, EmptySeq
<1> QED
  BY <1>3, FlattenEmpty DEF Contents, m

\* And of one more.
LEMMA ContentsAppend ==
  ASSUME NEW s \in Seq(Line), NEW l \in Line
  PROVE  Contents(Append(s, l)) = Contents(s) \o Append(l, NewLine)
<1> DEFINE t == Append(s, l)
           ms == [i \in DOMAIN s |-> Append(s[i], NewLine)]
           mt == [i \in DOMAIN t |-> Append(t[i], NewLine)]
           x == Append(l, NewLine)
<1>1. PICK n \in Nat : n = Len(s)
  OBVIOUS
<1>2. t \in Seq(Line) /\ Len(t) = n + 1 /\ t[n + 1] = l /\ \A i \in 1 .. n : t[i] = s[i]
  BY <1>1, AppendProperties
<1>3. x \in Seq(Symbol)
  BY LineTypes
<1> HIDE DEF t, x
<1>4. /\ ms \in Seq(Seq(Symbol)) /\ Len(ms) = n
      /\ mt \in Seq(Seq(Symbol)) /\ Len(mt) = n + 1
  BY <1>1, <1>2, EndedLines
<1>5. /\ \A i \in 1 .. n : ms[i] = Append(s[i], NewLine)
      /\ \A i \in 1 .. n + 1 : mt[i] = Append(t[i], NewLine)
  BY <1>1, <1>2
<1> HIDE DEF ms, mt
<1>6. mt = Append(ms, x)
  <2>1. /\ Append(ms, x) \in Seq(Seq(Symbol)) /\ Len(Append(ms, x)) = n + 1
        /\ Append(ms, x)[n + 1] = x /\ \A i \in 1 .. n : Append(ms, x)[i] = ms[i]
    BY <1>3, <1>4, AppendProperties
  <2>2. \A i \in 1 .. n + 1 : mt[i] = Append(ms, x)[i]
    <3> TAKE i \in 1 .. n + 1
    <3>1. CASE i = n + 1
      BY <1>2, <1>5, <2>1, <3>1 DEF x
    <3>2. CASE i # n + 1
      <4>1. i \in 1 .. n
        BY <3>2
      <4> QED
        BY <1>2, <1>5, <2>1, <4>1
    <3> QED
      BY <3>1, <3>2
  <2> QED
    BY <1>4, <2>1, <2>2, SeqEqual
<1>7. FlattenSeq(mt) = FlattenSeq(ms) \o x
  BY <1>3, <1>4, <1>6, FlattenAppend
<1> QED
  BY <1>7 DEF Contents, t, ms, mt, x

\* Lines n + 1 to the last of s.
LEMMA AfterType ==
  ASSUME NEW s \in Seq(Line), NEW N \in Nat, N = Len(s), NEW n \in 0 .. N
  PROVE  /\ SubSeq(s, n + 1, N) \in Seq(Line)
         /\ Contents(SubSeq(s, n + 1, N)) \in Seq(Symbol)
BY LastOf, ContentsType

\* Nothing is after the last.
LEMMA AfterNone ==
  ASSUME NEW s \in Seq(Line), NEW N \in Nat, N = Len(s)
  PROVE  Contents(SubSeq(s, N + 1, N)) = <<>>
<1>1. SubSeq(s, N + 1, N) = <<>>
  BY SubSeqEmpty
<1> QED
  BY <1>1, ContentsEmpty

\* One line more is the last of them.
LEMMA AfterAppend ==
  ASSUME NEW s \in Seq(Line), NEW l \in Line, NEW N \in Nat, N = Len(s), NEW n \in 0 .. N
  PROVE  Contents(SubSeq(Append(s, l), n + 1, N + 1))
           = Contents(SubSeq(s, n + 1, N)) \o Append(l, NewLine)
<1> DEFINE t == Append(s, l)
           a == SubSeq(s, n + 1, N)
           b == SubSeq(t, n + 1, N + 1)
<1>1. t \in Seq(Line) /\ Len(t) = N + 1 /\ t[N + 1] = l /\ \A i \in 1 .. N : t[i] = s[i]
  BY AppendProperties
<1> HIDE DEF t
<1>2. PICK k \in Nat : k = N - n
  <2>1. N - n \in Nat
    OBVIOUS
  <2> QED
    BY <2>1
<1>3. a \in Seq(Line) /\ Len(a) = k /\ \A i \in 1 .. k : a[i] = s[n + i]
  BY <1>2, LastOf
<1>4. b \in Seq(Line) /\ Len(b) = k + 1 /\ \A i \in 1 .. k + 1 : b[i] = t[n + i]
  <2>1. PICK M \in Nat : M = N + 1
    OBVIOUS
  <2>2. M = Len(t) /\ n \in 0 .. M /\ M - n = k + 1
    BY <1>1, <1>2, <2>1
  <2>3. /\ SubSeq(t, n + 1, M) \in Seq(Line) /\ Len(SubSeq(t, n + 1, M)) = M - n
        /\ \A i \in 1 .. M - n : SubSeq(t, n + 1, M)[i] = t[n + i]
    BY <1>1, <2>2, LastOf
  <2> QED
    BY <2>1, <2>2, <2>3
<1> HIDE DEF a, b
<1>5. b = Append(a, l)
  <2>1. /\ Append(a, l) \in Seq(Line) /\ Len(Append(a, l)) = k + 1
        /\ Append(a, l)[k + 1] = l /\ \A i \in 1 .. k : Append(a, l)[i] = a[i]
    BY <1>3, AppendProperties
  <2>2. \A i \in 1 .. k + 1 : b[i] = Append(a, l)[i]
    <3> TAKE i \in 1 .. k + 1
    <3>1. b[i] = t[n + i]
      BY <1>4
    <3>2. CASE i = k + 1
      BY <1>1, <1>2, <2>1, <3>1, <3>2
    <3>3. CASE i # k + 1
      <4>1. i \in 1 .. k /\ n + i \in 1 .. N
        BY <1>2, <3>3
      <4> QED
        BY <1>1, <1>3, <2>1, <3>1, <4>1
    <3> QED
      BY <3>2, <3>3
  <2> QED
    BY <1>4, <2>1, <2>2, SeqEqual
<1>6. Contents(b) = Contents(a) \o Append(l, NewLine)
  BY <1>3, <1>5, ContentsAppend
<1> QED
  BY <1>6 DEF a, b, t

\* The first of them, and the others.
LEMMA AfterFirst ==
  ASSUME NEW s \in Seq(Line), NEW N \in Nat, N = Len(s), NEW n \in 0 .. N, n # N
  PROVE  Contents(SubSeq(s, n + 1, N)) = Append(s[n + 1], NewLine) \o Contents(SubSeq(s, n + 1 + 1, N))
<1> DEFINE a == SubSeq(s, n + 1, N)
           b == SubSeq(s, n + 1 + 1, N)
           ma == [i \in DOMAIN a |-> Append(a[i], NewLine)]
           mb == [i \in DOMAIN b |-> Append(b[i], NewLine)]
<1>1. PICK k \in Nat : N - n = k + 1 /\ N - (n + 1) = k /\ n + 1 \in 0 .. N
  <2>1. N - n - 1 \in Nat
    OBVIOUS
  <2> QED
    BY <2>1
<1>2. a \in Seq(Line) /\ Len(a) = k + 1 /\ \A i \in 1 .. k + 1 : a[i] = s[n + i]
  BY <1>1, LastOf
<1>3. b \in Seq(Line) /\ Len(b) = k /\ \A i \in 1 .. k : b[i] = s[n + 1 + i]
  <2>1. PICK m \in 0 .. N : m = n + 1
    BY <1>1
  <2>2. /\ SubSeq(s, m + 1, N) \in Seq(Line) /\ Len(SubSeq(s, m + 1, N)) = N - m
        /\ \A i \in 1 .. N - m : SubSeq(s, m + 1, N)[i] = s[m + i]
    BY LastOf
  <2> QED
    BY <1>1, <2>1, <2>2
<1> HIDE DEF a, b
<1>4. /\ ma \in Seq(Seq(Symbol)) /\ Len(ma) = k + 1
      /\ mb \in Seq(Seq(Symbol)) /\ Len(mb) = k
  BY <1>2, <1>3, EndedLines
<1>5. /\ \A i \in 1 .. k + 1 : ma[i] = Append(a[i], NewLine)
      /\ \A i \in 1 .. k : mb[i] = Append(b[i], NewLine)
  BY <1>2, <1>3
<1> HIDE DEF ma, mb
<1>6. ma # <<>>
  BY <1>4, EmptySeq
<1>7. /\ Head(ma) = ma[1]
      /\ Tail(ma) \in Seq(Seq(Symbol)) /\ Len(Tail(ma)) = k
      /\ \A i \in 1 .. k : Tail(ma)[i] = ma[i + 1]
  <2>1. /\ Tail(ma) \in Seq(Seq(Symbol)) /\ Len(Tail(ma)) = Len(ma) - 1
        /\ \A i \in 1 .. Len(Tail(ma)) : Tail(ma)[i] = ma[i + 1]
    BY <1>4, <1>6, HeadTailProperties
  <2>2. Head(ma) = ma[1]
    BY <1>4, <1>6
  <2> QED
    BY <1>4, <2>1, <2>2
<1>8. Tail(ma) = mb
  <2>1. \A i \in 1 .. k : Tail(ma)[i] = mb[i]
    <3> TAKE i \in 1 .. k
    <3>1. PICK j \in 1 .. k + 1 : j = i + 1 /\ n + j = n + 1 + i
      OBVIOUS
    <3>2. a[j] = b[i]
      BY <1>2, <1>3, <3>1
    <3> QED
      BY <1>5, <1>7, <3>1, <3>2
  <2> QED
    BY <1>4, <1>7, <2>1, SeqEqual
<1>9. Head(ma) = Append(s[n + 1], NewLine)
  <2>1. 1 \in 1 .. k + 1
    OBVIOUS
  <2> QED
    BY <1>2, <1>5, <1>7, <2>1
<1>10. FlattenSeq(ma) = Head(ma) \o FlattenSeq(Tail(ma))
  BY <1>4, <1>6, FlattenHeadTail
<1> QED
  BY <1>8, <1>9, <1>10 DEF Contents, a, b, ma, mb

-----------------------------------------------------------------------------
\* The characters in k full buffers.
Gone(k) == k * (Size - 1)

\* As a number: none at first, a full buffer more each time.
LEMMA GoneFacts ==
  ASSUME NEW w \in Nat, Size = w + 1
  PROVE  /\ Gone(0) = 0
         /\ \A k \in Nat : Gone(k) \in Nat /\ Gone(k + 1) = Gone(k) + w /\ (k >= 1 => Gone(k) >= w)
         /\ \A k \in Nat : w >= 1 => Gone(k) >= k
<1>1. 0 * w = 0 /\ Size - 1 = w
  OBVIOUS
<1>2. \A k \in Nat : k * w \in Nat /\ (k + 1) * w = k * w + w /\ (k >= 1 => k * w >= w)
  OBVIOUS
<1>3. \A k \in Nat : w >= 1 => k * w >= k
  OBVIOUS
<1> QED
  BY <1>1, <1>2, <1>3 DEF Gone

\* What is left of a line.
LEMMA RestFacts ==
  ASSUME NEW l \in Line, NEW k \in Nat, Gone(k) <= Len(l)
  PROVE  /\ Rest(l, k) \in Seq(Symbol)
         /\ Len(Rest(l, k)) = Len(l) + 1 - Gone(k)
         /\ \A i \in 1 .. Len(l) - Gone(k) :
               Rest(l, k)[i] = l[Gone(k) + i] /\ Rest(l, k)[i] # NewLine
         /\ Rest(l, k)[Len(l) + 1 - Gone(k)] = NewLine
<1> DEFINE a == Append(l, NewLine)
<1>1. l \in Seq(Char)
  BY LineAssumption DEF Text
<1>2. PICK m \in Nat : m = Len(l)
  BY <1>1
<1>0. PICK d \in Nat : d = Gone(k) /\ d <= m
  <2>1. PICK w \in Nat : Size = w + 1
    BY Room
  <2> QED
    BY <1>2, <2>1, GoneFacts
<1>3. a \in Seq(Symbol) /\ Len(a) = m + 1 /\ a[m + 1] = NewLine /\ \A i \in 1 .. m : a[i] # NewLine
  BY <1>2, LineTypes
<1>4. \A i \in 1 .. m : a[i] = l[i]
  BY <1>1, <1>2
<1> HIDE DEF a
<1>5. PICK M \in Nat : M = m + 1
  OBVIOUS
<1>6. d \in 0 .. M /\ M = Len(a)
  BY <1>0, <1>2, <1>3, <1>5
<1> DEFINE x == SubSeq(a, d + 1, M)
<1>7. x \in Seq(Symbol) /\ Len(x) = M - d /\ \A i \in 1 .. M - d : x[i] = a[d + i]
  <2>1. /\ SubSeq(a, d + 1, M) \in Seq(Symbol) /\ Len(SubSeq(a, d + 1, M)) = M - d
        /\ \A i \in 1 .. M - d : SubSeq(a, d + 1, M)[i] = a[d + i]
    BY <1>3, <1>6, LastOf
  <2> QED
    BY <2>1
<1>8. Rest(l, k) = x
  BY <1>0, <1>2, <1>5 DEF Rest, Gone, a
<1> HIDE DEF x
<1>9. \A i \in 1 .. m - d : i \in 1 .. M - d /\ d + i \in 1 .. m
  BY <1>0, <1>2, <1>5
<1>10. M - d \in 1 .. M - d /\ d + (M - d) = m + 1 /\ M - d = m + 1 - d
  BY <1>0, <1>2, <1>5
<1>11. \A i \in 1 .. m - d : x[i] = l[d + i] /\ x[i] # NewLine
  BY <1>3, <1>4, <1>7, <1>9
<1>12. x[m + 1 - d] = NewLine
  <2>1. x[M - d] = a[d + (M - d)]
    BY <1>7, <1>10
  <2> QED
    BY <1>3, <1>10, <2>1
<1>13. Len(x) = m + 1 - d
  BY <1>7, <1>10
<1> QED
  BY <1>0, <1>2, <1>7, <1>8, <1>11, <1>12, <1>13

\* At first the whole line is left.
LEMMA RestOfNothing ==
  ASSUME NEW l \in Line
  PROVE  Rest(l, 0) = Append(l, NewLine) /\ Full(l, 0)
<1>1. PICK M \in Nat : M = Len(l) + 1 /\ Append(l, NewLine) \in Seq(Symbol) /\ M = Len(Append(l, NewLine))
  BY LineTypes
<1>2. 0 * (Size - 1) = 0 /\ 0 + 1 = 1 /\ Len(l) \in Nat
  BY Room, LineTypes
<1>3. Append(l, NewLine) = SubSeq(Append(l, NewLine), 1, M)
  <2> DEFINE a == Append(l, NewLine)
             b == SubSeq(a, 1, M)
  <2>1. M \in 0 .. Len(a)
    BY <1>1
  <2>2. b \in Seq(Symbol) /\ Len(b) = M /\ \A i \in 1 .. M : b[i] = a[i]
    BY <1>1, <2>1, FirstOf
  <2> HIDE DEF a, b
  <2>3. a = b
    BY <1>1, <2>2, SeqEqual DEF a
  <2> QED
    BY <2>3 DEF a, b
<1> QED
  BY <1>1, <1>2, <1>3 DEF Rest, Full

\* What is left of the last line served in part is the end of that line.
LEMMA LeftFacts ==
  ASSUME TypeOK, NEW n \in 0 .. Len(typed), NEW r \in LeftOf(n)
  PROVE  /\ r \in Seq(Symbol)
         /\ r # <<>> =>
              /\ n \in 1 .. Len(typed)
              /\ \E k \in Nat : k \in 1 .. Len(typed[n]) /\ Full(typed[n], k) /\ r = Rest(typed[n], k)
<1>1. CASE r = <<>>
  BY <1>1
<1>2. CASE r # <<>>
  <2>1. /\ n # 0 /\ Len(typed) \in Nat
        /\ r \in {Rest(typed[n], k) : k \in {k \in 1 .. Len(typed[n]) : Full(typed[n], k)}}
    BY <1>2 DEF LeftOf, TypeOK
  <2>2. n \in 1 .. Len(typed)
    BY <2>1
  <2>3. PICK l \in Line : l = typed[n]
    BY <2>2 DEF TypeOK
  <2>4. PICK k \in 1 .. Len(l) : Full(l, k) /\ r = Rest(l, k)
    BY <2>1, <2>3
  <2>5. PICK d \in Nat : Gone(k) = d /\ d <= Len(l)
    <3>1. PICK w \in Nat : Size = w + 1
      BY Room
    <3>2. k \in Nat
      BY LineTypes
    <3>3. Gone(k) \in Nat
      BY <3>1, <3>2, GoneFacts
    <3> QED
      BY <2>4, <3>3 DEF Full, Gone
  <2>6. r \in Seq(Symbol) /\ k \in Nat
    <3>1. Gone(k) <= Len(l)
      BY <2>5
    <3>2. k \in Nat
      OBVIOUS
    <3> QED
      BY <2>4, <3>1, <3>2, RestFacts
  <2> QED
    BY <2>2, <2>3, <2>4, <2>6
<1> QED
  BY <1>1, <1>2

Behind == FlattenSeq(kernel) \o unwritten

\* What is behind stdio is text.
LEMMA BehindType ==
  ASSUME TypeOK
  PROVE  FlattenSeq(kernel) \in Seq(Symbol) /\ Behind \in Seq(Symbol)
<1>1. kernel \in Seq(Seq(Symbol)) /\ unwritten \in Seq(Symbol)
  BY DEF TypeOK, Symbol
<1>2. FlattenSeq(kernel) \in Seq(Symbol)
  BY <1>1, FlattenType
<1> QED
  BY <1>1, <1>2, ConcatProperties DEF Behind

\* And so is what was not served.
LEMMA UnservedType ==
  ASSUME TypeOK, NEW n \in 0 .. Len(typed), NEW r \in LeftOf(n)
  PROVE  Unserved(n, r) \in Seq(Symbol)
<1>1. PICK N \in Nat : N = Len(typed) /\ n \in 0 .. N
  BY DEF TypeOK
<1>2. Contents(SubSeq(typed, n + 1, N)) \in Seq(Symbol)
  BY <1>1, AfterType DEF TypeOK
<1> QED
  BY <1>1, <1>2, LeftFacts, ConcatProperties DEF Unserved

\* InPlace, with what is behind stdio named: it is lost when the input ends.
LEMMA InPlaceMeans ==
  ASSUME TypeOK, InPlace
  PROVE  \E n \in 0 .. Len(typed) : \E r \in LeftOf(n), z \in Seq(Symbol) :
           /\ stdio \o z = Unserved(n, r)
           /\ ~eof => z = Behind
           /\ AllFit /\ ~eof => InOrder(n)
<1>1. PICK n \in 0 .. Len(typed) : \E r \in LeftOf(n) :
        /\ ~eof => stdio \o Behind = Unserved(n, r)
        /\ eof => IsPrefix(stdio, Unserved(n, r))
        /\ AllFit /\ ~eof => InOrder(n)
  BY Zenon DEF InPlace, Behind
<1>0. PICK r \in LeftOf(n) :
        /\ ~eof => stdio \o Behind = Unserved(n, r)
        /\ eof => IsPrefix(stdio, Unserved(n, r))
        /\ AllFit /\ ~eof => InOrder(n)
  BY <1>1
<1>2. stdio \in Seq(Symbol)
  BY DEF TypeOK, Symbol
<1>3. CASE eof
  <2>1. PICK z \in Seq(Symbol) : stdio \o z = Unserved(n, r)
    BY <1>0, <1>2, <1>3, UnservedType, PrefixHasRest
  <2> QED
    BY <1>0, <1>3, <2>1
<1>4. CASE ~eof
  BY <1>0, <1>4, BehindType
<1> QED
  BY <1>3, <1>4 DEF TypeOK

\* Steps that move characters on towards stdio, or meet the end of the input.
LEMMA InPlaceMoved ==
  ASSUME TypeOK, InPlace, UNCHANGED <<typed, done>>, eof => eof' /\ stdio' = stdio,
         NEW y \in Seq(Symbol), NEW b, b \in Seq(Symbol), stdio' = y, b = Behind',
         ~eof /\ ~eof' => y \o b = stdio \o Behind,
         ~eof /\ eof' => y \o b = stdio \o Behind
  PROVE  InPlace'
<1>1. PICK n \in 0 .. Len(typed) : \E r \in LeftOf(n), z \in Seq(Symbol) :
         /\ stdio \o z = Unserved(n, r)
         /\ ~eof => z = Behind
         /\ AllFit /\ ~eof => InOrder(n)
  BY InPlaceMeans
<1>2. PICK r \in LeftOf(n), z \in Seq(Symbol) :
         /\ stdio \o z = Unserved(n, r)
         /\ ~eof => z = Behind
         /\ AllFit /\ ~eof => InOrder(n)
  BY <1>1
<1> DEFINE U == Unserved(n, r)
<1>3. /\ LeftOf(n)' = LeftOf(n) /\ Unserved(n, r)' = U /\ Len(typed)' = Len(typed)
      /\ AllFit' = AllFit /\ InOrder(n)' = InOrder(n)
  BY DEF LeftOf, Unserved, Rest, Full, Contents, AllFit, Fits, InOrder
<1> HIDE DEF U
<1>4. ~eof' => stdio' \o (FlattenSeq(kernel') \o unwritten') = U
  BY <1>2 DEF Behind, U
<1>5. eof' => IsPrefix(stdio', U)
  <2>1. CASE eof
    <3>1. IsPrefix(stdio, stdio \o z)
      BY PrefixOfConcat DEF TypeOK, Symbol
    <3> QED
      BY <1>2, <2>1, <3>1 DEF U
  <2>2. CASE ~eof /\ eof'
    <3>1. IsPrefix(y, y \o b)
      BY PrefixOfConcat
    <3> QED
      BY <1>2, <2>2, <3>1 DEF U
  <2> QED
    BY <2>1, <2>2
<1>6. AllFit' /\ ~eof' => InOrder(n)'
  BY <1>2, <1>3
<1>7. /\ n \in 0 .. Len(typed') /\ r \in LeftOf(n)'
      /\ ~eof' => stdio' \o (FlattenSeq(kernel') \o unwritten') = Unserved(n, r)'
      /\ eof' => IsPrefix(stdio', Unserved(n, r)')
  BY <1>3, <1>4, <1>5
<1> QED
  BY <1>6, <1>7, Zenon DEF InPlace

\* Steps that leave all of it where it is.
LEMMA InPlaceStays ==
  ASSUME TypeOK, InPlace, UNCHANGED <<typed, kernel, unwritten, stdio, eof, done>>
  PROVE  InPlace'
<1>1. PICK y \in Seq(Symbol) : y = stdio
  BY DEF TypeOK, Symbol
<1>2. PICK b \in Seq(Symbol) : b = Behind
  BY BehindType
<1>3. stdio' = y /\ b = Behind' /\ (eof => eof' /\ stdio' = stdio) /\ y \o b = stdio \o Behind
  BY <1>1, <1>2 DEF Behind
<1> QED
  BY <1>3, InPlaceMoved

\* A line more.
LEMMA InPlaceMore ==
  ASSUME TypeOK, InPlace, UNCHANGED <<stdio, eof, done>>,
         NEW l \in Line, typed' = Append(typed, l),
         ~eof => Behind' = Behind \o Append(l, NewLine)
  PROVE  InPlace'
<1>1. PICK n \in 0 .. Len(typed) : \E r \in LeftOf(n), z \in Seq(Symbol) :
         /\ stdio \o z = Unserved(n, r)
         /\ ~eof => z = Behind
         /\ AllFit /\ ~eof => InOrder(n)
  BY InPlaceMeans
<1>2. PICK r \in LeftOf(n), z \in Seq(Symbol) :
         /\ stdio \o z = Unserved(n, r)
         /\ ~eof => z = Behind
         /\ AllFit /\ ~eof => InOrder(n)
  BY <1>1
<1>3. PICK N \in Nat : N = Len(typed)
  BY DEF TypeOK
<1>4. PICK x \in Seq(Symbol) : x = Append(l, NewLine)
  BY LineTypes
<1>5. stdio \in Seq(Symbol) /\ typed \in Seq(Line) /\ n \in 0 .. N /\ r \in Seq(Symbol)
  BY <1>3, LeftFacts DEF TypeOK, Symbol
<1>6. /\ Len(typed') = N + 1 /\ typed' \in Seq(Line)
      /\ \A i \in 1 .. N : typed'[i] = typed[i]
      /\ DOMAIN typed = 1 .. N /\ DOMAIN typed' = 1 .. N + 1
  BY <1>3, <1>5, AppendProperties
<1>7. stdio \o (z \o x) = Unserved(n, r)'
  <2>1. PICK c \in Seq(Symbol) : c = Contents(SubSeq(typed, n + 1, N))
    BY <1>3, <1>5, AfterType
  <2>2. Contents(SubSeq(typed', n + 1, N + 1)) = c \o x
    BY <1>3, <1>4, <1>5, <2>1, AfterAppend
  <2>3. stdio \o z = r \o c
    BY <1>2, <1>3, <2>1 DEF Unserved
  <2>4. PICK y \in Seq(Symbol) : y = stdio
    BY <1>5
  <2>5. (y \o z) \o x = y \o (z \o x)
    BY ONLY y \in Seq(Symbol), z \in Seq(Symbol), x \in Seq(Symbol), SymbolsAssociate
  <2>0. PICK q \in Seq(Symbol) : q = r
    BY <1>5
  <2>6. (q \o c) \o x = q \o (c \o x)
    BY ONLY q \in Seq(Symbol), c \in Seq(Symbol), x \in Seq(Symbol), SymbolsAssociate
  <2>7. Unserved(n, r)' = r \o (c \o x)
    BY <1>6, <2>2 DEF Unserved, Contents
  <2> QED
    BY ONLY <2>0, <2>3, <2>4, <2>5, <2>6, <2>7
<1>8. ~eof' => stdio' \o (FlattenSeq(kernel') \o unwritten') = Unserved(n, r)'
  BY <1>2, <1>4, <1>7 DEF Behind
<1>9. eof' => IsPrefix(stdio', Unserved(n, r)')
  <2>1. PICK w \in Seq(Symbol) : w = z \o x
    BY ConcatProperties
  <2>2. IsPrefix(stdio, stdio \o w)
    BY <1>5, PrefixOfConcat
  <2> QED
    BY <1>7, <2>1, <2>2
<1>10. n \in 0 .. Len(typed') /\ r \in LeftOf(n)'
  <2>1. n \in 0 .. Len(typed')
    BY <1>5, <1>6
  <2>2. CASE n = 0
    BY <2>2 DEF LeftOf
  <2>3. CASE n # 0
    <3>1. typed'[n] = typed[n]
      BY <1>5, <1>6, <2>3
    <3> QED
      BY <2>1, <2>3, <3>1 DEF LeftOf, Rest, Full
  <2> QED
    BY <2>1, <2>2, <2>3
<1>11. AllFit' /\ ~eof' => InOrder(n)'
  <2> SUFFICES ASSUME AllFit', ~eof' PROVE InOrder(n)'
    OBVIOUS
  <2>1. AllFit
    BY <1>6 DEF AllFit, Fits
  <2>2. PICK at \in [DOMAIN done -> 1 .. n] :
          /\ \A i, j \in DOMAIN done : i < j => at[i] < at[j]
          /\ \A i \in DOMAIN done : done[i] = typed[at[i]]
          /\ Range(at) = {j \in 1 .. n : Command(typed[j])}
    BY <1>2, <2>1 DEF InOrder
  <2>3. \A j \in 1 .. n : typed'[j] = typed[j]
    BY <1>5, <1>6
  <2>4. \A i \in DOMAIN done : done[i] = typed'[at[i]]
    BY <2>2, <2>3
  <2>5. Range(at) = {j \in 1 .. n : Command(typed'[j])}
    BY <2>2, <2>3
  <2> QED
    BY <2>2, <2>4, <2>5 DEF InOrder
<1> QED
  BY <1>8, <1>9, <1>10, <1>11, Zenon DEF InPlace

\* What fgets returns of stdio: the rest of a line, a full buffer of it, or all
\* that there is at the end of the input.
LEMMA NextLine ==
  ASSUME TypeOK, NEW n \in 0 .. Len(typed), NEW r \in LeftOf(n), Unserved(n, r) # <<>>
  PROVE  \E j \in 1 .. Len(typed), k \in Nat :
           /\ Full(typed[j], k)
           /\ Unserved(n, r) = Rest(typed[j], k) \o Contents(SubSeq(typed, j + 1, Len(typed)))
           /\ (j = n + 1 /\ k = 0) \/ (j = n /\ k >= 1)
<1>1. PICK N \in Nat : N = Len(typed)
  BY DEF TypeOK
<1>2. typed \in Seq(Line) /\ n \in 0 .. N
  BY <1>1 DEF TypeOK
<1>3. CASE r = <<>>
  <2>1. Contents(SubSeq(typed, n + 1, N)) \in Seq(Symbol)
    BY <1>1, <1>2, AfterType
  <2>2. Unserved(n, r) = Contents(SubSeq(typed, n + 1, N))
    BY <1>1, <1>3, <2>1, ConcatEmptySeq DEF Unserved
  <2>3. n # N
    BY <1>1, <1>2, <2>2, AfterNone
  <2>4. PICK j \in 1 .. N : j = n + 1
    BY <1>2, <2>3
  <2>5. typed[j] \in Line
    BY <1>1, <1>2
  <2>6. Unserved(n, r) = Append(typed[j], NewLine) \o Contents(SubSeq(typed, j + 1, N))
    BY <1>1, <1>2, <2>2, <2>3, <2>4, AfterFirst
  <2>7. Rest(typed[j], 0) = Append(typed[j], NewLine) /\ Full(typed[j], 0)
    BY <2>5, RestOfNothing
  <2> QED
    BY <1>1, <2>4, <2>6, <2>7
<1>4. CASE r # <<>>
  <2>1. PICK k \in Nat : k \in 1 .. Len(typed[n]) /\ Full(typed[n], k) /\ r = Rest(typed[n], k)
    BY <1>4, LeftFacts
  <2>2. n \in 1 .. Len(typed) /\ k >= 1
    BY <1>4, <2>1, LeftFacts
  <2> QED
    BY <2>1, <2>2 DEF Unserved
<1> QED
  BY <1>3, <1>4

\* fgets takes up line j after k full buffers, d characters of it.
Remaining == SubSeq(stdio, Returned + 1, Len(stdio))

Takes(j, k, d, z) ==
  /\ Gone(k) = d /\ d <= Len(typed[j])
  /\ ~eof => z = Behind
  /\ AllFit /\ ~eof => k = 0 /\ InOrder(j - 1)
  /\ Returned \in 1 .. Len(typed[j]) + 1 - d
  /\ Stripped = SubSeq(typed[j], d + 1, d + Returned - 1)
  /\ \/ /\ Returned = Len(typed[j]) + 1 - d
        /\ Remaining \o z = Contents(SubSeq(typed, j + 1, Len(typed)))
     \/ /\ Returned < Len(typed[j]) + 1 - d /\ Returned = Size - 1
        /\ Remaining \o z = Rest(typed[j], k + 1) \o Contents(SubSeq(typed, j + 1, Len(typed)))
     \/ /\ Returned < Len(typed[j]) + 1 - d /\ ~Enough
        /\ Remaining = <<>>

\* What lies behind the first e symbols.
LEMMA BehindFirst ==
  ASSUME NEW s \in Seq(Symbol), NEW n \in Nat, n = Len(s), NEW e \in Nat, e <= n
  PROVE  /\ SubSeq(s, e + 1, n) \in Seq(Symbol) /\ Len(SubSeq(s, e + 1, n)) = n - e
         /\ \A i \in 1 .. n - e : SubSeq(s, e + 1, n)[i] = s[e + i]
<1>1. e \in 0 .. n
  OBVIOUS
<1> QED
  BY <1>1, LastOf

\* It does so whenever there is something in stdio.
LEMMA FgetsTakes ==
  ASSUME TypeOK, InPlace, stdio # <<>>
  PROVE  \E j \in 1 .. Len(typed), k \in Nat, d \in Nat, z \in Seq(Symbol) : Takes(j, k, d, z)
<1>1. PICK n \in 0 .. Len(typed) : \E r \in LeftOf(n), z \in Seq(Symbol) :
         /\ stdio \o z = Unserved(n, r)
         /\ ~eof => z = Behind
         /\ AllFit /\ ~eof => InOrder(n)
  BY InPlaceMeans
<1>2. PICK r \in LeftOf(n), z \in Seq(Symbol) :
         /\ stdio \o z = Unserved(n, r)
         /\ ~eof => z = Behind
         /\ AllFit /\ ~eof => InOrder(n)
  BY <1>1
<1>3. PICK s \in Seq(Symbol) : s = stdio
  BY DEF TypeOK, Symbol
<1>0. PICK w \in Nat : w = Size - 1 /\ w >= 2 /\ Size = w + 1
  BY Room
<1>4. PICK p \in Nat : p = Len(s) /\ p >= 1
  BY <1>3, EmptySeq
<1>5. Unserved(n, r) # <<>>
  <2>1. Len(s \o z) = p + Len(z) /\ Len(z) \in Nat
    BY <1>4, ConcatProperties
  <2>2. Len(s \o z) # 0 /\ Len(<<>>) = 0
    BY <1>4, <2>1
  <2> QED
    BY <1>2, <1>3, <2>2
<1>6. PICK j \in 1 .. Len(typed), k \in Nat :
        /\ Full(typed[j], k)
        /\ Unserved(n, r) = Rest(typed[j], k) \o Contents(SubSeq(typed, j + 1, Len(typed)))
        /\ (j = n + 1 /\ k = 0) \/ (j = n /\ k >= 1)
  BY <1>5, NextLine
<1>7. PICK l \in Line : l = typed[j]
  BY DEF TypeOK
<1>8. PICK m \in Nat : m = Len(l)
  BY LineTypes
<1>9. PICK d \in Nat : Gone(k) = d /\ d <= m
  <2>1. Gone(k) \in Nat
    BY <1>0, GoneFacts
  <2>2. Gone(k) <= m
    BY <1>6, <1>7, <1>8 DEF Full, Gone
  <2> QED
    BY <2>1, <2>2
<1>10. PICK q \in Nat : q = m + 1 - d /\ q >= 1 /\ q = (m - d) + 1
  <2>1. m + 1 - d \in Nat /\ m + 1 - d >= 1
    BY <1>9
  <2> QED
    BY <2>1
<1>11. PICK x \in Seq(Symbol) :
         /\ x = Rest(l, k) /\ Len(x) = q /\ x[q] = NewLine
         /\ \A i \in 1 .. q - 1 : x[i] = l[d + i] /\ x[i] # NewLine
  <2>1. /\ Rest(l, k) \in Seq(Symbol) /\ Len(Rest(l, k)) = m + 1 - d
        /\ \A i \in 1 .. m - d : Rest(l, k)[i] = l[d + i] /\ Rest(l, k)[i] # NewLine
        /\ Rest(l, k)[m + 1 - d] = NewLine
    <3>1. Gone(k) <= Len(l)
      BY <1>8, <1>9
    <3>2. /\ Rest(l, k) \in Seq(Symbol)
          /\ Len(Rest(l, k)) = Len(l) + 1 - Gone(k)
          /\ \A i \in 1 .. Len(l) - Gone(k) :
                Rest(l, k)[i] = l[Gone(k) + i] /\ Rest(l, k)[i] # NewLine
          /\ Rest(l, k)[Len(l) + 1 - Gone(k)] = NewLine
      BY <3>1, RestFacts
    <3> QED
      BY <1>8, <1>9, <3>2
  <2>2. m - d = q - 1 /\ m + 1 - d = q
    BY <1>10
  <2> QED
    BY <2>1, <2>2
<1>12. PICK v \in Seq(Symbol) : v = Contents(SubSeq(typed, j + 1, Len(typed)))
  <2>1. PICK N \in Nat : N = Len(typed) /\ j \in 0 .. N
    BY DEF TypeOK
  <2> QED
    BY <2>1, AfterType DEF TypeOK
<1>13. s \o z = x \o v
  BY <1>2, <1>3, <1>6, <1>7, <1>11, <1>12
<1>14. PICK e \in Nat :
         /\ e = Returned /\ e <= p /\ e <= w /\ e >= 1
         /\ \A i \in 1 .. e : s[i] = NewLine => i = e
         /\ e = p \/ e = w \/ s[e] = NewLine
  <2>1. PICK e \in 0 .. p : e = Returned
    BY <1>3, <1>4, ReturnedFacts
  <2>2. /\ e < Size /\ e >= 1
        /\ \A i \in 1 .. e : s[i] = NewLine => i = e
        /\ e = p \/ e = Size - 1 \/ s[e] = NewLine
    BY <1>3, <1>4, <2>1, ReturnedFacts
  <2>3. e < w + 1 /\ (e = p \/ e = w \/ s[e] = NewLine)
    BY ONLY <1>0, <2>2
  <2> QED
    BY <2>1, <2>2, <2>3
<1>15. /\ \A i \in 1 .. p : (s \o z)[i] = s[i]
       /\ \A i \in 1 .. q : (x \o v)[i] = x[i]
  <2>1. PICK lz \in Nat : lz = Len(z)
    OBVIOUS
  <2>2. PICK lv \in Nat : lv = Len(v)
    OBVIOUS
  <2>0. q = Len(x)
    BY <1>11
  <2>3. \A i \in 1 .. p + lz : (s \o z)[i] = IF i <= p THEN s[i] ELSE z[i - p]
    BY <1>4, <2>1, ConcatProperties
  <2>4. \A i \in 1 .. q + lv : (x \o v)[i] = IF i <= q THEN x[i] ELSE v[i - q]
    BY <2>0, <2>2, ConcatProperties
  <2>5. /\ \A i \in 1 .. p : i \in 1 .. p + lz /\ i <= p
        /\ \A i \in 1 .. q : i \in 1 .. q + lv /\ i <= q
    OBVIOUS
  <2> QED
    BY ONLY <2>3, <2>4, <2>5
<1>16. e <= q
  <2> SUFFICES ASSUME q < e PROVE FALSE
    BY <1>10, <1>14
  <2>1. q \in 1 .. e /\ q \in 1 .. p /\ q \in 1 .. q
    BY <1>10, <1>14
  <2>2. s[q] = NewLine
    BY <1>11, <1>13, <1>15, <2>1
  <2>3. q = e
    BY <1>14, <2>1, <2>2
  <2> QED
    BY <2>3
<1>17. /\ SubSeq(s, 1, e) = SubSeq(x, 1, e)
       /\ SubSeq(s, e + 1, p) \o z = SubSeq(x, e + 1, q) \o v
  <2>1. p = Len(s) /\ q = Len(x) /\ e \in 0 .. p /\ e \in 0 .. q
    BY <1>4, <1>11, <1>14, <1>16
  <2>2. /\ First(Joined(s, z), e) = First(s, e)
        /\ Others(Joined(s, z), e) = Joined(Others(s, e), z)
    BY <2>1, CutJoined
  <2>3. /\ First(Joined(x, v), e) = First(x, e)
        /\ Others(Joined(x, v), e) = Joined(Others(x, e), v)
    BY <2>1, CutJoined
  <2>4. Joined(s, z) = Joined(x, v)
    BY <1>13 DEF Joined
  <2>5. First(s, e) = First(x, e) /\ Joined(Others(s, e), z) = Joined(Others(x, e), v)
    BY ONLY <2>2, <2>3, <2>4
  <2> QED
    BY <2>1, <2>5 DEF First, Others, Joined
<1>18. Remaining = SubSeq(s, e + 1, p)
  BY <1>3, <1>4, <1>14 DEF Remaining
<1>19. Stripped = SubSeq(l, d + 1, d + e - 1)
  <2> DEFINE g == SubSeq(s, 1, e)
             h == SubSeq(g, 1, e - 1)
             t == SubSeq(l, d + 1, d + e - 1)
  <2>1. Got = g
    BY <1>3, <1>14 DEF Got
  <2>2. g \in Seq(Symbol) /\ Len(g) = e /\ \A i \in 1 .. e : g[i] = x[i]
    <3>1. e \in 0 .. Len(x)
      BY <1>11, <1>16
    <3>2. /\ SubSeq(x, 1, e) \in Seq(Symbol) /\ Len(SubSeq(x, 1, e)) = e
          /\ \A i \in 1 .. e : SubSeq(x, 1, e)[i] = x[i]
      BY <3>1, FirstOf
    <3> QED
      BY <1>17, <3>2
  <2> HIDE DEF g
  <2>3. g # <<>>
    BY <1>14, <2>2, EmptySeq
  <2>4. Stripped = h
    BY <2>1, <2>2, <2>3 DEF Stripped, Front
  <2>5. PICK f \in 0 .. Len(g) : f = e - 1 /\ f <= q - 1
    BY <1>14, <1>16, <2>2
  <2>6. h \in Seq(Symbol) /\ Len(h) = f /\ \A i \in 1 .. f : h[i] = g[i]
    BY <2>2, <2>5, FirstOf
  <2>7. l \in Seq(Char)
    BY LineAssumption DEF Text
  <2>8. t \in Seq(Char) /\ Len(t) = f /\ \A i \in 1 .. f : t[i] = l[d + i]
    <3>1. PICK a \in Nat : a = d + 1 /\ a >= 1
      OBVIOUS
    <3>2. PICK b \in Nat : b = d + e - 1 /\ a <= b + 1 /\ b <= Len(l) /\ b - a + 1 = f
      <4>1. d + e - 1 \in Nat
        BY <1>14
      <4> QED
        BY <1>8, <1>10, <1>14, <1>16, <2>5, <3>1, <4>1
    <3>3. /\ SubSeq(l, a, b) \in Seq(Char) /\ Len(SubSeq(l, a, b)) = b - a + 1
          /\ \A i \in 1 .. b - a + 1 : SubSeq(l, a, b)[i] = l[a + i - 1]
      BY <2>7, <3>1, <3>2, PartOf
    <3>4. \A i \in 1 .. f : a + i - 1 = d + i
      BY <3>1
    <3> QED
      BY <3>1, <3>2, <3>3, <3>4
  <2> HIDE DEF h, t
  <2>9. t \in Seq(Symbol)
    <3>1. Char \subseteq Symbol
      BY DEF Symbol
    <3> QED
      BY <2>8, <3>1, SeqMonotonic
  <2>10. \A i \in 1 .. f : h[i] = t[i]
    <3> TAKE i \in 1 .. f
    <3>1. i \in 1 .. q - 1 /\ i \in 1 .. e
      BY <2>5
    <3> QED
      BY <1>11, <2>2, <2>6, <2>8, <3>1
  <2>11. h = t
    BY <2>6, <2>8, <2>9, <2>10, SeqEqual
  <2> QED
    BY <2>4, <2>11 DEF t
<1>20. AllFit /\ ~eof => k = 0 /\ InOrder(j - 1)
  <2> SUFFICES ASSUME AllFit, ~eof PROVE k = 0 /\ InOrder(j - 1)
    OBVIOUS
  <2>1. m + 1 <= w
    <3>1. j \in DOMAIN typed
      BY DEF TypeOK
    <3>2. Len(l) + 1 <= Size - 1
      BY <1>7, <3>1 DEF AllFit, Fits
    <3> QED
      BY ONLY <1>0, <1>8, <3>2
  <2>2. k = 0
    <3> SUFFICES ASSUME k >= 1 PROVE FALSE
      OBVIOUS
    <3>1. Gone(k) >= w
      BY <1>0, GoneFacts
    <3> QED
      BY <1>9, <2>1, <3>1
  <2>3. j - 1 = n
    BY <1>6, <2>2
  <2> QED
    BY <1>2, <2>2, <2>3
<1>24. /\ Gone(k) = d /\ d <= Len(typed[j])
       /\ ~eof => z = Behind
       /\ AllFit /\ ~eof => k = 0 /\ InOrder(j - 1)
       /\ Returned \in 1 .. Len(typed[j]) + 1 - d
       /\ Stripped = SubSeq(typed[j], d + 1, d + Returned - 1)
  BY <1>2, <1>7, <1>8, <1>9, <1>10, <1>14, <1>16, <1>19, <1>20
<1>25. Len(typed[j]) + 1 - d = q /\ Returned = e
  BY <1>7, <1>8, <1>10, <1>14
<1>21. CASE e = q
  <2>1. SubSeq(x, e + 1, q) \o v = v
    <3>1. SubSeq(x, e + 1, q) = <<>>
      BY <1>21, SubSeqEmpty
    <3> QED
      BY <3>1, ConcatEmptySeq
  <2> QED
    BY <1>12, <1>17, <1>18, <1>21, <1>24, <1>25, <2>1 DEF Takes
<1>22. CASE e < q /\ e = w
  <2>1. SubSeq(x, e + 1, q) = Rest(l, k + 1)
    <3>1. PICK c \in Nat : c = d + w /\ c = Gone(k + 1)
      <4>1. d + w \in Nat /\ d + w = Gone(k + 1)
        BY <1>0, <1>9, GoneFacts
      <4> QED
        BY <4>1
    <3>2. c <= m /\ q - e = m + 1 - c /\ m - c = q - e - 1 /\ k + 1 \in Nat
      BY <1>10, <1>22, <3>1
    <3>3. /\ Rest(l, k + 1) \in Seq(Symbol) /\ Len(Rest(l, k + 1)) = m + 1 - c
          /\ \A i \in 1 .. m - c : Rest(l, k + 1)[i] = l[c + i]
          /\ Rest(l, k + 1)[m + 1 - c] = NewLine
      <4>1. PICK k1 \in Nat : k1 = k + 1 /\ Gone(k1) = c /\ Gone(k1) <= Len(l)
        BY <1>8, <3>1, <3>2
      <4>2. /\ Rest(l, k1) \in Seq(Symbol)
            /\ Len(Rest(l, k1)) = Len(l) + 1 - Gone(k1)
            /\ \A i \in 1 .. Len(l) - Gone(k1) :
                  Rest(l, k1)[i] = l[Gone(k1) + i] /\ Rest(l, k1)[i] # NewLine
            /\ Rest(l, k1)[Len(l) + 1 - Gone(k1)] = NewLine
        BY <4>1, RestFacts
      <4> QED
        BY <1>8, <4>1, <4>2
    <3> DEFINE a == SubSeq(x, e + 1, q)
               b == Rest(l, k + 1)
    <3>4. PICK f \in Nat : f = q - e /\ f >= 1 /\ f = m + 1 - c /\ m - c = f - 1 /\ e + f = q
      <4>1. q - e \in Nat
        BY <1>16
      <4> QED
        BY <1>22, <3>2, <4>1
    <3>5. a \in Seq(Symbol) /\ Len(a) = f /\ \A i \in 1 .. f : a[i] = x[e + i]
      <4>1. x \in Seq(Symbol) /\ q \in Nat /\ q = Len(x) /\ e \in Nat /\ e <= q
        BY <1>11, <1>16
      <4>2. /\ SubSeq(x, e + 1, q) \in Seq(Symbol) /\ Len(SubSeq(x, e + 1, q)) = q - e
            /\ \A i \in 1 .. q - e : SubSeq(x, e + 1, q)[i] = x[e + i]
        BY ONLY <4>1, BehindFirst
      <4> QED
        BY <3>4, <4>2
    <3>6. b \in Seq(Symbol) /\ Len(b) = f /\ b[f] = NewLine /\ \A i \in 1 .. f - 1 : b[i] = l[c + i]
      BY <3>3, <3>4
    <3> HIDE DEF a, b
    <3>7. \A i \in 1 .. f : a[i] = b[i]
      <4> TAKE i \in 1 .. f
      <4>1. CASE i = f
        BY <1>11, <3>4, <3>5, <3>6, <4>1
      <4>2. CASE i # f
        <5>1. i \in 1 .. f - 1 /\ e + i \in 1 .. q - 1 /\ d + (e + i) = c + i
          BY <1>22, <3>1, <3>4, <4>2
        <5>2. x[e + i] = l[d + (e + i)]
          BY <1>11, <5>1
        <5> QED
          BY <3>5, <3>6, <5>1, <5>2
      <4> QED
        BY <4>1, <4>2
    <3>8. a = b
      BY <3>5, <3>6, <3>7, SeqEqual
    <3> QED
      BY <3>8 DEF a, b
  <2> QED
    BY <1>0, <1>7, <1>12, <1>17, <1>18, <1>22, <1>24, <1>25, <2>1 DEF Takes
<1>23. CASE e < q /\ e # w
  <2>1. e = p
    <3>1. e \in 1 .. p /\ e \in 1 .. q /\ e \in 1 .. q - 1
      BY <1>14, <1>23
    <3>2. s[e] # NewLine
      BY <1>11, <1>13, <1>15, <3>1
    <3> QED
      BY <1>14, <1>23, <3>2
  <2>2. SubSeq(s, e + 1, p) = <<>>
    BY <2>1, SubSeqEmpty
  <2>3. ~Enough
    <3>1. p < w
      BY <1>14, <1>23, <2>1
    <3>2. NewLine \notin Range(stdio)
      <4>1. ASSUME NEW i \in 1 .. p, s[i] = NewLine PROVE FALSE
        <5>1. i \in 1 .. q - 1 /\ i \in 1 .. q
          BY <1>23, <2>1
        <5> QED
          BY <1>11, <1>13, <1>15, <4>1, <5>1
      <4> QED
        BY <1>3, <1>4, <4>1 DEF Range
    <3> QED
      BY <1>0, <1>3, <1>4, <3>1, <3>2 DEF Enough
  <2> QED
    BY <1>18, <1>23, <1>24, <1>25, <2>2, <2>3 DEF Takes
<1> QED
  BY <1>14, <1>16, <1>21, <1>22, <1>23

\* A line is served once more: the last of those that were.
LEMMA InOrderMore ==
  ASSUME TypeOK, NEW j \in 1 .. Len(typed), InOrder(j - 1), typed' = typed,
         done' = IF Command(typed[j]) THEN Append(done, typed[j]) ELSE done
  PROVE  InOrder(j)'
<1>1. PICK l \in Line : l = typed[j] /\ l \in Text
  BY LineAssumption DEF TypeOK
<1>2. PICK N \in Nat : N = Len(done) /\ DOMAIN done = 1 .. N /\ done \in Seq(Text)
  BY DEF TypeOK
<1>3. PICK m \in Nat : m = j - 1 /\ j = m + 1
  <2>1. j \in Nat /\ j >= 1
    BY DEF TypeOK
  <2>2. j - 1 \in Nat
    BY <2>1
  <2> QED
    BY <2>1, <2>2
<1>4. PICK at \in [1 .. N -> 1 .. m] :
        /\ \A i, k \in 1 .. N : i < k => at[i] < at[k]
        /\ \A i \in 1 .. N : done[i] = typed[at[i]]
        /\ Range(at) = {k \in 1 .. m : Command(typed[k])}
  BY <1>2, <1>3 DEF InOrder
<1>5. CASE ~Command(l)
  <2>1. done' = done /\ at \in [1 .. N -> 1 .. j]
    BY <1>1, <1>3, <1>5
  <2>2. {k \in 1 .. m : Command(typed[k])} = {k \in 1 .. j : Command(typed[k])}
    BY <1>1, <1>3, <1>5
  <2> QED
    BY <1>2, <1>4, <2>1, <2>2 DEF InOrder
<1>6. CASE Command(l)
  <2>0. done' = Append(done, l)
    BY <1>1, <1>6
  <2>1. PICK M \in Nat : M = N + 1
    OBVIOUS
  <2>2. /\ Len(done') = M /\ DOMAIN done' = 1 .. M /\ done'[M] = l
        /\ \A i \in 1 .. N : done'[i] = done[i]
    BY <1>1, <1>2, <2>0, <2>1, AppendProperties
  <2> DEFINE to == [i \in 1 .. M |-> IF i = M THEN j ELSE at[i]]
  <2>3. to \in [1 .. M -> 1 .. j]
    BY <1>3, <1>4, <2>1
  <2>4. to[M] = j /\ \A i \in 1 .. N : to[i] = at[i] /\ at[i] \in 1 .. m
    BY <1>4, <2>1
  <2>5. \A i \in 1 .. M : i = M \/ i \in 1 .. N
    BY <2>1
  <2> HIDE DEF to
  <2>6. \A i, k \in 1 .. M : i < k => to[i] < to[k]
    <3> SUFFICES ASSUME NEW i \in 1 .. M, NEW k \in 1 .. M, i < k PROVE to[i] < to[k]
      OBVIOUS
    <3>1. i \in 1 .. N
      BY <2>1
    <3>2. CASE k = M
      <4>1. at[i] <= m
        BY <2>4, <3>1
      <4> QED
        BY <1>3, <2>4, <3>1, <3>2, <4>1
    <3>3. CASE k # M
      <4>1. k \in 1 .. N
        BY <2>5, <3>3
      <4> QED
        BY <1>4, <2>4, <3>1, <4>1
    <3> QED
      BY <3>2, <3>3
  <2>7. \A i \in 1 .. M : done'[i] = typed'[to[i]]
    <3> TAKE i \in 1 .. M
    <3>1. CASE i = M
      BY <1>1, <2>2, <2>4, <3>1
    <3>2. CASE i \in 1 .. N
      BY <1>4, <2>2, <2>4, <3>2
    <3> QED
      BY <2>5, <3>1, <3>2
  <2>8. Range(to) = {k \in 1 .. j : Command(typed'[k])}
    <3>1. ASSUME NEW i \in 1 .. M PROVE to[i] \in {k \in 1 .. j : Command(typed'[k])}
      <4>1. CASE i = M
        BY <1>1, <1>6, <2>3, <2>4, <4>1
      <4>2. CASE i \in 1 .. N
        <5>1. at[i] \in Range(at)
          BY <1>4, <4>2 DEF Range
        <5> QED
          BY <1>4, <2>3, <2>4, <4>2, <5>1
      <4> QED
        BY <2>5, <4>1, <4>2
    <3>2. ASSUME NEW k \in 1 .. j, Command(typed[k]) PROVE \E i \in 1 .. M : to[i] = k
      <4>1. CASE k = j
        BY <2>1, <2>4, <4>1
      <4>2. CASE k # j
        <5>1. k \in Range(at)
          BY <1>3, <1>4, <3>2, <4>2
        <5>2. PICK i \in 1 .. N : at[i] = k
          BY <1>4, <5>1 DEF Range
        <5> QED
          BY <2>1, <2>4, <5>2
      <4> QED
        BY <4>1, <4>2
    <3> QED
      BY <2>3, <3>1, <3>2 DEF Range
  <2> QED
    BY <2>2, <2>3, <2>6, <2>7, <2>8 DEF InOrder
<1> QED
  BY <1>5, <1>6

\* What fgets returns is taken off in front, and nothing else.
LEMMA InPlaceServed ==
  ASSUME TypeOK, InPlace, Serve
  PROVE  InPlace'
<1>1. /\ typed' = typed /\ kernel' = kernel /\ unwritten' = unwritten /\ eof' = eof
      /\ stdio' = Remaining
      /\ done' = IF Command(Stripped) THEN Append(done, Stripped) ELSE done
      /\ Enough \/ eof
  BY DEF Serve, Remaining, source
<1>2. /\ AllFit' = AllFit /\ Behind' = Behind
      /\ \A n, r : Unserved(n, r)' = Unserved(n, r) /\ LeftOf(n)' = LeftOf(n)
  BY <1>1 DEF AllFit, Fits, Behind, Unserved, Contents, LeftOf, Rest, Full
<1>3. CASE stdio = <<>>
  <2>1. Len(stdio) = 0
    BY <1>3
  <2>2. ~Enough
    <3>1. DOMAIN stdio = {}
      BY <1>3
    <3> QED
      BY <2>1, <3>1, Room DEF Enough, Range
  <2>3. eof
    BY <1>1, <2>2
  <2>4. Returned = 0
    BY <2>1, ReturnedFacts
  <2>5. stdio' = <<>>
    <3>1. SubSeq(stdio, 0 + 1, 0) = <<>>
      BY SubSeqEmpty
    <3> QED
      BY <1>1, <2>1, <2>4, <3>1 DEF Remaining
  <2>6. PICK n \in 0 .. Len(typed) : \E r \in LeftOf(n), z \in Seq(Symbol) :
          /\ stdio \o z = Unserved(n, r)
          /\ ~eof => z = Behind
          /\ AllFit /\ ~eof => InOrder(n)
    BY InPlaceMeans
  <2>7. PICK r \in LeftOf(n) : TRUE
    BY <2>6
  <2>8. IsPrefix(stdio', Unserved(n, r)')
    <3>1. PICK u \in Seq(Symbol) : u = Unserved(n, r)
      BY UnservedType
    <3>2. <<>> \in Seq(Symbol) /\ <<>> \o u = u
      BY ConcatEmptySeq
    <3>3. IsPrefix(<<>>, <<>> \o u)
      BY <3>2, PrefixOfConcat
    <3> QED
      BY <1>2, <2>5, <3>1, <3>2, <3>3
  <2>9. n \in 0 .. Len(typed') /\ r \in LeftOf(n)' /\ eof'
    BY <1>1, <1>2, <2>3
  <2> QED
    BY <2>8, <2>9, Zenon DEF InPlace
<1>4. CASE stdio # <<>>
  <2>1. PICK j \in 1 .. Len(typed), k \in Nat, d \in Nat, z \in Seq(Symbol) : Takes(j, k, d, z)
    BY <1>4, FgetsTakes
  <2>2. PICK l \in Line : l = typed[j] /\ l \in Seq(Char)
    BY LineAssumption DEF TypeOK, Text
  <2>3. PICK v \in Seq(Symbol) : v = Contents(SubSeq(typed, j + 1, Len(typed)))
    <3>1. PICK N \in Nat : N = Len(typed) /\ j \in 0 .. N
      BY DEF TypeOK
    <3> QED
      BY <3>1, AfterType DEF TypeOK
  <2>4. Unserved(j, <<>>) = v
    <3>1. <<>> \o v = v
      BY ConcatEmptySeq
    <3> QED
      BY <2>3, <3>1 DEF Unserved
  <2>5. /\ ~eof => z = Behind
        /\ AllFit /\ ~eof => k = 0 /\ InOrder(j - 1)
        /\ Gone(k) = d
    BY <2>1 DEF Takes
  <2>6. j \in 0 .. Len(typed') /\ <<>> \in LeftOf(j)'
    BY <1>1 DEF LeftOf, TypeOK
  <2>7. Remaining \in Seq(Symbol)
    <3>1. Returned \in 0 .. Len(stdio)
      BY ReturnedFacts
    <3>2. PICK p \in Nat : p = Len(stdio) /\ stdio \in Seq(Symbol)
      BY DEF TypeOK, Symbol
    <3> QED
      BY <3>1, <3>2, LastOf DEF Remaining
  <2>8. CASE /\ Returned = Len(typed[j]) + 1 - d
             /\ Remaining \o z = Contents(SubSeq(typed, j + 1, Len(typed)))
    <3>1. ~eof' => stdio' \o (FlattenSeq(kernel') \o unwritten') = Unserved(j, <<>>)'
      BY <1>1, <1>2, <2>3, <2>4, <2>5, <2>8 DEF Behind
    <3>2. eof' => IsPrefix(stdio', Unserved(j, <<>>)')
      <4>1. IsPrefix(Remaining, Remaining \o z)
        BY <2>7, PrefixOfConcat
      <4> QED
        BY <1>1, <1>2, <2>3, <2>4, <2>8, <4>1
    <3>3. AllFit' /\ ~eof' => InOrder(j)'
      <4> SUFFICES ASSUME AllFit, ~eof PROVE InOrder(j)'
        BY <1>1, <1>2
      <4>1. d = 0
        <5>1. PICK w \in Nat : Size = w + 1
          BY Room
        <5> QED
          BY <2>5, <5>1, GoneFacts
      <4>2. PICK m \in Nat : m = Len(l) /\ m \in 0 .. Len(l)
        BY <2>2
      <4>3. Stripped = SubSeq(l, 1, m)
        <5>1. Stripped = SubSeq(l, 0 + 1, 0 + (m + 1 - 0) - 1)
          BY <2>1, <2>2, <2>8, <4>1, <4>2 DEF Takes
        <5>2. 0 + 1 = 1 /\ 0 + (m + 1 - 0) - 1 = m
          OBVIOUS
        <5> QED
          BY <5>1, <5>2
      <4>4. SubSeq(l, 1, m) = l
        <5> DEFINE f == SubSeq(l, 1, m)
        <5>1. f \in Seq(Char) /\ Len(f) = m /\ \A i \in 1 .. m : f[i] = l[i]
          BY <2>2, <4>2, FirstOf
        <5> HIDE DEF f
        <5>2. f = l
          BY <2>2, <4>2, <5>1, SeqEqual
        <5> QED
          BY <5>2 DEF f
      <4>5. done' = IF Command(typed[j]) THEN Append(done, typed[j]) ELSE done
        BY <1>1, <2>2, <4>3, <4>4
      <4> QED
        BY <1>1, <2>5, <4>5, InOrderMore
    <3> QED
      BY <2>6, <3>1, <3>2, <3>3, Zenon DEF InPlace
  <2>9. CASE /\ Returned < Len(typed[j]) + 1 - d /\ Returned = Size - 1
             /\ Remaining \o z = Rest(typed[j], k + 1) \o Contents(SubSeq(typed, j + 1, Len(typed)))
    <3>0. PICK w \in Nat : w = Size - 1 /\ Size = w + 1 /\ w >= 1
      BY Room
    <3>1. PICK m \in Nat : m = Len(l)
      BY <2>2
    <3>2. w < m + 1 - d
      BY <2>2, <2>9, <3>0, <3>1
    <3>3. Gone(k + 1) = d + w /\ Gone(k + 1) >= k + 1
      BY <2>5, <3>0, GoneFacts
    <3>4. k + 1 \in 1 .. Len(l) /\ Full(l, k + 1)
      <4>1. Gone(k + 1) <= m
        BY <3>2, <3>3
      <4>2. k + 1 \in 1 .. m
        BY <3>2, <3>3
      <4> QED
        BY <3>1, <4>1, <4>2 DEF Full, Gone
    <3> DEFINE x == Rest(l, k + 1)
    <3>5. x \in LeftOf(j)
      <4>1. j # 0
        BY DEF TypeOK
      <4> QED
        BY <2>2, <3>4, <4>1 DEF LeftOf
    <3>6. Remaining \o z = Unserved(j, x)
      BY <2>2, <2>9 DEF Unserved
    <3> HIDE DEF x
    <3>7. ~eof' => stdio' \o (FlattenSeq(kernel') \o unwritten') = Unserved(j, x)'
      BY <1>1, <1>2, <2>5, <3>6 DEF Behind
    <3>8. eof' => IsPrefix(stdio', Unserved(j, x)')
      <4>1. IsPrefix(Remaining, Remaining \o z)
        BY <2>7, PrefixOfConcat
      <4> QED
        BY <1>1, <1>2, <3>6, <4>1
    <3>9. ~(AllFit' /\ ~eof')
      <4> SUFFICES ASSUME AllFit, ~eof PROVE FALSE
        BY <1>1, <1>2
      <4>1. d = 0
        BY <2>5, <3>0, GoneFacts
      <4>2. m + 1 <= w
        <5>1. j \in DOMAIN typed
          BY DEF TypeOK
        <5>2. Len(l) + 1 <= Size - 1
          BY <2>2, <5>1 DEF AllFit, Fits
        <5> QED
          BY ONLY <3>0, <3>1, <5>2
      <4> QED
        BY <3>2, <4>1, <4>2
    <3>10. j \in 0 .. Len(typed') /\ x \in LeftOf(j)'
      BY <1>2, <2>6, <3>5
    <3> QED
      BY <3>7, <3>8, <3>9, <3>10, Zenon DEF InPlace
  <2>10. CASE ~Enough /\ Remaining = <<>>
    <3>1. eof'
      BY <1>1, <2>10
    <3>2. IsPrefix(stdio', Unserved(j, <<>>)')
      <4>1. <<>> \in Seq(Symbol) /\ <<>> \o v = v
        BY ConcatEmptySeq
      <4>2. IsPrefix(<<>>, <<>> \o v)
        BY <4>1, PrefixOfConcat
      <4> QED
        BY <1>1, <1>2, <2>4, <2>10, <4>1, <4>2
    <3> QED
      BY <2>6, <3>1, <3>2, Zenon DEF InPlace
  <2> QED
    BY <2>1, <2>8, <2>9, <2>10 DEF Takes
<1> QED
  BY <1>3, <1>4

-----------------------------------------------------------------------------
\* At first there is nothing anywhere, and the buffer is a piece of itself.
LEMMA InitPlaces ==
  ASSUME Init
  PROVE  OneText /\ InPlace /\ BufferIsAPiece /\ CommandsWereTyped
<1>1. /\ typed = <<>> /\ unwritten = <<>> /\ kernel = <<>> /\ stdio = <<>> /\ done = <<>>
      /\ eof = FALSE /\ buffer \in Junk /\ junk = buffer
  BY DEF Init
<1>2. Len(<<>>) = 0 /\ DOMAIN <<>> = {} /\ <<>> \in Seq(Line)
  OBVIOUS
<1>3. OneText
  BY <1>1, <1>2 DEF OneText
<1>4. CommandsWereTyped
  BY <1>1, <1>2 DEF CommandsWereTyped
<1>5. BufferIsAPiece
  <2>1. PICK b \in Seq(Char) : b = buffer
    BY <1>1, LineAssumption DEF Text
  <2>2. PICK N \in Nat : N = Len(b)
    BY <2>1
  <2>3. CASE b # <<>>
    <3>1. N >= 1
      BY <2>2, <2>3, EmptySeq
    <3>2. b = SubSeq(b, 1, N)
      BY <2>2, SubSeqFull
    <3>3. Piece_Of(b, b)
      BY <2>2, <3>1, <3>2 DEF Piece_Of
    <3> QED
      BY <1>1, <2>1, <3>3 DEF BufferIsAPiece
  <2> QED
    BY <2>1, <2>3 DEF BufferIsAPiece
<1>6. InPlace
  <2>1. FlattenSeq(kernel) \o unwritten = <<>>
    BY <1>1, FlattenEmpty, ConcatEmptySeq
  <2>2. stdio \o (FlattenSeq(kernel) \o unwritten) = <<>>
    BY <1>1, <2>1
  <2>3. Contents(SubSeq(typed, 0 + 1, Len(typed))) = <<>>
    BY <1>1, <1>2, AfterNone
  <2>4. Unserved(0, <<>>) = <<>>
    BY <2>3 DEF Unserved
  <2>5. <<>> \in LeftOf(0) /\ 0 \in 0 .. Len(typed)
    BY <1>1, <1>2 DEF LeftOf
  <2>6. InOrder(0)
    <3> DEFINE at == [i \in DOMAIN done |-> 0]
    <3>1. at \in [DOMAIN done -> 1 .. 0] /\ DOMAIN done = {} /\ Range(at) = {}
      BY <1>1, <1>2 DEF Range
    <3>2. {j \in 1 .. 0 : Command(typed[j])} = {}
      OBVIOUS
    <3> HIDE DEF at
    <3>3. \A i, j \in DOMAIN done : i < j => at[i] < at[j]
      BY <3>1
    <3> QED
      BY <3>1, <3>2, <3>3 DEF InOrder
  <2> QED
    BY <1>1, <2>2, <2>4, <2>5, <2>6, Zenon DEF InPlace
<1> QED
  BY <1>3, <1>4, <1>5, <1>6

\* A pipe is written to what the kernel has of it.
LEMMA OneTextStep ==
  ASSUME TypeOK, OneText, [Next]_vars
  PROVE  OneText'
<1>1. kernel \in Seq(Seq(Symbol)) /\ kind' = kind
  BY DEF TypeOK, Symbol, Next, Environment, Process, vars, source, Type, TypeEnd, Begin, Write,
         CloseWriter, SomethingElse, Poll, ServeOthers, Read, Serve
<1>2. SUFFICES ASSUME kind # "terminal" PROVE Len(kernel') <= 1
  BY <1>1 DEF OneText
<1>3. Len(kernel) \in Nat /\ Len(kernel) <= 1
  BY <1>1, <1>2 DEF OneText
<1>4. CASE Write
  <2>1. PICK x : kernel' = <<x>>
    BY <1>4 DEF Write
  <2>2. Len(<<x>>) = 1
    OBVIOUS
  <2> QED
    BY <2>1, <2>2
<1>5. CASE Read
  <2>1. CASE kernel # <<>> /\ kernel' = Tail(kernel)
    <3>1. Len(Tail(kernel)) = Len(kernel) - 1
      BY <1>1, <2>1, HeadTailProperties
    <3> QED
      BY <1>3, <2>1, <3>1
  <2> QED
    BY <1>3, <1>5, <2>1 DEF Read
<1>6. CASE UNCHANGED kernel
  BY <1>3, <1>6
<1> QED
  BY <1>2, <1>4, <1>5, <1>6 DEF Next, Environment, Process, vars, source, Type, TypeEnd, Begin,
     CloseWriter, SomethingElse, Poll, ServeOthers, Serve

\* What is written to a pipe is behind what the kernel has.
LEMMA WriteKeeps ==
  ASSUME TypeOK, AtTerminal, OneText, Write
  PROVE  Behind' = Behind
<1>1. PICK n \in 1 .. Len(unwritten) :
        /\ unwritten' = SubSeq(unwritten, n + 1, Len(unwritten))
        /\ kernel' = <<There \o SubSeq(unwritten, 1, n)>>
  BY DEF Write
<1>2. kernel \in Seq(Seq(Symbol)) /\ Len(kernel) \in Nat
  BY DEF TypeOK, Symbol
<1>3. PICK u \in Seq(Symbol) : u = unwritten
  BY DEF TypeOK, Symbol
<1>4. PICK m \in Nat : m = Len(u) /\ n \in 1 .. m
  BY <1>3
<1>5. Len(kernel) <= 1
  BY DEF Write, AtTerminal, OneText
<1>6. There \in Seq(Symbol) /\ FlattenSeq(kernel) = There
  <2>1. CASE kernel = <<>>
    BY <2>1, FlattenEmpty DEF There
  <2>2. CASE kernel # <<>>
    <3>1. /\ Head(kernel) \in Seq(Symbol) /\ Tail(kernel) \in Seq(Seq(Symbol))
          /\ Len(Tail(kernel)) = Len(kernel) - 1 /\ Len(kernel) \in Nat \ {0}
      BY <1>2, <2>2, HeadTailProperties, EmptySeq
    <3>2. Tail(kernel) = <<>>
      <4>1. Len(Tail(kernel)) = 0
        BY <1>5, <3>1
      <4> QED
        BY <3>1, <4>1, EmptySeq
    <3>3. FlattenSeq(kernel) = Head(kernel) \o FlattenSeq(Tail(kernel))
      BY <1>2, <2>2, FlattenHeadTail
    <3> QED
      BY <2>2, <3>1, <3>2, <3>3, FlattenEmpty, ConcatEmptySeq DEF There
  <2> QED
    BY <2>1, <2>2
<1>7. PICK t \in Seq(Symbol) : t = There
  BY <1>6
<1>8. PICK a \in Seq(Symbol) : a = SubSeq(u, 1, n)
  <2>1. n \in 0 .. Len(u)
    BY <1>4
  <2> QED
    BY <2>1, FirstOf
<1>9. PICK b \in Seq(Symbol) : b = SubSeq(u, n + 1, m)
  <2>1. n \in 0 .. m /\ m = Len(u)
    BY <1>4
  <2> QED
    BY <2>1, LastOf
<1>10. a \o b = u
  <2>1. /\ m = Len(u) /\ 1 \in 1 .. Len(u) + 1 /\ n \in 1 - 1 .. Len(u) /\ m \in n .. Len(u)
    BY <1>4
  <2>2. SubSeq(u, 1, n) \o SubSeq(u, n + 1, m) = SubSeq(u, 1, m)
    BY <2>1, ConcatAdjacentSubSeq
  <2>3. SubSeq(u, 1, Len(u)) = u
    BY SubSeqFull
  <2> QED
    BY <1>4, <1>8, <1>9, <2>2, <2>3
<1>11. PICK c \in Seq(Symbol) : c = t \o a
  BY ConcatProperties
<1>12. FlattenSeq(<<c>>) = c
  <2>1. <<>> \in Seq(Seq(Symbol)) /\ Append(<<>>, c) = <<c>>
    OBVIOUS
  <2>2. FlattenSeq(Append(<<>>, c)) = FlattenSeq(<<>>) \o c
    BY <2>1, FlattenAppend
  <2> QED
    BY <2>1, <2>2, FlattenEmpty, ConcatEmptySeq
<1>13. (t \o a) \o b = t \o (a \o b)
  BY ONLY t \in Seq(Symbol), a \in Seq(Symbol), b \in Seq(Symbol), SymbolsAssociate
<1>14. Behind' = c \o b
  BY <1>1, <1>3, <1>4, <1>7, <1>8, <1>9, <1>11, <1>12 DEF Behind
<1>15. Behind = t \o u
  BY <1>3, <1>6, <1>7 DEF Behind
<1> QED
  BY <1>10, <1>11, <1>13, <1>14, <1>15

\* Whatever happens, what was typed is in its place.
LEMMA InPlaceStep ==
  ASSUME TypeOK, AtTerminal, OneText, InPlace, [Next]_vars
  PROVE  InPlace'
<1>1. /\ kernel \in Seq(Seq(Symbol)) /\ stdio \in Seq(Symbol) /\ unwritten \in Seq(Symbol)
      /\ FlattenSeq(kernel) \in Seq(Symbol) /\ Behind \in Seq(Symbol)
  BY BehindType DEF TypeOK, Symbol
<1>2. CASE Type
  <2>1. PICK l \in Line : typed' = Append(typed, l) /\ kernel' = Append(kernel, Append(l, NewLine))
    BY <1>2 DEF Type
  <2>2. unwritten = <<>> /\ UNCHANGED <<unwritten, stdio, eof, done>>
    BY <1>2 DEF Type, AtTerminal
  <2>3. PICK x \in Seq(Symbol) : x = Append(l, NewLine)
    BY LineTypes
  <2>4. FlattenSeq(kernel') = FlattenSeq(kernel) \o x
    BY <1>1, <2>1, <2>3, FlattenAppend
  <2>5. PICK f \in Seq(Symbol) : f = FlattenSeq(kernel)
    BY <1>1
  <2>6. f \o x \in Seq(Symbol)
    BY ConcatProperties
  <2>7. (f \o x) \o <<>> = f \o x /\ f \o <<>> = f
    BY <2>6, ConcatEmptySeq
  <2>8. Behind' = Behind \o x
    BY <2>2, <2>4, <2>5, <2>7 DEF Behind
  <2> QED
    BY <2>1, <2>2, <2>3, <2>8, InPlaceMore
<1>3. CASE TypeEnd
  <2>1. kernel' = Append(kernel, <<>>) /\ UNCHANGED <<typed, unwritten, stdio, eof, done>>
    BY <1>3 DEF TypeEnd, source
  <2>2. <<>> \in Seq(Symbol)
    OBVIOUS
  <2>3. FlattenSeq(kernel') = FlattenSeq(kernel)
    BY <1>1, <2>1, <2>2, FlattenAppend, ConcatEmptySeq
  <2>4. PICK y \in Seq(Symbol) : y = stdio
    BY <1>1
  <2>5. PICK b \in Seq(Symbol) : b = Behind
    BY <1>1
  <2>6. b = Behind' /\ stdio' = y
    BY <2>1, <2>3, <2>4, <2>5 DEF Behind
  <2> QED
    BY <2>1, <2>4, <2>5, <2>6, InPlaceMoved
<1>4. CASE Begin
  <2>1. PICK l \in Line : typed' = Append(typed, l) /\ unwritten' = Append(l, NewLine)
    BY <1>4 DEF Begin
  <2>2. unwritten = <<>> /\ UNCHANGED <<kernel, stdio, eof, done>>
    BY <1>4 DEF Begin
  <2>3. Behind = FlattenSeq(kernel)
    BY <1>1, <2>2, ConcatEmptySeq DEF Behind
  <2>4. Behind' = Behind \o Append(l, NewLine)
    BY <2>1, <2>2, <2>3 DEF Behind
  <2> QED
    BY <2>1, <2>2, <2>4, InPlaceMore
<1>5. CASE Write
  <2>1. UNCHANGED <<typed, stdio, eof, done>>
    BY <1>5 DEF Write
  <2>2. PICK y \in Seq(Symbol) : y = stdio
    BY <1>1
  <2>3. PICK b \in Seq(Symbol) : b = Behind
    BY <1>1
  <2>4. b = Behind' /\ stdio' = y
    BY <1>5, <2>1, <2>2, <2>3, WriteKeeps
  <2> QED
    BY <2>1, <2>2, <2>3, <2>4, InPlaceMoved
<1>6. CASE Read
  <2>1. UNCHANGED <<typed, unwritten, done>> /\ ~eof
    BY <1>6 DEF Read, source
  <2>2. CASE kernel # <<>> /\ stdio' = stdio \o Head(kernel) /\ kernel' = Tail(kernel)
    <3>1. PICK first \in Seq(Symbol) : first = Head(kernel)
      BY <1>1, <2>2, HeadTailProperties
    <3>2. Tail(kernel) \in Seq(Seq(Symbol))
      BY <1>1, <2>2, HeadTailProperties
    <3>3. PICK others \in Seq(Symbol) : others = FlattenSeq(Tail(kernel))
      BY <3>2, FlattenType
    <3>4. FlattenSeq(kernel) = first \o others
      BY <1>1, <2>2, <3>1, <3>3, FlattenHeadTail
    <3>5. PICK s \in Seq(Symbol) : s = stdio
      BY <1>1
    <3>6. PICK rest \in Seq(Symbol) : rest = unwritten
      BY <1>1
    <3>7. (first \o others) \o rest = first \o (others \o rest)
      BY ONLY first \in Seq(Symbol), others \in Seq(Symbol), rest \in Seq(Symbol), SymbolsAssociate
    <3>8. PICK b \in Seq(Symbol) : b = others \o rest
      BY ConcatProperties
    <3>9. PICK y \in Seq(Symbol) : y = s \o first
      BY ConcatProperties
    <3>10. (s \o first) \o b = s \o (first \o b)
      BY ONLY s \in Seq(Symbol), first \in Seq(Symbol), b \in Seq(Symbol), SymbolsAssociate
    <3>11. Behind = first \o b
      BY <3>4, <3>6, <3>7, <3>8 DEF Behind
    <3>12. y \o b = stdio \o Behind
      BY <3>5, <3>9, <3>10, <3>11
    <3>13. b = Behind' /\ stdio' = y
      BY <2>1, <2>2, <3>1, <3>3, <3>5, <3>6, <3>8, <3>9 DEF Behind
    <3> QED
      BY <2>1, <3>12, <3>13, InPlaceMoved
  <2>3. CASE UNCHANGED <<stdio, kernel>>
    <3>1. PICK y \in Seq(Symbol) : y = stdio
      BY <1>1
    <3>2. PICK b \in Seq(Symbol) : b = Behind
      BY <1>1
    <3>3. b = Behind' /\ stdio' = y /\ y \o b = stdio \o Behind
      BY <2>1, <2>3, <3>1, <3>2 DEF Behind
    <3> QED
      BY <2>1, <3>3, InPlaceMoved
  <2> QED
    BY <1>6, <2>2, <2>3 DEF Read
<1>7. CASE Serve
  BY <1>7, InPlaceServed
<1>8. CASE UNCHANGED <<typed, kernel, unwritten, stdio, eof, done>>
  BY <1>8, InPlaceStays
<1> QED
  BY <1>2, <1>3, <1>4, <1>5, <1>6, <1>7, <1>8
     DEF Next, Environment, Process, vars, source, CloseWriter, SomethingElse, Poll, ServeOthers

-----------------------------------------------------------------------------
\* Where the text comes from that Serve looks up.
Whole(t) == \E j \in DOMAIN typed : Tail_Of(typed[j], t)
Part(t) == \E l \in Range(typed) \cup {junk} : Piece_Of(l, t)

\* A part of a part is one.
LEMMA PieceOfPiece ==
  ASSUME NEW l \in Seq(Char), NEW t, Piece_Of(l, t), t # <<>>, Front(t) # <<>>
  PROVE  Piece_Of(l, Front(t))
<1>1. PICK N \in Nat : N = Len(l)
  OBVIOUS
<1>2. PICK m \in 1 .. N, n \in 1 .. N : t = SubSeq(l, m, n)
  BY <1>1 DEF Piece_Of
<1>3. m <= n
  <2>1. ASSUME n < m PROVE FALSE
    <3>1. SubSeq(l, m, n) = <<>>
      BY <1>2, <2>1, SubSeqEmpty
    <3> QED
      BY <1>2, <3>1
  <2> QED
    BY <1>2, <2>1
<1>4. PICK q \in Nat : q = n - m + 1 /\ q >= 1
  <2>1. n - m + 1 \in Nat /\ n - m + 1 >= 1
    BY <1>2, <1>3
  <2> QED
    BY <2>1
<1>5. t \in Seq(Char) /\ Len(t) = q
  BY <1>1, <1>2, <1>3, <1>4, PartOf
<1>6. Front(t) = SubSeq(t, 1, q - 1)
  BY <1>5 DEF Front
<1>7. q # 1
  <2>1. ASSUME q = 1 PROVE FALSE
    <3>1. SubSeq(t, 1, 0) = <<>>
      BY SubSeqEmpty
    <3> QED
      BY <1>6, <2>1, <3>1
  <2> QED
    BY <2>1
<1>8. PICK p \in Nat : p = q - 1 /\ p >= 1 /\ n - 1 \in 1 .. N /\ m + p - 1 = n - 1
  <2>1. q - 1 \in Nat /\ q - 1 >= 1
    BY <1>4, <1>7
  <2>2. n - 1 \in 1 .. N /\ m + (q - 1) - 1 = n - 1
    BY <1>2, <1>4, <1>7
  <2> QED
    BY <2>1, <2>2
<1>9. SubSeq(SubSeq(l, m, n), 1, p) = SubSeq(l, m + 1 - 1, m + p - 1)
  <2>1. m \in 1 .. Len(l) /\ n \in 1 .. Len(l) /\ 1 \in 1 .. n - m + 1 /\ p \in 1 .. n - m + 1
    BY <1>1, <1>2, <1>4, <1>8
  <2>2. l \in Seq(Char) /\ t \in Seq(Char)
    BY <1>5
  <2> QED
    BY <2>1, <2>2, SubSeqOfSubSeq
<1>10. Front(t) = SubSeq(l, m, n - 1)
  <2>1. m + 1 - 1 = m
    BY <1>2
  <2> QED
    BY <1>2, <1>6, <1>8, <1>9, <2>1
<1> QED
  BY <1>1, <1>2, <1>8, <1>10 DEF Piece_Of

\* A command is short.
LEMMA CommandIsShort ==
  ASSUME NEW t \in Seq(Char), Command(t)
  PROVE  t # <<>> /\ Len(t) <= MaxMessage + 1
<1>1. MaxMessage \in Nat /\ Len(t) \in Nat
  BY Room
<1>2. CASE t = <<Exit>>
  <2>1. Len(<<Exit>>) = 1 /\ Len(<<>>) = 0
    OBVIOUS
  <2> QED
    BY <1>1, <1>2, <2>1
<1>3. CASE t # <<>> /\ ValidateMessage(Tail(t))
  <2>1. Len(Tail(t)) = Len(t) - 1
    BY <1>3, HeadTailProperties
  <2>2. Len(Tail(t)) <= MaxMessage
    BY <1>3 DEF ValidateMessage
  <2> QED
    BY <1>1, <1>3, <2>1, <2>2
<1> QED
  BY <1>2, <1>3 DEF Command

\* fgets returns nothing only when the input has ended.
LEMMA NothingAtEnd ==
  ASSUME TypeOK, Serve, stdio = <<>>
  PROVE  eof /\ Got = buffer
<1>1. Len(stdio) = 0 /\ DOMAIN stdio = {}
  OBVIOUS
<1>2. ~Enough
  BY <1>1, Room DEF Enough, Range
<1> QED
  BY <1>2 DEF Serve, Got

\* It is always a part of a line, or of what the buffer held at first.
LEMMA StrippedIsPart ==
  ASSUME TypeOK, InPlace, BufferIsAPiece, Serve, Stripped # <<>>
  PROVE  Part(Stripped)
<1>1. CASE stdio = <<>>
  <2>1. Got = buffer /\ buffer # <<>> /\ Stripped = Front(buffer)
    BY <1>1, NothingAtEnd DEF Stripped
  <2>2. PICK l \in Range(typed) \cup {junk} : Piece_Of(l, buffer)
    BY <2>1 DEF BufferIsAPiece
  <2>3. l \in Seq(Char)
    BY <2>2, LineAssumption DEF TypeOK, Range, Text
  <2>4. Piece_Of(l, Front(buffer))
    BY <2>1, <2>2, <2>3, PieceOfPiece
  <2> QED
    BY <2>1, <2>2, <2>4 DEF Part
<1>2. CASE stdio # <<>>
  <2>1. PICK j \in 1 .. Len(typed), k \in Nat, d \in Nat, z \in Seq(Symbol) : Takes(j, k, d, z)
    BY <1>2, FgetsTakes
  <2>2. PICK l \in Line : l = typed[j] /\ l \in Seq(Char) /\ l \in Range(typed)
    BY LineAssumption DEF TypeOK, Text, Range
  <2>3. PICK m \in Nat : m = Len(l)
    BY <2>2
  <2>4. PICK e \in Nat : e = Returned /\ e >= 1 /\ e <= m + 1 - d /\ d <= m
    BY <2>1, <2>2, <2>3 DEF Takes
  <2>5. Stripped = SubSeq(l, d + 1, d + e - 1)
    BY <2>1, <2>2, <2>4 DEF Takes
  <2>6. e # 1
    <3>1. ASSUME e = 1 PROVE FALSE
      <4>1. SubSeq(l, d + 1, d + 1 - 1) = <<>>
        <5>1. d + 1 \in Int /\ d + 1 - 1 \in Int /\ d + 1 - 1 < d + 1
          OBVIOUS
        <5> QED
          BY <5>1, SubSeqEmpty
      <4> QED
        BY <2>5, <3>1, <4>1
    <3> QED
      BY <3>1
  <2>7. d + 1 \in 1 .. m /\ d + e - 1 \in 1 .. m
    BY <2>4, <2>6
  <2>8. Piece_Of(l, Stripped)
    BY <2>3, <2>5, <2>7 DEF Piece_Of
  <2> QED
    BY <2>2, <2>8 DEF Part
<1> QED
  BY <1>1, <1>2

\* Before the end of the input a command is the whole rest of a line: a full
\* buffer is too long for one.
LEMMA CommandIsWhole ==
  ASSUME TypeOK, InPlace, Serve, Command(Stripped)
  PROVE  Whole(Stripped) \/ eof
<1>1. CASE stdio = <<>>
  BY <1>1, NothingAtEnd
<1>2. CASE stdio # <<>>
  <2>1. PICK j \in 1 .. Len(typed), k \in Nat, d \in Nat, z \in Seq(Symbol) : Takes(j, k, d, z)
    BY <1>2, FgetsTakes
  <2>2. PICK l \in Line : l = typed[j] /\ l \in Seq(Char) /\ j \in DOMAIN typed
    BY LineAssumption DEF TypeOK, Text
  <2>3. PICK m \in Nat : m = Len(l)
    BY <2>2
  <2>4. PICK e \in Nat : e = Returned /\ e >= 1 /\ e <= m + 1 - d /\ d <= m /\ Gone(k) = d
    BY <2>1, <2>2, <2>3 DEF Takes
  <2>5. Stripped = SubSeq(l, d + 1, d + e - 1)
    BY <2>1, <2>2, <2>4 DEF Takes
  <2>6. PICK w \in Nat : w = Size - 1 /\ Size = w + 1 /\ w >= 1 /\ MaxMessage + 1 < w - 1
    BY Room
  <2>7. CASE e = m + 1 - d
    <3>1. d + e - 1 = m
      BY <2>4, <2>7
    <3>2. k \in 0 .. m /\ k * (Size - 1) = d
      <4>1. Gone(k) >= k
        BY <2>6, GoneFacts
      <4> QED
        BY <2>4, <4>1 DEF Gone
    <3>3. Tail_Of(l, Stripped)
      BY <2>3, <2>5, <3>1, <3>2 DEF Tail_Of
    <3> QED
      BY <2>2, <3>3 DEF Whole
  <2>8. CASE e < m + 1 - d /\ e = w
    <3>1. d + 1 \in Nat /\ d + 1 >= 1 /\ d + e - 1 \in Nat /\ d + 1 <= d + e - 1 + 1 /\ d + e - 1 <= m
      BY <2>4, <2>6, <2>8
    <3>2. PICK a \in Nat, b \in Nat : a = d + 1 /\ b = d + e - 1 /\ b - a + 1 = w - 1
      BY <2>4, <2>6, <2>8, <3>1
    <3>3. /\ SubSeq(l, a, b) \in Seq(Char) /\ Len(SubSeq(l, a, b)) = b - a + 1
      BY <2>2, <2>3, <3>1, <3>2, PartOf
    <3>4. Stripped \in Seq(Char) /\ Len(Stripped) = w - 1
      BY <2>5, <3>2, <3>3
    <3>5. Len(Stripped) <= MaxMessage + 1
      BY <3>4, CommandIsShort
    <3> QED
      BY <2>6, <3>4, <3>5, Room
  <2>9. CASE ~Enough
    BY <2>9 DEF Serve
  <2> QED
    BY <2>1, <2>2, <2>3, <2>4, <2>6, <2>7, <2>8, <2>9 DEF Takes
<1> QED
  BY <1>1, <1>2

\* A line that was typed stays typed, and the input stays ended.
LEMMA TypedStays ==
  ASSUME TypeOK, [Next]_vars
  PROVE  /\ eof => eof'
         /\ \A t : (Whole(t) => Whole(t)') /\ (Part(t) => Part(t)')
<1>1. (eof => eof') /\ junk' = junk
  BY DEF Next, Environment, Process, vars, source, Type, TypeEnd, Begin, Write, CloseWriter,
         SomethingElse, Poll, ServeOthers, Read, Serve
<1>2. typed' = typed \/ \E l \in Line : typed' = Append(typed, l)
  BY DEF Next, Environment, Process, vars, source, Type, TypeEnd, Begin, Write, CloseWriter,
         SomethingElse, Poll, ServeOthers, Read, Serve
<1>3. \A j \in DOMAIN typed : j \in DOMAIN typed' /\ typed'[j] = typed[j]
  <2>1. PICK N \in Nat : N = Len(typed) /\ DOMAIN typed = 1 .. N /\ typed \in Seq(Line)
    BY DEF TypeOK
  <2>2. CASE \E l \in Line : typed' = Append(typed, l)
    <3>1. PICK l \in Line : typed' = Append(typed, l)
      BY <2>2
    <3>2. /\ typed' \in Seq(Line) /\ Len(typed') = N + 1
          /\ \A j \in 1 .. N : typed'[j] = typed[j]
      BY <2>1, <3>1, AppendProperties
    <3>3. DOMAIN typed' = 1 .. N + 1
      BY <3>2
    <3> QED
      BY <2>1, <3>2, <3>3
  <2> QED
    BY <1>2, <2>2
<1>4. \A l \in Range(typed) : l \in Range(typed')
  BY <1>3 DEF Range
<1>5. \A t : Whole(t) => Whole(t)'
  BY <1>3 DEF Whole, Tail_Of
<1>6. \A t : Part(t) => Part(t)'
  BY <1>1, <1>4 DEF Part, Piece_Of
<1> QED
  BY <1>1, <1>5, <1>6

\* The buffer changes only when fgets returns.
LEMMA BufferStep ==
  ASSUME TypeOK, InPlace, BufferIsAPiece, [Next]_vars
  PROVE  BufferIsAPiece'
<1>1. CASE Serve
  <2>1. buffer' = Stripped
    BY <1>1 DEF Serve
  <2>2. PICK x \in Text : x = Stripped
    BY StrippedFacts
  <2>3. x = <<>> \/ Part(x)'
    BY <1>1, <2>2, StrippedIsPart, TypedStays
  <2> QED
    BY <2>1, <2>2, <2>3 DEF BufferIsAPiece, Part
<1>2. CASE UNCHANGED buffer
  <2>1. buffer = <<>> \/ Part(buffer)
    BY DEF BufferIsAPiece, Part
  <2>2. buffer = <<>> \/ \E l \in Range(typed') \cup {junk'} : Piece_Of(l, buffer)
    BY <2>1, TypedStays DEF Part, Piece_Of
  <2> QED
    BY <1>2, <2>2 DEF BufferIsAPiece, Piece_Of
<1> QED
  BY <1>1, <1>2 DEF Next, Environment, Process, vars, source, Type, TypeEnd, Begin, Write,
     CloseWriter, SomethingElse, Poll, ServeOthers, Read

\* And so does what was done.
LEMMA CommandsStep ==
  ASSUME TypeOK, TypeOK', InPlace, BufferIsAPiece, CommandsWereTyped, [Next]_vars
  PROVE  CommandsWereTyped'
<1>0. done' \in Seq(Text)
  BY DEF TypeOK
<1> DEFINE Came(t) == Whole(t) \/ (eof /\ Part(t))
<1>1. \A i \in DOMAIN done : Came(done[i])
  BY DEF CommandsWereTyped, Whole, Part
<1>2. \A t : Came(t) => Came(t)'
  BY TypedStays
<1>3. \A t \in Text : (\E i \in DOMAIN done' : t = done'[i]) => Came(t)'
  <2>1. CASE UNCHANGED done
    BY <1>1, <1>2, <2>1
  <2>2. CASE Serve /\ Command(Stripped)
    <3>1. PICK x \in Text : x = Stripped
      BY StrippedFacts
    <3>2. done' = Append(done, x)
      BY <2>2, <3>1 DEF Serve
    <3>3. Came(x)
      <4>1. Stripped # <<>>
        BY <2>2, <3>1, CommandIsShort DEF Text
      <4> QED
        BY <2>2, <3>1, <4>1, CommandIsWhole, StrippedIsPart
    <3>4. PICK N \in Nat : N = Len(done) /\ DOMAIN done = 1 .. N /\ done \in Seq(Text)
      BY DEF TypeOK
    <3>5. /\ DOMAIN done' = 1 .. N + 1 /\ done'[N + 1] = x
          /\ \A i \in 1 .. N : done'[i] = done[i]
      BY <3>2, <3>4, AppendProperties
    <3> HIDE DEF Came
    <3>6. ASSUME NEW i \in 1 .. N + 1 PROVE Came(done'[i])
      <4>1. i \in 1 .. N \/ i = N + 1
        BY <3>4
      <4> QED
        BY <1>1, <3>3, <3>4, <3>5, <4>1
    <3> QED
      BY <1>2, <3>5, <3>6
  <2> QED
    BY <2>1, <2>2 DEF Next, Environment, Process, vars, source, Type, TypeEnd, Begin, Write,
       CloseWriter, SomethingElse, Poll, ServeOthers, Read, Serve
<1>4. ASSUME NEW i \in DOMAIN done'
      PROVE  \/ \E j \in DOMAIN typed' : Tail_Of(typed'[j], done'[i])
             \/ eof' /\ \E l \in Range(typed') \cup {junk'} : Piece_Of(l, done'[i])
  <2>1. PICK t \in Text : t = done'[i]
    BY <1>0 DEF TypeOK
  <2>2. Came(t)'
    BY <1>3, <2>1
  <2> QED
    BY <2>1, <2>2 DEF Whole, Part, Tail_Of, Piece_Of
<1> QED
  BY <1>4 DEF CommandsWereTyped, Tail_Of, Piece_Of

\* As long as lines fit, nothing is left of a line.
LEMMA LinesWhole ==
  ASSUME TypeOK, InPlace
  PROVE  EachLineOnce
<1>1. SUFFICES ASSUME AllFit, ~eof
               PROVE  \E n \in 0 .. Len(typed) :
                        /\ InOrder(n)
                        /\ stdio \o FlattenSeq(kernel) \o unwritten
                             = Contents(SubSeq(typed, n + 1, Len(typed)))
  BY DEF EachLineOnce
<1>2. PICK n \in 0 .. Len(typed) : \E r \in LeftOf(n) :
        InOrder(n) /\ stdio \o (FlattenSeq(kernel) \o unwritten) = Unserved(n, r)
  BY <1>1, Zenon DEF InPlace
<1>3. PICK r \in LeftOf(n) :
        InOrder(n) /\ stdio \o (FlattenSeq(kernel) \o unwritten) = Unserved(n, r)
  BY <1>2
<1>4. r = <<>>
  <2>1. ASSUME r # <<>> PROVE FALSE
    <3>1. /\ n \in 1 .. Len(typed)
          /\ \E k \in Nat : k \in 1 .. Len(typed[n]) /\ Full(typed[n], k) /\ r = Rest(typed[n], k)
      BY <2>1, LeftFacts
    <3>2. PICK k \in Nat : k \in 1 .. Len(typed[n]) /\ Full(typed[n], k)
      BY <3>1
    <3>3. PICK l \in Line : l = typed[n] /\ Len(l) \in Nat /\ n \in DOMAIN typed
      BY <3>1, LineTypes DEF TypeOK
    <3>4. PICK w \in Nat : w = Size - 1 /\ Size = w + 1
      BY Room
    <3>5. k >= 1
      BY <3>2
    <3>6. Gone(k) >= w /\ Gone(k) \in Nat
      BY <3>4, <3>5, GoneFacts
    <3>7. Gone(k) <= Len(l)
      BY <3>2, <3>3 DEF Full, Gone
    <3>8. Len(l) + 1 <= w
      BY <1>1, <3>3, <3>4 DEF AllFit, Fits
    <3> QED
      BY <3>3, <3>6, <3>7, <3>8
  <2> QED
    BY <2>1
<1>5. Unserved(n, r) = Contents(SubSeq(typed, n + 1, Len(typed)))
  <2>1. PICK N \in Nat : N = Len(typed) /\ typed \in Seq(Line)
    BY DEF TypeOK
  <2>2. Contents(SubSeq(typed, n + 1, N)) \in Seq(Symbol)
    BY <2>1, AfterType
  <2> QED
    BY <1>4, <2>1, <2>2, ConcatEmptySeq DEF Unserved
<1>6. (stdio \o FlattenSeq(kernel)) \o unwritten = stdio \o (FlattenSeq(kernel) \o unwritten)
  <2>1. stdio \in Seq(Symbol) /\ FlattenSeq(kernel) \in Seq(Symbol) /\ unwritten \in Seq(Symbol)
    BY BehindType DEF TypeOK, Symbol
  <2> QED
    BY <2>1, Zenon, SymbolsAssociate
<1> QED
  BY <1>3, <1>5, <1>6

-----------------------------------------------------------------------------
\* The parts together are inductive, and hold for buffers, lines and histories
\* of any length.
THEOREM StdinInvariant == Spec => []Inv
<1>1. Init => Inv
  BY InitTypes, InitPlaces DEF Inv
<1>2. Inv /\ [Next]_vars => Inv'
  <2> SUFFICES ASSUME Inv, [Next]_vars PROVE Inv'
    OBVIOUS
  <2>0. /\ TypeOK /\ DefinedUntilEnd /\ AtTerminal
        /\ OneText /\ InPlace /\ BufferIsAPiece /\ CommandsWereTyped
    BY DEF Inv
  <2>1. TypeOK'
    <3>1. CASE UNCHANGED vars
      BY <2>0, <3>1 DEF TypeOK, vars, source
    <3>2. CASE Next
      BY <2>0, <3>2, WritingTypes, ProcessTypes DEF Next
    <3> QED
      BY <3>1, <3>2
  <2>2. DefinedUntilEnd' /\ AtTerminal' /\ OneText'
    BY <2>0, DefinedStep, TerminalStep, OneTextStep
  <2>3. InPlace' /\ BufferIsAPiece' /\ CommandsWereTyped'
    BY <2>0, <2>1, InPlaceStep, BufferStep, CommandsStep
  <2> QED
    BY <2>1, <2>2, <2>3 DEF Inv
<1> QED
  BY <1>1, <1>2, PTL DEF Spec

\* Every variable keeps its type: no end of a line gets into a command.
THEOREM TypeCorrect == Spec => []TypeOK
<1>1. Inv => TypeOK
  BY DEF Inv
<1> QED
  BY StdinInvariant, <1>1, PTL

\* The byte in front of stdin_buffer is not written before the input ends.
THEOREM DefinedBeforeEnd == Spec => []DefinedUntilEnd
<1>1. Inv => DefinedUntilEnd
  BY DEF Inv
<1> QED
  BY StdinInvariant, <1>1, PTL

\* As long as lines fit, a terminal leaves none in stdio when poll is called.
THEOREM TerminalIsPrompt == Spec => []PromptAtTerminal
<1>1. Inv => PromptAtTerminal
  <2> SUFFICES ASSUME AtTerminal, kind = "terminal", AllFit, pc = "poll" PROVE stdio = <<>>
    BY DEF Inv, PromptAtTerminal
  <2> QED
    BY DEF AtTerminal
<1> QED
  BY StdinInvariant, <1>1, PTL

\* As long as lines fit and the input has not ended, each line is served once
\* and in the order typed, and those that are not served are still there, whole.
THEOREM LinesServedOnce == Spec => []EachLineOnce
<1>1. Inv => EachLineOnce
  BY LinesWhole DEF Inv
<1> QED
  BY StdinInvariant, <1>1, PTL

\* What is acted on was typed as a line, or is the rest of a line that was too
\* long, or the input has ended.
THEOREM OnlyWhatWasTyped == Spec => []CommandsWereTyped
<1>1. Inv => CommandsWereTyped
  BY DEF Inv
<1> QED
  BY StdinInvariant, <1>1, PTL
=============================================================================
