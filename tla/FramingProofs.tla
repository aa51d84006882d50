---------------------------- MODULE FramingProofs ----------------------------
(***************************************************************************)
(* While nothing breaks, what applicationProtocol returns is what sendTcp  *)
(* was given, for any texts and any way in which the stream is cut up.     *)
(* Once something is broken it is a piece of one of those texts.           *)
(***************************************************************************)
EXTENDS Framing, SequenceTheorems, FiniteSetTheorems, SequenceLemmas, TLAPS

Byte == 0 .. Base - 1
FrameRecord == [text : Text \cup {Shutdown}, at : Nat, end : Nat]

-----------------------------------------------------------------------------
\* Both bytes of a length are bytes, and give the length back.
LEMMA LengthBytes ==
  ASSUME NEW n \in 0 .. Base * Base - 1
  PROVE  /\ n \div Base \in 0 .. Base - 1
         /\ n % Base \in 0 .. Base - 1
         /\ (n \div Base) * Base + (n % Base) = n
<1>1. Base \in Nat /\ Base > 1 /\ n \in Nat /\ n < Base * Base
  BY BaseAssumption
<1>2. n % Base \in 0 .. Base - 1 /\ n \div Base \in Nat
  BY <1>1
<1>3. (n \div Base) * Base + (n % Base) = n
  BY <1>1
<1>4. ASSUME n \div Base >= Base PROVE FALSE
  <2>1. (n \div Base) * Base >= Base * Base
    BY <1>1, <1>2, <1>4
  <2> QED
    BY <1>1, <1>2, <1>3, <2>1
<1> QED
  BY <1>1, <1>2, <1>3, <1>4

\* A frame is the length and then the text.
LEMMA FrameFacts ==
  ASSUME NEW t \in Text \cup {Shutdown}
  PROVE  /\ t \in Seq(Byte) /\ Len(t) \in Nat
         /\ \A j \in 1 .. Len(t) : t[j] # 0
         /\ Frame(t) \in Seq(Byte) /\ Len(Frame(t)) = Len(t) + 2
         /\ Frame(t)[1] * Base + Frame(t)[2] = Len(t)
         /\ \A j \in 1 .. Len(t) : Frame(t)[j + 2] = t[j]
<1>1. t \in Seq(1 .. Base - 1) /\ Len(t) < Base * Base
  BY TextAssumption
<1>2. Base \in Nat /\ Base > 1 /\ Len(t) \in Nat /\ Len(t) \in 0 .. Base * Base - 1
  BY <1>1, BaseAssumption
<1>3. t \in Seq(Byte)
  <2>1. 1 .. Base - 1 \subseteq Byte
    BY <1>2 DEF Byte
  <2> QED
    BY <1>1, <2>1, SeqMonotonic
<1>4. \A j \in 1 .. Len(t) : t[j] # 0
  <2>1. \A j \in 1 .. Len(t) : t[j] \in 1 .. Base - 1
    BY <1>1, ElementOfSeq
  <2> QED
    BY <2>1, <1>2
<1> DEFINE hi == Len(t) \div Base
           lo == Len(t) % Base
<1>5. hi \in Byte /\ lo \in Byte /\ hi * Base + lo = Len(t)
  BY <1>2, LengthBytes DEF Byte
<1>6. Frame(t) = <<hi, lo>> \o t
  BY DEF Frame
<1> HIDE DEF hi, lo
<1>7. <<hi, lo>> \in Seq(Byte) /\ Len(<<hi, lo>>) = 2
  BY <1>5
<1>8. /\ Frame(t) \in Seq(Byte) /\ Len(Frame(t)) = 2 + Len(t)
      /\ \A i \in 1 .. 2 + Len(t) : Frame(t)[i] = IF i <= 2 THEN <<hi, lo>>[i] ELSE t[i - 2]
  BY <1>3, <1>6, <1>7, ConcatProperties
<1>9. Frame(t)[1] = hi /\ Frame(t)[2] = lo
  BY <1>2, <1>8
<1>10. \A j \in 1 .. Len(t) : Frame(t)[j + 2] = t[j]
  BY <1>2, <1>8
<1> QED
  BY <1>2, <1>3, <1>4, <1>5, <1>8, <1>9, <1>10

\* Only an empty text has no bytes, and Shutdown has some.
LEMMA EmptyText ==
  /\ \A t \in Text \cup {Shutdown} : t = <<>> <=> Len(t) = 0
  /\ Shutdown # <<>> /\ Len(Shutdown) >= 1
<1>1. ASSUME NEW t \in Text \cup {Shutdown}
      PROVE  t = <<>> <=> Len(t) = 0
  <2>1. t \in Seq(Byte)
    BY FrameFacts
  <2> QED
    BY <2>1, EmptySeq
<1>2. Len(Shutdown) >= 1 /\ Len(Shutdown) # 0
  BY BaseAssumption, ShutdownAssumption
<1> QED
  BY <1>1, <1>2

\* What a call of send adds.
LEMMA WrittenBytes ==
  ASSUME NEW S, NEW s \in Seq(S), NEW f \in Seq(S), NEW a \in Nat,
         NEW n \in 1 .. Len(f) - a
  PROVE  LET u == s \o SubSeq(f, a + 1, a + n) IN
         /\ u \in Seq(S) /\ Len(u) = Len(s) + n
         /\ \A k \in 1 .. Len(s) : u[k] = s[k]
         /\ \A j \in 1 .. n : u[Len(s) + j] = f[a + j]
<1> DEFINE p == SubSeq(f, a + 1, a + n)
<1>1. Len(f) \in Nat /\ n \in Nat /\ n >= 1 /\ a + n <= Len(f) /\ Len(s) \in Nat
  OBVIOUS
<1>2. \A i \in a + 1 .. a + n : f[i] \in S
  BY <1>1, ElementOfSeq
<1>3. /\ p \in Seq(S)
      /\ Len(p) = IF a + 1 <= a + n THEN (a + n) - (a + 1) + 1 ELSE 0
      /\ \A i \in 1 .. (a + n) - (a + 1) + 1 : p[i] = f[(a + 1) + i - 1]
  BY <1>1, <1>2, SubSeqProperties
<1> HIDE DEF p
<1>4. Len(p) = n /\ \A i \in 1 .. n : p[i] = f[a + i]
  BY <1>1, <1>3
<1>5. /\ s \o p \in Seq(S) /\ Len(s \o p) = Len(s) + Len(p)
      /\ \A i \in 1 .. Len(s) + Len(p) :
           (s \o p)[i] = IF i <= Len(s) THEN s[i] ELSE p[i - Len(s)]
  BY <1>3, ConcatProperties
<1>6. \A k \in 1 .. Len(s) : (s \o p)[k] = s[k]
  BY <1>1, <1>4, <1>5
<1>7. \A j \in 1 .. n : (s \o p)[Len(s) + j] = p[j]
  BY <1>1, <1>4, <1>5
<1> QED
  BY <1>4, <1>5, <1>6, <1>7 DEF p

\* std::string keeps bytes, and all of them when there is no 0.
LEMMA CStringFacts ==
  ASSUME NEW s \in Seq(Byte)
  PROVE  /\ CString(s) \in Seq(Byte)
         /\ (\A j \in 1 .. Len(s) : s[j] # 0) => CString(s) = s
<1> DEFINE good == {i \in DOMAIN s : \A j \in 1 .. i : s[j] # 0}
<1>1. DOMAIN s = 1 .. Len(s) /\ Len(s) \in Nat
  OBVIOUS
<1>2. /\ IsFiniteSet(1 .. Len(s))
      /\ Cardinality(1 .. Len(s)) = IF 1 > Len(s) THEN 0 ELSE Len(s) - 1 + 1
  BY <1>1, FS_Interval
<1>3. good \in SUBSET (1 .. Len(s))
  BY <1>1
<1>4. IsFiniteSet(good) /\ Cardinality(good) <= Cardinality(1 .. Len(s))
  BY <1>2, <1>3, FS_Subset
<1>5. Cardinality(good) \in Nat
  BY <1>4, FS_CardinalityType
<1>6. CString(s) = SubSeq(s, 1, Cardinality(good))
  BY DEF CString
<1>7. (\A j \in 1 .. Len(s) : s[j] # 0) => good = 1 .. Len(s)
  BY <1>1
<1> HIDE DEF good
<1>8. Cardinality(good) <= Len(s)
  BY <1>1, <1>2, <1>4, <1>5
<1>9. \A i \in 1 .. Cardinality(good) : s[i] \in Byte
  BY <1>1, <1>5, <1>8, ElementOfSeq
<1>10. CString(s) \in Seq(Byte)
  BY <1>5, <1>6, <1>9, SubSeqProperties
<1>11. good = 1 .. Len(s) => Cardinality(good) = Len(s)
  BY <1>1, <1>2
<1>12. SubSeq(s, 1, Len(s)) = s
  BY SubSeqFull
<1> QED
  BY <1>6, <1>7, <1>10, <1>11, <1>12

\* some_buffer holds what was read last.
LEMMA BufferFacts ==
  ASSUME TypeOK
  PROVE  /\ Buffer \in Seq(Byte) /\ Len(Buffer) = recvLen
         /\ \A j \in 1 .. recvLen : Buffer[j] = stream[(taken - recvLen) + j]
<1>1. /\ stream \in Seq(Byte) /\ Len(stream) \in Nat /\ taken \in Nat /\ recvLen \in Nat
      /\ taken <= Len(stream) /\ recvLen <= taken
  BY DEF TypeOK, Byte
<1> DEFINE m == taken - recvLen + 1
<1>2. m \in Nat /\ m >= 1 /\ taken - m + 1 = recvLen
  BY <1>1
<1>3. \A i \in m .. taken : stream[i] \in Byte
  BY <1>1, <1>2, ElementOfSeq
<1>4. Buffer = SubSeq(stream, m, taken)
  BY DEF Buffer
<1> HIDE DEF m
<1>5. /\ SubSeq(stream, m, taken) \in Seq(Byte)
      /\ Len(SubSeq(stream, m, taken)) = IF m <= taken THEN taken - m + 1 ELSE 0
      /\ \A i \in 1 .. taken - m + 1 : SubSeq(stream, m, taken)[i] = stream[m + i - 1]
  BY <1>1, <1>2, <1>3, SubSeqProperties
<1>6. Len(Buffer) = recvLen
  BY <1>1, <1>2, <1>4, <1>5
<1>7. \A j \in 1 .. recvLen : m + j - 1 = (taken - recvLen) + j
  BY <1>1 DEF m
<1> QED
  BY <1>2, <1>4, <1>5, <1>6, <1>7

\* What is noted of each frame is of its type.
LEMMA FrameTypes ==
  ASSUME TypeOK
  PROVE  /\ Len(frames) \in Nat
         /\ \A i \in 1 .. Len(frames) :
              /\ frames[i].text \in Text \cup {Shutdown}
              /\ frames[i].at \in Nat /\ frames[i].end \in Nat
<1>1. frames \in Seq(FrameRecord)
  BY DEF TypeOK, FrameRecord
<1>2. \A i \in 1 .. Len(frames) : frames[i] \in FrameRecord
  BY <1>1, ElementOfSeq
<1> QED
  BY <1>1, <1>2 DEF FrameRecord

-----------------------------------------------------------------------------
\* sendTcp, and what ends the connection, keep the types.
LEMMA WriterTypes ==
  ASSUME TypeOK, SendTcp \/ Write \/ Interrupt \/ End \/ Reset
  PROVE  TypeOK'
<1>0. /\ Len(stream) \in Nat /\ taken \in Nat /\ taken <= Len(stream)
      /\ stream \in Seq(Byte) /\ sendLen \in Nat
      /\ Len(frames) \in Nat
  BY FrameTypes DEF TypeOK, Byte
<1>1. CASE SendTcp
  BY <1>1 DEF TypeOK, SendTcp, reading
<1>2. CASE Write
  <2>1. text \in Text \cup {Shutdown}
    BY <1>2 DEF TypeOK, Write
  <2>2. PICK n \in 1 .. Len(Frame(text)) - sendLen :
          /\ stream' = stream \o SubSeq(Frame(text), sendLen + 1, sendLen + n)
          /\ sendLen' = sendLen + n
          /\ writer' = IF writer = "sending" /\ AllSent(sendLen + n) THEN "loop" ELSE writer
    BY <1>2 DEF Write
  <2>3. Frame(text) \in Seq(Byte) /\ Len(Frame(text)) \in Nat
    BY <2>1, FrameFacts
  <2>4. stream' \in Seq(Byte) /\ Len(stream') = Len(stream) + n
    BY <1>0, <2>2, <2>3, WrittenBytes
  <2>5. frames' \in Seq(FrameRecord)
    <3>1. [text |-> text, at |-> Len(stream), end |-> Len(stream) + Len(Frame(text))]
            \in FrameRecord
      BY <1>0, <2>1, <2>3 DEF FrameRecord
    <3>2. frames \in Seq(FrameRecord)
      BY DEF TypeOK, FrameRecord
    <3> QED
      BY <1>2, <3>1, <3>2, AppendProperties DEF Write
  <2>6. n \in Nat
    BY <1>0, <2>2, <2>3
  <2> QED
    BY <1>0, <1>2, <2>2, <2>4, <2>5, <2>6 DEF TypeOK, Write, reading, Byte, FrameRecord
<1>3. CASE Interrupt
  <2>1. frames' \in Seq(FrameRecord)
    <3>1. frames \in Seq(FrameRecord)
      BY DEF TypeOK, FrameRecord
    <3>2. CASE InFrame /\ Len(frames) > 0
      <4>1. frames[Len(frames)] \in FrameRecord
        BY <1>0, <3>1, <3>2, ElementOfSeq
      <4>2. [frames[Len(frames)] EXCEPT !.end = Len(stream)]
              \in FrameRecord
        BY <4>1, <1>0 DEF FrameRecord
      <4>3. frames' = [frames EXCEPT ![Len(frames)] =
                         [frames[Len(frames)] EXCEPT !.end = Len(stream)]]
        BY <1>3, <3>2 DEF Interrupt
      <4> QED
        BY <1>0, <3>1, <3>2, <4>2, <4>3, ExceptSeq
    <3>3. CASE ~InFrame
      BY <1>3, <3>1, <3>3 DEF Interrupt
    <3>4. CASE InFrame /\ Len(frames) = 0
      <4>1. frames = <<>>
        BY <3>1, <3>4, EmptySeq
      <4>2. \A e : [<<>> EXCEPT ![Len(frames)] = e] = <<>>
        OBVIOUS
      <4> QED
        BY <1>3, <3>1, <3>4, <4>1, <4>2 DEF Interrupt
    <3> QED
      BY <1>0, <3>2, <3>3, <3>4
  <2> QED
    BY <1>3, <2>1 DEF TypeOK, Interrupt, reading, FrameRecord
<1>4. CASE End
  BY <1>4 DEF TypeOK, End, reading, InFrame
<1>5. CASE Reset
  <2>1. PICK n \in taken .. Len(stream) : stream' = SubSeq(stream, 1, n)
    BY <1>5 DEF Reset
  <2>2. \A i \in 1 .. n : stream[i] \in Byte
    BY <1>0, <2>1, ElementOfSeq
  <2>3. stream' \in Seq(Byte) /\ Len(stream') = IF 1 <= n THEN n - 1 + 1 ELSE 0
    BY <1>0, <2>1, <2>2, SubSeqProperties
  <2>4. Len(stream') = n /\ taken <= n
    BY <1>0, <2>1, <2>3
  <2> QED
    BY <1>0, <1>5, <2>3, <2>4 DEF TypeOK, Reset, writing, reading, Byte
<1> QED
  BY <1>1, <1>2, <1>3, <1>4, <1>5

\* So does applicationProtocol.
LEMMA ReaderTypes ==
  ASSUME TypeOK, ApplicationProtocol
  PROVE  TypeOK'
<1>0. /\ Len(stream) \in Nat /\ taken \in Nat /\ taken <= Len(stream)
      /\ stream \in Seq(Byte) /\ Base \in Nat /\ Base > 1
      /\ recvLen \in Nat /\ recvLen <= taken /\ payloadLen \in Nat
  BY BaseAssumption DEF TypeOK, Byte
<1>1. \A i \in 1 .. Len(stream) : stream[i] \in Nat
  BY <1>0, ElementOfSeq DEF Byte
<1>2. \A a, b \in Nat : a * Base + b \in Nat
  BY <1>0
\* What is returned is of the right type.
<1>3. ASSUME NEW t \in Seq(Byte), Return(t)
      PROVE  /\ returned' \in Seq(Seq(0 .. Base - 1))
             /\ reader' \in {"call", "body", "left", "stopped"}
  <2>1. returned \in Seq(Seq(Byte))
    BY DEF TypeOK, Byte
  <2>2. Append(returned, t) \in Seq(Seq(Byte))
    BY <2>1, <1>3, AppendProperties
  <2> QED
    BY <1>3, <2>1, <2>2 DEF Return, Byte
<1>4. <<>> \in Seq(Byte) /\ CString(Buffer) \in Seq(Byte)
  BY BufferFacts, CStringFacts
<1>5. CASE Header
  <2>1. taken + 1 \in 1 .. Len(stream) /\ taken + 2 \in 1 .. Len(stream)
    BY <1>0, <1>5 DEF Header, Arrived
  <2>2. payloadLen' \in Nat
    BY <1>1, <1>2, <1>5, <2>1 DEF Header
  <2> QED
    BY <1>0, <1>5, <2>1, <2>2 DEF TypeOK, Header, writing
<1>6. CASE HeaderHalf
  <2>1. taken + 1 \in 1 .. Len(stream)
    BY <1>0, <1>6 DEF HeaderHalf, Arrived
  <2>2. payloadLen' \in Nat
    <3>1. PICK junk \in 0 .. Base - 1 : payloadLen' = stream[taken + 1] * Base + junk
      BY <1>6 DEF HeaderHalf
    <3> QED
      BY <1>0, <1>1, <1>2, <2>1, <3>1
  <2> QED
    BY <1>0, <1>6, <2>1, <2>2 DEF TypeOK, HeaderHalf, writing
<1>7. CASE HeaderNone
  BY <1>3, <1>4, <1>7 DEF TypeOK, HeaderNone, writing
<1>8. CASE Body
  BY <1>0, <1>8 DEF TypeOK, Body, Wanted, Arrived, writing
<1>9. CASE BodyDone
  BY <1>3, <1>4, <1>9 DEF TypeOK, BodyDone, writing
<1>10. CASE BodyEnd
  BY <1>3, <1>4, <1>10 DEF TypeOK, BodyEnd, writing
<1>11. CASE BodyError
  BY <1>3, <1>4, <1>11 DEF TypeOK, BodyError, writing
<1> QED
  BY <1>5, <1>6, <1>7, <1>8, <1>9, <1>10, <1>11 DEF ApplicationProtocol

-----------------------------------------------------------------------------
\* Frames lie in the order in which they were begun.
LEMMA Lies ==
  ASSUME TypeOK, EndToEnd
  PROVE  /\ \A i \in 0 .. Len(frames) : Edge(i) \in Nat /\ Edge(i) <= Edge(Len(frames))
         /\ \A i \in 1 .. Len(frames) :
              /\ frames[i].at = Edge(i - 1) /\ frames[i].end = Edge(i)
              /\ frames[i].end = frames[i].at + Len(frames[i].text) + 2
              /\ Len(frames[i].text) \in Nat
<1>1. \A i \in 1 .. Len(frames) :
        /\ frames[i].text \in Text \cup {Shutdown}
        /\ frames[i].at \in Nat /\ frames[i].end \in Nat
  BY FrameTypes
<1>2. Len(frames) \in Nat
  BY FrameTypes
<1>3. ASSUME NEW i \in 1 .. Len(frames)
      PROVE  /\ frames[i].at = Edge(i - 1) /\ frames[i].end = Edge(i)
             /\ frames[i].end = frames[i].at + Len(frames[i].text) + 2
             /\ Len(frames[i].text) \in Nat
  <2>1. /\ Len(frames[i].text) \in Nat
        /\ Len(Frame(frames[i].text)) = Len(frames[i].text) + 2
    BY <1>1, FrameFacts
  <2>2. /\ frames[i].at = Edge(i - 1)
        /\ frames[i].end = frames[i].at + Len(Frame(frames[i].text))
    BY DEF EndToEnd
  <2> QED
    BY <1>1, <1>2, <2>1, <2>2 DEF Edge
<1>4. \A i \in 0 .. Len(frames) : Edge(i) \in Nat
  BY <1>1, <1>2 DEF Edge
<1>5. ASSUME NEW i \in 0 .. Len(frames)
      PROVE  Edge(i) <= Edge(Len(frames))
  <2>1. CASE Len(frames) = 0
    BY <1>2, <1>4, <2>1
  <2>2. CASE Len(frames) > 0 /\ i = Len(frames)
    BY <1>2, <1>4, <2>2
  <2>3. CASE Len(frames) > 0 /\ i = 0
    BY <1>2, <1>4, <2>3 DEF Edge
  <2>4. CASE i > 0 /\ i < Len(frames)
    <3>1. frames[i].end <= frames[Len(frames)].at
      BY <1>2, <2>4 DEF EndToEnd
    <3>2. /\ frames[Len(frames)].at <= frames[Len(frames)].end
          /\ frames[Len(frames)].at \in Nat
      <4>1. Len(frames) \in 1 .. Len(frames)
        BY <1>2, <2>4
      <4>2. /\ frames[Len(frames)].at \in Nat
            /\ frames[Len(frames)].end = frames[Len(frames)].at + Len(frames[Len(frames)].text) + 2
            /\ Len(frames[Len(frames)].text) \in Nat
        BY <1>1, <1>3, <4>1
      <4> QED
        BY <4>2
    <3> QED
      BY <1>1, <1>2, <2>4, <3>1, <3>2 DEF Edge
  <2> QED
    BY <1>2, <2>1, <2>2, <2>3, <2>4
<1> QED
  BY <1>3, <1>4, <1>5

\* Nothing lies beyond the last frame, and a writer that is gone wrote all of
\* it.
LEMMA Reaches ==
  ASSUME TypeOK, EndToEnd, WriterPlace
  PROVE  /\ Len(stream) <= Edge(Len(frames))
         /\ ~UnderWay => Len(stream) = Edge(Len(frames))
         /\ Len(frames) > 0 => frames[Len(frames)].at <= Len(stream)
<1>1. Len(frames) \in Nat /\ Len(stream) \in Nat /\ sendLen \in Nat
  BY FrameTypes DEF TypeOK
<1>2. ~UnderWay => Len(stream) = Edge(Len(frames))
  BY DEF WriterPlace
<1>3. Len(frames) > 0 =>
        /\ Len(frames) \in 1 .. Len(frames)
        /\ frames[Len(frames)].at \in Nat
        /\ frames[Len(frames)].end = Edge(Len(frames))
        /\ frames[Len(frames)].end = frames[Len(frames)].at + Len(frames[Len(frames)].text) + 2
        /\ Len(frames[Len(frames)].text) \in Nat
        /\ Len(Frame(frames[Len(frames)].text)) = Len(frames[Len(frames)].text) + 2
  BY <1>1, FrameTypes, Lies, FrameFacts
<1>4. Edge(Len(frames)) \in Nat
  BY <1>1, Lies
<1>5. UnderWay =>
        /\ Len(frames) > 0 /\ frames[Len(frames)].text = text
        /\ Len(stream) = frames[Len(frames)].at + sendLen
        /\ sendLen <= Len(Frame(text))
  BY DEF WriterPlace
<1>6. CASE UnderWay
  BY SMTT(30), <1>1, <1>3, <1>5, <1>6
<1>7. CASE ~UnderWay
  BY <1>1, <1>2, <1>3, <1>4, <1>7
<1> QED
  BY <1>6, <1>7

\* A server that closed its end of the connection keeps the cause.
LEMMA CauseKept ==
  ASSUME ClosedForCause, reader' = reader, taken' = taken,
         writer = "closed" => writer' = "closed",
         frames # <<>> => frames' # <<>> /\ frames'[1].text = frames[1].text
  PROVE  ClosedForCause'
BY DEF ClosedForCause, EmptyId

-----------------------------------------------------------------------------
\* The bytes of a frame that is begun or continued lie where they belong.
LEMMA WriteAligned ==
  ASSUME TypeOK, EndToEnd, InStream, WriterPlace, ReaderPlace, Write
  PROVE  EndToEnd' /\ InStream' /\ WriterPlace' /\ ReaderPlace'
<1>1. /\ Len(frames) \in Nat /\ Len(stream) \in Nat /\ sendLen \in Nat
      /\ stream \in Seq(Byte)
  BY FrameTypes DEF TypeOK, Byte
<1>2. text \in Text \cup {Shutdown} /\ writer \in {"sending", "stopping"}
  BY DEF TypeOK, Write
<1>3. Frame(text) \in Seq(Byte) /\ Len(Frame(text)) \in Nat
  BY <1>2, FrameFacts
<1>4. PICK n \in 1 .. Len(Frame(text)) - sendLen :
        /\ stream' = stream \o SubSeq(Frame(text), sendLen + 1, sendLen + n)
        /\ sendLen' = sendLen + n
        /\ writer' = IF writer = "sending" /\ AllSent(sendLen + n) THEN "loop" ELSE writer
  BY DEF Write
<1>5. n \in Nat /\ n >= 1 /\ sendLen + n <= Len(Frame(text))
  BY <1>1, <1>3, <1>4
<1>6. /\ Len(stream') = Len(stream) + n
      /\ \A k \in 1 .. Len(stream) : stream'[k] = stream[k]
      /\ \A j \in 1 .. n : stream'[Len(stream) + j] = Frame(text)[sendLen + j]
  <2>1. PICK f \in Seq(Byte) : f = Frame(text)
    BY <1>3
  <2>2. PICK k \in Nat : k = sendLen
    BY <1>1
  <2>3. n \in 1 .. Len(f) - k
    BY <1>4, <2>1, <2>2
  <2> DEFINE u == stream \o SubSeq(f, k + 1, k + n)
  <2>4. /\ Len(u) = Len(stream) + n
        /\ \A j \in 1 .. Len(stream) : u[j] = stream[j]
        /\ \A j \in 1 .. n : u[Len(stream) + j] = f[k + j]
    BY <1>1, <2>3, WrittenBytes
  <2>5. stream' = u
    BY <1>4, <2>1, <2>2
  <2> HIDE DEF u
  <2> QED
    BY <2>1, <2>2, <2>4, <2>5
<1>7. writer' \in {"sending", "stopping"} \/ (writer' = "loop" /\ sendLen + n = Len(Frame(text)))
  BY <1>2, <1>4 DEF AllSent
<1>8. ASSUME ~UnderWay' PROVE sendLen + n = Len(Frame(text))
  BY <1>1, <1>4, <1>5, <1>7, <1>8 DEF UnderWay
<1>9. Edge(Len(frames)) \in Nat
  BY <1>1, Lies
<1>15. Len(stream') = Len(stream) + n
  BY <1>6
\* Bytes that stand already are not touched.
<1>10. \A i \in 1 .. Len(frames) :
         /\ frames[i].text \in Text \cup {Shutdown}
         /\ frames[i].at \in Nat /\ frames[i].end \in Nat
         /\ frames[i].end = frames[i].at + Len(Frame(frames[i].text))
         /\ Len(Frame(frames[i].text)) \in Nat
  BY FrameTypes, FrameFacts DEF EndToEnd
<1>11. ASSUME NEW i \in 1 .. Len(frames), NEW j \in 1 .. Len(Frame(frames[i].text)),
              frames[i].at + j <= Len(stream)
       PROVE  stream'[frames[i].at + j] = Frame(frames[i].text)[j]
  <2>1. stream[frames[i].at + j] = Frame(frames[i].text)[j]
    BY <1>11 DEF InStream
  <2>2. frames[i].at + j \in 1 .. Len(stream)
    BY <1>1, <1>10, <1>11
  <2> QED
    BY <1>6, <2>1, <2>2
<1>12. conn' = (IF writer' = "closed" THEN "fin" ELSE "open")
  BY <1>2, <1>7 DEF WriterPlace, Write
\* A frame is begun.
<1>13. CASE sendLen = 0
  <2>1. ~UnderWay
    BY <1>13 DEF UnderWay
  <2>2. Len(stream) = Edge(Len(frames))
    BY <2>1 DEF WriterPlace
  <2> DEFINE f == [text |-> text, at |-> Len(stream), end |-> Len(stream) + Len(Frame(text))]
             m == Len(frames) + 1
  <2>3. frames' = Append(frames, f)
    BY <1>13 DEF Write
  <2>4. /\ f.text = text /\ f.at = Len(stream) /\ f.end = Len(stream) + Len(Frame(text))
        /\ f \in FrameRecord
    BY <1>1, <1>2, <1>3 DEF FrameRecord
  <2> HIDE DEF f
  <2>5. /\ Len(frames') = m /\ frames'[m] = f
        /\ \A i \in 1 .. Len(frames) : frames'[i] = frames[i]
    <3>1. frames \in Seq(FrameRecord)
      BY DEF TypeOK, FrameRecord
    <3> QED
      BY <2>3, <2>4, <3>1, AppendProperties
  <2>6. \A i \in 0 .. Len(frames) : Edge(i)' = Edge(i)
    BY <1>1, <2>5 DEF Edge
  <2>7. EndToEnd'
    <3> SUFFICES ASSUME NEW i \in 1 .. m
                 PROVE  /\ frames'[i].at = Edge(i - 1)'
                        /\ frames'[i].end = frames'[i].at + Len(Frame(frames'[i].text))
                        /\ i < m => frames'[i].end <= frames'[m].at
      BY <2>5 DEF EndToEnd
    <3>1. CASE i = m
      BY <1>1, <2>2, <2>4, <2>5, <2>6, <3>1
    <3>2. CASE i <= Len(frames)
      <4>1. /\ i \in 1 .. Len(frames) /\ i - 1 \in 0 .. Len(frames) /\ i \in 0 .. Len(frames)
        BY <1>1, <3>2
      <4>2. /\ frames[i].at = Edge(i - 1)
            /\ frames[i].end = frames[i].at + Len(Frame(frames[i].text))
        BY <4>1 DEF EndToEnd
      <4>3. frames[i].end = Edge(i) /\ Edge(i) <= Edge(Len(frames))
        BY <4>1, Lies
      <4> QED
        BY <2>2, <2>4, <2>5, <2>6, <4>1, <4>2, <4>3
    <3> QED
      BY <1>1, <3>1, <3>2
  <2>8. InStream'
    <3> SUFFICES ASSUME NEW i \in 1 .. m, NEW j \in 1 .. Len(Frame(frames'[i].text)),
                        frames'[i].at + j <= Len(stream')
                 PROVE  stream'[frames'[i].at + j] = Frame(frames'[i].text)[j]
      BY <2>5 DEF InStream
    <3>1. CASE i = m
      <4>1. frames'[i].at = Len(stream) /\ frames'[i].text = text
        BY <2>4, <2>5, <3>1
      <4>2. j \in 1 .. n
        BY <1>1, <1>3, <1>5, <1>6, <4>1
      <4>3. stream'[Len(stream) + j] = Frame(text)[sendLen + j] /\ sendLen + j = j
        BY <1>6, <1>13, <4>2
      <4> QED
        BY <4>1, <4>3
    <3>2. CASE i <= Len(frames)
      <4>1. i \in 1 .. Len(frames) /\ frames'[i] = frames[i]
        BY <1>1, <2>5, <3>2
      <4>2. frames[i].end <= Len(stream)
        BY <2>2, <4>1, Lies
      <4>3. frames[i].at + j <= Len(stream)
        <5>1. /\ frames[i].at \in Nat /\ Len(Frame(frames[i].text)) \in Nat
              /\ frames[i].end = frames[i].at + Len(Frame(frames[i].text))
          BY <1>10, <4>1
        <5>2. j \in Nat /\ j <= Len(Frame(frames[i].text))
          BY <4>1, <5>1
        <5>3. PICK at, end, size, k : /\ at = frames[i].at /\ end = frames[i].end
                                      /\ size = Len(Frame(frames[i].text)) /\ k = j
          OBVIOUS
        <5>4. at \in Nat /\ size \in Nat /\ k \in Nat /\ k <= size /\ end = at + size /\ end <= Len(stream)
          BY <4>2, <5>1, <5>2, <5>3
        <5>5. at + k <= Len(stream)
          BY <1>1, <5>4
        <5> QED
          BY <5>3, <5>5
      <4> QED
        BY <1>11, <4>1, <4>3
    <3> QED
      BY <1>1, <3>1, <3>2
  <2>9. WriterPlace'
    <3>1. Edge(Len(frames))' = Len(stream) + Len(Frame(text))
      BY <1>1, <2>4, <2>5 DEF Edge
    <3>2. text' = text
      BY DEF Write
    <3>3. ASSUME ~UnderWay' PROVE Len(stream') = Edge(Len(frames))'
      <4>1. sendLen + n = Len(Frame(text))
        BY <1>8, <3>3
      <4> QED
        BY <1>1, <1>3, <1>5, <1>15, <1>13, <3>1, <4>1
    <3>4. UnderWay' =>
            /\ Len(frames') > 0 /\ frames'[Len(frames')].text = text'
            /\ Len(stream') = frames'[Len(frames')].at + sendLen'
            /\ sendLen' <= Len(Frame(text'))
      BY <1>1, <1>4, <1>5, <1>6, <1>13, <2>4, <2>5, <3>2
    <3> QED
      BY <1>12, <3>3, <3>4 DEF WriterPlace
  <2>10. ReaderPlace'
    <3>1. /\ Len(returned) \in Nat /\ Len(returned) <= Len(frames)
          /\ returned' = returned /\ reader' = reader /\ taken' = taken /\ rc' = rc
          /\ payloadLen' = payloadLen /\ recvLen' = recvLen
      BY DEF TypeOK, ReaderPlace, Write, reading
    <3>2. Edge(Len(returned))' = Edge(Len(returned))
      BY <1>1, <2>6, <3>1
    <3>3. \A i \in 1 .. Len(returned) : returned[i] = frames'[i].text
      BY <1>1, <2>5, <3>1 DEF ReaderPlace
    <3>4. reader = "body" => frames'[Len(returned) + 1] = frames[Len(returned) + 1]
      BY <1>1, <2>5, <3>1 DEF ReaderPlace
    <3>5. ClosedForCause'
      <4>1. frames # <<>> => frames' # <<>> /\ frames'[1].text = frames[1].text
        <5> SUFFICES ASSUME frames # <<>>
                     PROVE  frames' # <<>> /\ frames'[1].text = frames[1].text
          OBVIOUS
        <5>1. Len(frames) # 0
          BY EmptySeq DEF TypeOK
        <5>2. 1 \in 1 .. Len(frames) /\ Len(frames') # 0
          BY <1>1, <2>5, <5>1
        <5> QED
          BY <2>5, <5>2
      <4> QED
        BY <1>2, <3>1, <4>1, CauseKept DEF ReaderPlace
    <3> QED
      BY <1>1, <2>5, <3>1, <3>2, <3>3, <3>4, <3>5 DEF ReaderPlace
  <2> QED
    BY <2>7, <2>8, <2>9, <2>10
\* A frame is continued.
<1>14. CASE sendLen > 0
  <2> DEFINE m == Len(frames)
  <2>1. frames' = frames /\ text' = text
    BY <1>14 DEF Write
  <2>2. /\ m > 0 /\ frames[m].text = text
        /\ Len(stream) = frames[m].at + sendLen
    BY <1>2, <1>14 DEF WriterPlace, UnderWay
  <2>3. m \in 1 .. m /\ frames[m].at \in Nat
    BY <1>1, <1>10, <2>2
  <2>8. PICK last \in Nat : last = frames[m].at /\ Len(stream) = last + sendLen
    BY <2>2, <2>3
  <2>9. Len(stream) = last + sendLen /\ last \in Nat
    BY <2>8
  <2>4. EndToEnd'
    BY <2>1 DEF EndToEnd, Edge
  <2>5. InStream'
    <3> SUFFICES ASSUME NEW i \in 1 .. m, NEW j \in 1 .. Len(Frame(frames[i].text)),
                        frames[i].at + j <= Len(stream')
                 PROVE  stream'[frames[i].at + j] = Frame(frames[i].text)[j]
      BY <2>1 DEF InStream
    <3>1. CASE frames[i].at + j <= Len(stream)
      BY <1>11, <3>1
    <3>2. CASE i < m
      <4>1. frames[i].end <= frames[m].at
        BY <3>2 DEF EndToEnd
      <4>2. frames[i].at + j <= Len(stream)
        <5>1. /\ frames[i].at \in Nat /\ frames[i].end \in Nat
              /\ frames[i].end = frames[i].at + Len(Frame(frames[i].text))
              /\ Len(Frame(frames[i].text)) \in Nat
          BY <1>10
        <5>2. j \in Nat /\ j <= Len(Frame(frames[i].text))
          BY <5>1
        <5>3. frames[i].end <= last
          BY <2>8, <4>1
        <5> QED
          BY <1>1, <2>9, <5>1, <5>2, <5>3
      <4> QED
        BY <1>11, <4>2
    <3>3. CASE i = m /\ frames[i].at + j > Len(stream)
      <4>1. j - sendLen \in 1 .. n
        <5>1. j \in Nat /\ j <= Len(Frame(text))
          BY <1>3, <2>2, <3>3
        <5>2. last + j > Len(stream) /\ last + j <= Len(stream')
          BY <2>8, <3>3
        <5> QED
          BY SMTT(30), <1>1, <1>5, <1>15, <2>8, <5>1, <5>2
      <4>2. stream'[Len(stream) + (j - sendLen)] = Frame(text)[sendLen + (j - sendLen)]
        BY <1>6, <4>1
      <4>3. Len(stream) + (j - sendLen) = frames[i].at + j /\ sendLen + (j - sendLen) = j
        BY <1>1, <1>3, <2>2, <2>3, <3>3
      <4> QED
        BY <2>2, <3>3, <4>2, <4>3
    <3> QED
      BY SMTT(30), <1>1, <1>10, <3>1, <3>2, <3>3
  <2>6. WriterPlace'
    <3>1. Edge(Len(frames))' = frames[m].at + Len(Frame(text))
      <4>1. frames[m].end = frames[m].at + Len(Frame(frames[m].text))
        BY <1>10, <2>3
      <4>2. Edge(Len(frames))' = frames[m].end
        BY <2>1, <2>2 DEF Edge
      <4> QED
        BY <2>2, <4>1, <4>2
    <3>2. ASSUME ~UnderWay' PROVE Len(stream') = Edge(Len(frames))'
      <4>1. sendLen + n = Len(Frame(text))
        BY <1>8, <3>2
      <4>2. Edge(Len(frames))' = last + Len(Frame(text))
        BY <2>8, <3>1
      <4> QED
        BY SMTT(30), <1>1, <1>3, <1>5, <1>15, <2>9, <4>1, <4>2
    <3>3. UnderWay' =>
            /\ Len(frames') > 0 /\ frames'[Len(frames')].text = text'
            /\ Len(stream') = frames'[Len(frames')].at + sendLen'
            /\ sendLen' <= Len(Frame(text'))
      BY <1>1, <1>4, <1>5, <1>6, <2>1, <2>2, <2>3
    <3> QED
      BY <1>12, <3>2, <3>3 DEF WriterPlace
  <2>7. ReaderPlace'
    BY <1>2, <2>1 DEF ReaderPlace, ClosedForCause, EmptyId, Write, reading, Edge
  <2> QED
    BY <2>4, <2>5, <2>6, <2>7
<1> QED
  BY <1>1, <1>13, <1>14

\* Nothing breaks when no frame is under way: its end is the stream's.
LEMMA RestAligned ==
  ASSUME TypeOK, EndToEnd, InStream, WriterPlace, ReaderPlace,
         ~broken', SendTcp \/ Interrupt \/ End
  PROVE  EndToEnd' /\ InStream' /\ WriterPlace' /\ ReaderPlace'
<1>1. Len(frames) \in Nat /\ Len(stream) \in Nat /\ sendLen \in Nat
  BY FrameTypes DEF TypeOK
<1>2. frames' = frames /\ stream' = stream
  BY DEF SendTcp, Interrupt, End
<1>3. /\ returned' = returned /\ reader' = reader /\ taken' = taken /\ rc' = rc
      /\ payloadLen' = payloadLen /\ recvLen' = recvLen
  BY DEF SendTcp, Interrupt, End, reading
<1>4. EndToEnd' /\ InStream'
  BY <1>2 DEF EndToEnd, InStream, Edge
<1>5. ClosedForCause'
  <2>1. writer # "closed"
    BY DEF SendTcp, Interrupt, End
  <2> QED
    BY <1>2, <1>3, <2>1, CauseKept DEF ReaderPlace
<1>6. ReaderPlace'
  BY <1>2, <1>3, <1>5 DEF ReaderPlace, Edge
<1>7. Len(stream) = Edge(Len(frames))
  <2>1. CASE ~UnderWay
    BY <2>1 DEF WriterPlace
  <2>2. CASE UnderWay
    <3>1. Interrupt \/ End
      BY <2>2 DEF SendTcp, UnderWay
    <3>2. ~InFrame
      BY <3>1 DEF Interrupt, End
    <3>3. text \in Text \cup {Shutdown}
      BY <2>2 DEF TypeOK, UnderWay
    <3>4. Len(Frame(text)) \in Nat
      BY <3>3, FrameFacts
    <3>5. sendLen <= Len(Frame(text)) /\ Len(frames) > 0
      BY <2>2 DEF WriterPlace
    <3>6. sendLen = Len(Frame(text))
      BY <1>1, <2>2, <3>2, <3>4, <3>5 DEF UnderWay, InFrame
    <3>7. /\ frames[Len(frames)].text = text
          /\ Len(stream) = frames[Len(frames)].at + sendLen
      BY <2>2 DEF WriterPlace
    <3>8. Len(frames) \in 1 .. Len(frames)
      BY <1>1, <3>5
    <3>9. frames[Len(frames)].end = frames[Len(frames)].at + Len(Frame(frames[Len(frames)].text))
      BY <3>8 DEF EndToEnd
    <3>10. Edge(Len(frames)) = frames[Len(frames)].end
      BY <1>1, <3>5 DEF Edge
    <3> QED
      BY <3>6, <3>7, <3>9, <3>10
  <2> QED
    BY <2>1, <2>2
<1>8. Edge(Len(frames))' = Edge(Len(frames))
  BY <1>2 DEF Edge
<1>9. ~UnderWay'
  BY DEF UnderWay, SendTcp, Interrupt, End
<1>10. conn' = IF writer' = "closed" THEN "fin" ELSE "open"
  BY DEF WriterPlace, SendTcp, Interrupt, End
<1> QED
  BY <1>2, <1>4, <1>6, <1>7, <1>8, <1>9, <1>10 DEF WriterPlace

-----------------------------------------------------------------------------
\* The reader is never caught in a frame that ends early, and takes the length
\* of the frame it stands before.
LEMMA HeaderAligned ==
  ASSUME TypeOK, EndToEnd, InStream, WriterPlace, ReaderPlace, Header
  PROVE  ReaderPlace'
<1> DEFINE n == Len(returned)
<1>1. /\ Len(frames) \in Nat /\ Len(stream) \in Nat /\ n \in Nat /\ n <= Len(frames)
      /\ taken = Edge(n) /\ Len(stream) >= taken + 2 /\ taken \in Nat
  <2>1. taken \in Nat /\ Len(stream) \in Nat /\ n \in Nat /\ Len(frames) \in Nat
    BY FrameTypes DEF TypeOK
  <2>2. Len(stream) - taken >= 2
    BY DEF Header, Arrived
  <2>3. n <= Len(frames) /\ taken = Edge(n)
    BY DEF ReaderPlace, Header
  <2> QED
    BY <2>1, <2>2, <2>3
<1>2. n < Len(frames)
  <2>1. ASSUME n = Len(frames) PROVE FALSE
    <3>1. Len(stream) <= Edge(n)
      BY <2>1, Reaches
    <3> QED
      BY <1>1, <3>1
  <2> QED
    BY <1>1, <2>1
<1> DEFINE f == frames[n + 1]
<1>3. n + 1 \in 1 .. Len(frames) /\ (n + 1) - 1 = n
  BY <1>1, <1>2
<1>4. f.text \in Text \cup {Shutdown} /\ f.at = taken
  BY <1>1, <1>3, FrameTypes, Lies
<1>5. /\ Frame(f.text)[1] * Base + Frame(f.text)[2] = Len(f.text)
      /\ Len(Frame(f.text)) = Len(f.text) + 2 /\ Len(f.text) \in Nat
  BY <1>4, FrameFacts
<1>6. stream[taken + 1] = Frame(f.text)[1] /\ stream[taken + 2] = Frame(f.text)[2]
  <2>1. 1 \in 1 .. Len(Frame(f.text)) /\ 2 \in 1 .. Len(Frame(f.text))
    BY <1>5
  <2>2. f.at + 1 <= Len(stream) /\ f.at + 2 <= Len(stream)
    BY <1>1, <1>4
  <2> QED
    BY <1>3, <1>4, <2>1, <2>2 DEF InStream
<1>7. payloadLen' = Len(f.text)
  BY <1>5, <1>6 DEF Header
<1>8. /\ returned' = returned /\ frames' = frames /\ taken' = taken + 2 /\ recvLen' = 0
      /\ rc' = 2 /\ reader' = "body"
  BY DEF Header, writing
<1>9. taken + 2 = f.at + 2 + 0
  BY <1>1, <1>4
<1> QED
  BY <1>1, <1>2, <1>5, <1>7, <1>8, <1>9 DEF ReaderPlace, ClosedForCause

\* A reader that finds the end of the stream is between two frames.
LEMMA EndAligned ==
  ASSUME TypeOK, EndToEnd, InStream, WriterPlace, ReaderPlace,
         conn # "open", Arrived <= 1
  PROVE  /\ writer = "closed" /\ conn = "fin"
         /\ reader = "call" => Arrived = 0
         /\ reader = "body" /\ Arrived = 0 => recvLen = payloadLen
<1> DEFINE n == Len(returned)
<1>1. writer = "closed" /\ conn = "fin"
  BY DEF WriterPlace
<1>2. Len(stream) = Edge(Len(frames))
  BY <1>1, Reaches DEF UnderWay
<1>3. /\ taken \in Nat /\ Len(stream) \in Nat /\ n \in Nat /\ Len(frames) \in Nat
      /\ recvLen \in Nat /\ taken <= Len(stream)
  BY FrameTypes DEF TypeOK
<1>4. n <= Len(frames)
  BY DEF ReaderPlace
\* A frame that is begun is there to its end.
<1>5. ASSUME n < Len(frames)
      PROVE  /\ frames[n + 1].at = Edge(n) /\ frames[n + 1].at \in Nat
             /\ frames[n + 1].at + Len(frames[n + 1].text) + 2 <= Len(stream)
             /\ Len(frames[n + 1].text) \in Nat
  <2>1. n + 1 \in 1 .. Len(frames) /\ n + 1 \in 0 .. Len(frames) /\ (n + 1) - 1 = n
    BY <1>3, <1>5
  <2>2. /\ frames[n + 1].at = Edge(n) /\ frames[n + 1].end = Edge(n + 1)
        /\ frames[n + 1].end = frames[n + 1].at + Len(frames[n + 1].text) + 2
        /\ Len(frames[n + 1].text) \in Nat
    BY <2>1, Lies
  <2>3. Edge(n + 1) <= Len(stream)
    BY <1>2, <2>1, Lies
  <2>4. frames[n + 1].at \in Nat
    BY <2>1, FrameTypes
  <2> QED
    BY <2>2, <2>3, <2>4
<1>6. reader = "body" /\ Arrived = 0 => recvLen = payloadLen
  <2> SUFFICES ASSUME reader = "body", Arrived = 0 PROVE recvLen = payloadLen
    OBVIOUS
  <2>1. /\ n < Len(frames) /\ payloadLen = Len(frames[n + 1].text)
        /\ recvLen <= payloadLen /\ taken = frames[n + 1].at + 2 + recvLen
    BY DEF ReaderPlace
  <2>2. taken = Len(stream)
    BY <1>3 DEF Arrived
  <2>3. PICK at \in Nat : at = frames[n + 1].at
    BY <1>5, <2>1
  <2>4. PICK len \in Nat : len = Len(frames[n + 1].text)
    BY <1>5, <2>1
  <2>5. recvLen <= len /\ taken = at + 2 + recvLen /\ at + len + 2 <= Len(stream)
    BY <1>5, <2>1, <2>3, <2>4
  <2>6. recvLen = len
    BY <1>3, <2>2, <2>5
  <2> QED
    BY <2>1, <2>4, <2>6
<1>7. reader = "call" => Arrived = 0
  <2> SUFFICES ASSUME reader = "call" PROVE Arrived = 0
    OBVIOUS
  <2>1. taken = Edge(n)
    BY DEF ReaderPlace
  <2>2. CASE n = Len(frames)
    BY <1>2, <1>3, <2>1, <2>2 DEF Arrived
  <2>3. CASE n < Len(frames)
    BY <1>3, <1>5, <2>1, <2>3 DEF Arrived
  <2> QED
    BY <1>3, <1>4, <2>2, <2>3
<1> QED
  BY <1>1, <1>6, <1>7

\* What was received of a frame, all of it, is its text.  An empty one is the
\* first frame, and the server closes the connection.
LEMMA BodyReturns ==
  ASSUME TypeOK, EmptyFirst, EndToEnd, InStream, WriterPlace, ReaderPlace, BodyDone
  PROVE  LET n == Len(returned)
             t == frames[n + 1].text
         IN
         /\ n + 1 \in 1 .. Len(frames) /\ t \in Seq(Byte) /\ taken = Edge(n + 1)
         /\ \/ /\ t # <<>> /\ returned' = Append(returned, t)
               /\ reader' \in {"stopped", "call"}
            \/ /\ t = <<>> /\ returned' = returned /\ n = 0
               /\ to = "server" /\ reader' = "left" /\ taken = 2
<1> DEFINE n == Len(returned)
           f == frames[n + 1]
<1>1. /\ taken \in Nat /\ Len(stream) \in Nat /\ n \in Nat /\ Len(frames) \in Nat
      /\ recvLen \in Nat /\ taken <= Len(stream)
      /\ returned \in Seq(Seq(Byte))
  BY FrameTypes DEF TypeOK, Byte
<1>2. /\ n < Len(frames) /\ recvLen = Len(f.text) /\ taken = f.at + 2 + recvLen
      /\ \A i \in 1 .. n : returned[i] = frames[i].text
  BY DEF ReaderPlace, BodyDone
<1>3. n + 1 \in 1 .. Len(frames)
  BY <1>1, <1>2
<1>4. f.text \in Text \cup {Shutdown} /\ f.at \in Nat
  BY <1>3, FrameTypes
<1>5. f.end = f.at + Len(f.text) + 2 /\ f.end = Edge(n + 1)
  BY <1>3, Lies
<1>6. /\ f.text \in Seq(Byte)
      /\ \A j \in 1 .. Len(f.text) : f.text[j] # 0
      /\ Len(Frame(f.text)) = Len(f.text) + 2
      /\ \A j \in 1 .. Len(f.text) : Frame(f.text)[j + 2] = f.text[j]
  BY <1>4, FrameFacts
<1>7. ASSUME NEW j \in 1 .. Len(f.text) PROVE Buffer[j] = f.text[j]
  <2>1. PICK at \in Nat : at = f.at
    BY <1>4
  <2>2. j \in 1 .. recvLen
    BY <1>2
  <2>3. Buffer[j] = stream[(taken - recvLen) + j]
    BY <2>2, BufferFacts
  <2>4. taken = at + 2 + recvLen
    BY <1>2, <2>1
  <2>5. (taken - recvLen) + j = at + (j + 2) /\ at + (j + 2) <= Len(stream)
    BY <1>1, <2>2, <2>4
  <2>6. j + 2 \in 1 .. Len(Frame(f.text))
    <3>1. PICK len \in Nat : len = Len(f.text)
      BY <1>1, <1>2
    <3>2. j \in 1 .. len /\ Len(Frame(f.text)) = len + 2
      BY <1>6, <3>1
    <3> QED
      BY <3>2
  <2>7. stream[f.at + (j + 2)] = Frame(f.text)[j + 2]
    BY <1>3, <2>1, <2>5, <2>6 DEF InStream
  <2> QED
    BY <1>6, <2>1, <2>3, <2>5, <2>7
<1>8. Buffer = f.text
  <2>1. Buffer \in Seq(Byte) /\ Len(Buffer) = Len(f.text)
    BY <1>2, BufferFacts
  <2> HIDE DEF f
  <2> QED
    BY <1>6, <1>7, <2>1, SeqEqual
<1>9. CString(Buffer) = f.text
  BY <1>6, <1>8, CStringFacts
<1>10. f.text # <<>> => /\ returned' = Append(returned, f.text)
                        /\ reader' \in {"stopped", "call"}
  BY <1>9 DEF BodyDone, Return
<1>11. f.text = <<>> => /\ returned' = returned /\ n = 0
                        /\ to = "server" /\ reader' = "left" /\ taken = 2
  <2> SUFFICES ASSUME f.text = <<>>
               PROVE  /\ returned' = returned /\ n = 0
                      /\ to = "server" /\ reader' = "left" /\ taken = 2
    OBVIOUS
  <2>1. to = "server" /\ n = 0
    BY <1>1, <1>3 DEF EmptyFirst
  <2>2. returned' = returned /\ reader' = "left"
    BY <1>9, <2>1 DEF BodyDone, Return
  <2>3. f.at = 0
    BY <1>3, <2>1, Lies DEF Edge
  <2>4. recvLen = 0
    BY <1>2
  <2> QED
    BY <1>2, <2>1, <2>2, <2>3, <2>4
<1>12. taken = Edge(n + 1)
  <2>1. PICK at \in Nat : at = f.at
    BY <1>4
  <2>2. taken = at + 2 + recvLen /\ f.end = at + recvLen + 2
    BY <1>2, <1>5, <2>1
  <2>3. at + 2 + recvLen = at + recvLen + 2
    BY <1>1
  <2> QED
    BY <1>5, <2>2, <2>3
<1> QED
  BY <1>3, <1>6, <1>10, <1>11, <1>12

\* And the reader then stands where the next frame begins, or has closed the
\* connection.
LEMMA BodyAligned ==
  ASSUME TypeOK, EmptyFirst, EndToEnd, InStream, WriterPlace, ReaderPlace, BodyDone
  PROVE  ReaderPlace'
<1> DEFINE n == Len(returned)
           t == frames[n + 1].text
<1>1. n \in Nat /\ Len(frames) \in Nat /\ returned \in Seq(Seq(Byte))
  BY FrameTypes DEF TypeOK, Byte
<1>2. n + 1 \in 1 .. Len(frames) /\ t \in Seq(Byte) /\ taken = Edge(n + 1)
  BY BodyReturns
<1>3. frames' = frames /\ taken' = taken
  BY DEF BodyDone, writing
<1>4. CASE t # <<>>
  <2>1. returned' = Append(returned, t) /\ reader' \in {"stopped", "call"}
    BY <1>4, BodyReturns
  <2>2. /\ Len(returned') = n + 1 /\ returned'[n + 1] = t
        /\ \A i \in 1 .. n : returned'[i] = returned[i]
    <3> HIDE DEF t
    <3> QED
      BY <1>1, <1>2, <2>1, AppendProperties
  <2>3. \A i \in 1 .. n + 1 : returned'[i] = frames[i].text
    <3> TAKE i \in 1 .. n + 1
    <3>1. CASE i = n + 1
      BY <2>2, <3>1
    <3>2. CASE i # n + 1
      <4>1. i \in 1 .. n /\ returned[i] = frames[i].text
        BY <1>1, <3>2 DEF ReaderPlace
      <4> QED
        BY <2>2, <4>1
    <3> QED
      BY <3>1, <3>2
  <2>4. Len(returned') <= Len(frames')
    BY <1>1, <1>2, <1>3, <2>2
  <2>5. \A i \in 1 .. Len(returned') : returned'[i] = frames'[i].text
    BY <1>3, <2>2, <2>3
  <2>6. taken' = (IF Len(returned') = 0 THEN 0 ELSE frames'[Len(returned')].end)
    BY <1>1, <1>2, <1>3, <2>2 DEF Edge
  <2> QED
    BY <2>1, <2>4, <2>5, <2>6 DEF ReaderPlace, ClosedForCause, Edge
<1>5. CASE t = <<>>
  <2>1. returned' = returned /\ n = 0 /\ reader' = "left" /\ taken = 2
    BY <1>5, BodyReturns
  <2>2. Len(frames) # 0 /\ frames[1].text = <<>>
    BY <1>1, <1>2, <1>5, <2>1
  <2>3. ClosedForCause'
    BY <1>3, <2>1, <2>2 DEF ClosedForCause, EmptyId
  <2> QED
    BY <1>1, <1>3, <2>1, <2>3 DEF ReaderPlace
<1> QED
  BY <1>4, <1>5

\* Nothing that was broken is whole again.
LEMMA ReaderStep ==
  ASSUME TypeOK, EmptyFirst, EndToEnd, InStream, WriterPlace, ReaderPlace, ApplicationProtocol
  PROVE  EndToEnd' /\ InStream' /\ WriterPlace' /\ ReaderPlace'
<1>1. frames' = frames /\ stream' = stream /\ writer' = writer /\ text' = text /\ sendLen' = sendLen
  BY DEF ApplicationProtocol, Header, HeaderHalf, HeaderNone, Body, BodyDone, BodyEnd, BodyError,
         writing
<1>2. EndToEnd' /\ InStream'
  BY <1>1 DEF EndToEnd, InStream, Edge
<1>3. conn' = conn /\ ReaderPlace'
  <2>1. CASE Header
    BY <2>1, HeaderAligned DEF Header
  <2>2. CASE HeaderHalf
    <3>1. Arrived = 1 /\ reader = "call" /\ conn # "open"
      BY <2>2 DEF HeaderHalf
    <3>2. Arrived = 0
      BY <3>1, EndAligned
    <3> QED
      BY <3>1, <3>2
  <2>3. CASE HeaderNone
    <3>1. Arrived = 0 /\ reader = "call" /\ conn # "open"
      BY <2>3 DEF HeaderNone
    <3>2. writer = "closed" /\ conn = "fin"
      BY <3>1, EndAligned
    <3>3. <<>> # Shutdown
      BY EmptyText
    <3>4. returned' = returned /\ reader' \in {"call", "left"} /\ taken' = taken
      BY <2>3, <3>3 DEF HeaderNone, Return
    <3>5. conn' = conn
      BY <2>3, <3>2 DEF HeaderNone
    <3> QED
      BY <1>1, <3>1, <3>2, <3>4, <3>5 DEF ReaderPlace, ClosedForCause, Edge
  <2>4. CASE Body
    <3>1. recvLen \in Nat /\ payloadLen \in Nat /\ taken \in Nat
      BY DEF TypeOK
    <3>2. PICK n \in 1 .. payloadLen - recvLen : taken' = taken + n /\ recvLen' = recvLen + n
      BY <2>4 DEF Body, Wanted
    <3>3. n \in Nat /\ recvLen' <= payloadLen
      BY <3>1, <3>2
    <3>4. /\ Len(returned) < Len(frames) /\ rc = 2
          /\ payloadLen = Len(frames[Len(returned) + 1].text)
          /\ taken = frames[Len(returned) + 1].at + 2 + recvLen
      BY <2>4 DEF Body, ReaderPlace
    <3>5. frames[Len(returned) + 1].at \in Nat
      <4>1. Len(returned) \in Nat /\ Len(frames) \in Nat
        BY FrameTypes DEF TypeOK
      <4>2. Len(returned) + 1 \in 1 .. Len(frames)
        BY <3>4, <4>1
      <4> QED
        BY <4>2, FrameTypes
    <3>6. taken' = frames[Len(returned) + 1].at + 2 + recvLen'
      BY SMTT(30), <3>1, <3>2, <3>3, <3>4, <3>5
    <3>7. /\ returned' = returned /\ reader' = reader /\ reader = "body" /\ rc' = rc
          /\ payloadLen' = payloadLen /\ conn' = conn
      BY <2>4 DEF Body
    <3> QED
      BY <1>1, <3>3, <3>4, <3>6, <3>7 DEF ReaderPlace, ClosedForCause
  <2>5. CASE BodyDone
    BY <2>5, BodyAligned DEF BodyDone
  <2>6. CASE BodyEnd
    <3>1. /\ Arrived = 0 /\ reader = "body" /\ recvLen # payloadLen /\ conn # "open"
      BY <2>6 DEF BodyEnd
    <3> QED
      BY <3>1, EndAligned
  <2>7. CASE BodyError
    BY <2>7 DEF BodyError, WriterPlace
  <2> QED
    BY <2>1, <2>2, <2>3, <2>4, <2>5, <2>6, <2>7 DEF ApplicationProtocol
<1>4. WriterPlace'
  BY <1>1, <1>3 DEF WriterPlace, UnderWay, Edge
<1> QED
  BY <1>2, <1>3, <1>4

-----------------------------------------------------------------------------
\* Where the frames lie, whole or cut: one behind the other, none empty.
LEMMA LaidFacts ==
  ASSUME TypeOK, Laid
  PROVE  /\ Len(frames) \in Nat /\ Len(stream) \in Nat /\ taken \in Nat /\ taken <= Len(stream)
         /\ recvLen \in Nat /\ rc \in Nat /\ payloadLen \in Nat
         /\ Edge(0) = 0 /\ \A i \in 0 .. Len(frames) : Edge(i) \in Nat
         /\ \A i \in 1 .. Len(frames) :
              /\ frames[i].text \in Text \cup {Shutdown}
              /\ frames[i].at \in Nat /\ frames[i].end \in Nat
              /\ i - 1 \in 0 .. Len(frames) /\ i \in 0 .. Len(frames)
              /\ frames[i].at = Edge(i - 1) /\ frames[i].end = Edge(i)
              /\ frames[i].at < frames[i].end
              /\ frames[i].end <= frames[i].at + Len(frames[i].text) + 2
              /\ Len(frames[i].text) \in Nat
              /\ Len(Frame(frames[i].text)) = Len(frames[i].text) + 2
         /\ \A i, k \in 0 .. Len(frames) : i < k => Edge(i) < Edge(k)
<1>1. /\ Len(frames) \in Nat /\ Len(stream) \in Nat /\ taken \in Nat /\ taken <= Len(stream)
      /\ recvLen \in Nat /\ rc \in Nat /\ payloadLen \in Nat
  BY FrameTypes DEF TypeOK
<1>2. \A i \in 1 .. Len(frames) :
        /\ frames[i].text \in Text \cup {Shutdown}
        /\ frames[i].at \in Nat /\ frames[i].end \in Nat
        /\ frames[i].at = Edge(i - 1)
        /\ frames[i].at < frames[i].end
        /\ frames[i].end <= frames[i].at + Len(Frame(frames[i].text))
  BY FrameTypes DEF Laid
<1>3. \A i \in 1 .. Len(frames) :
        /\ Len(frames[i].text) \in Nat
        /\ Len(Frame(frames[i].text)) = Len(frames[i].text) + 2
  BY <1>2, FrameFacts
<1>4. \A i \in 1 .. Len(frames) :
        /\ i - 1 \in 0 .. Len(frames) /\ i \in 0 .. Len(frames) /\ frames[i].end = Edge(i)
  BY <1>1 DEF Edge
<1>5. Edge(0) = 0 /\ \A i \in 0 .. Len(frames) : Edge(i) \in Nat
  BY <1>1, <1>2 DEF Edge
<1>6. ASSUME NEW i \in 0 .. Len(frames), NEW k \in 0 .. Len(frames), i < k
      PROVE  Edge(i) < Edge(k)
  <2>1. k \in 1 .. Len(frames)
    BY <1>1, <1>6
  <2>2. frames[k].at \in Nat /\ frames[k].at < Edge(k)
    BY <1>2, <1>4, <2>1
  <2>3. CASE i = 0
    BY <1>5, <2>2, <2>3
  <2>4. CASE i # 0
    <3>1. i \in 1 .. Len(frames) /\ k \in i + 1 .. Len(frames)
      BY <1>1, <1>6, <2>4
    <3>2. frames[i].end <= frames[k].at /\ frames[i].end = Edge(i)
      BY <1>4, <3>1 DEF Laid
    <3> QED
      BY <1>5, <2>2, <3>2
  <2> QED
    BY <2>3, <2>4
<1>7. \A i \in 1 .. Len(frames) : frames[i].end <= frames[i].at + Len(frames[i].text) + 2
  BY <1>2, <1>3
<1> QED
  BY <1>1, <1>2, <1>3, <1>4, <1>5, <1>6, <1>7

\* Every byte up to the last edge lies in a frame.
LEMMA Holder ==
  ASSUME TypeOK, Laid, NEW p \in Nat, p >= 1, p <= Edge(Len(frames))
  PROVE  \E i \in 1 .. Len(frames) : frames[i].at < p /\ p <= frames[i].end
<1>1. PICK n \in Nat : n = Len(frames)
  BY LaidFacts
<1> DEFINE T == {i \in 0 .. n : p <= Edge(i)}
<1>2. n \in T /\ T \subseteq Nat
  BY <1>1
<1>3. PICK x \in T : \A y \in T : x <= y
  <2> HIDE DEF T
  <2> QED
    BY <1>2, Smallest
<1>4. x \in 0 .. n /\ p <= Edge(x)
  OBVIOUS
<1>5. x # 0
  BY <1>4, LaidFacts
<1>6. x \in 1 .. n /\ x - 1 \in 0 .. n /\ ~(x <= x - 1)
  BY <1>4, <1>5
<1>7. x - 1 \notin T
  BY <1>3, <1>6
<1>8. ~(p <= Edge(x - 1)) /\ Edge(x - 1) \in Nat
  BY <1>1, <1>6, <1>7, LaidFacts
<1>9. frames[x].at = Edge(x - 1) /\ frames[x].end = Edge(x)
  BY <1>1, <1>6, LaidFacts
<1> QED
  BY <1>1, <1>4, <1>6, <1>8, <1>9

\* A byte of the stream is the byte of its frame.
LEMMA ByteOf ==
  ASSUME TypeOK, Laid, NEW i \in 1 .. Len(frames), NEW p \in Nat,
         frames[i].at < p, p <= frames[i].end, p <= Len(stream)
  PROVE  /\ p - frames[i].at \in 1 .. Len(Frame(frames[i].text))
         /\ stream[p] = Frame(frames[i].text)[p - frames[i].at]
<1>1. /\ frames[i].at \in Nat /\ frames[i].end \in Nat
      /\ Len(Frame(frames[i].text)) = Len(frames[i].text) + 2 /\ Len(frames[i].text) \in Nat
      /\ frames[i].end <= frames[i].at + Len(frames[i].text) + 2
  BY LaidFacts
<1>2. PICK a \in Nat : a = frames[i].at
  BY <1>1
<1>3. PICK e \in Nat : e = frames[i].end
  BY <1>1
<1>4. PICK l \in Nat : l = Len(Frame(frames[i].text)) /\ e <= a + l
  <2>1. PICK t \in Nat : t = Len(frames[i].text)
    BY <1>1
  <2>2. Len(Frame(frames[i].text)) = t + 2 /\ e <= a + t + 2
    BY <1>1, <1>2, <1>3, <2>1
  <2> QED
    BY <2>2
<1>5. a < p /\ p <= e
  BY <1>2, <1>3
<1>6. p - a \in 1 .. e - a /\ p - a \in 1 .. l /\ a + (p - a) = p
  BY <1>4, <1>5
<1>7. \A j \in 1 .. frames[i].end - frames[i].at :
        frames[i].at + j <= Len(stream) => stream[frames[i].at + j] = Frame(frames[i].text)[j]
  BY DEF Laid
<1>8. a + (p - a) <= Len(stream) => stream[a + (p - a)] = Frame(frames[i].text)[p - a]
  BY <1>2, <1>3, <1>6, <1>7
<1> QED
  BY <1>2, <1>4, <1>6, <1>8

\* The bytes of Shutdown: the first is 0, and no other.
LEMMA ShutdownBytes ==
  /\ Len(Frame(Shutdown)) = Len(Shutdown) + 2 /\ Len(Shutdown) \in Nat
  /\ Len(Shutdown) + 1 <= Base
  /\ Frame(Shutdown)[1] = 0
  /\ \A j \in 2 .. Len(Frame(Shutdown)) : Frame(Shutdown)[j] \in Nat /\ Frame(Shutdown)[j] >= 1
<1>1. PICK l \in Nat : l = Len(Shutdown) /\ l \in 1 .. Base - 1 /\ Base \in Nat
  BY TextAssumption, ShutdownAssumption, BaseAssumption
<1>2. l \div Base = 0 /\ l % Base = l
  BY <1>1
<1>3. Shutdown \in Seq(1 .. Base - 1)
  BY TextAssumption
<1>4. Frame(Shutdown) = <<0, l>> \o Shutdown
  BY <1>1, <1>2 DEF Frame
<1>5. /\ Len(Frame(Shutdown)) = l + 2 /\ Frame(Shutdown)[1] = 0 /\ Frame(Shutdown)[2] = l
      /\ \A j \in 3 .. l + 2 : Frame(Shutdown)[j] = Shutdown[j - 2]
  BY <1>1, <1>3, <1>4
<1>6. \A j \in 3 .. l + 2 : Shutdown[j - 2] \in 1 .. Base - 1
  BY <1>1, <1>3
<1> QED
  BY <1>1, <1>5, <1>6

-----------------------------------------------------------------------------
\* What is loose stays so further on, and from the end of a frame that was cut.
LEMMA LooseOn ==
  ASSUME TypeOK, Laid
  PROVE  /\ \A p, q \in Nat : Loose(p) /\ p <= q => Loose(q)
         /\ \A i \in 1 .. Len(frames) : Cut(i) => Loose(frames[i].end)
<1>1. Len(frames) \in Nat /\ \A i \in 1 .. Len(frames) : frames[i].end \in Nat
  BY LaidFacts
<1>2. ASSUME NEW p \in Nat, NEW q \in Nat, Loose(p), p <= q PROVE Loose(q)
  BY <1>1, <1>2 DEF Loose
<1>3. ASSUME NEW i \in 1 .. Len(frames), Cut(i) PROVE Loose(frames[i].end)
  <2>1. Stopping /\ \A k \in i + 1 .. Len(frames) : frames[k].text = Shutdown
    BY <1>3 DEF Laid
  <2>2. ASSUME NEW k \in 1 .. Len(frames), frames[k].end > frames[i].end PROVE k > i
    <3>1. /\ i \in 0 .. Len(frames) /\ k \in 0 .. Len(frames)
          /\ frames[i].end = Edge(i) /\ frames[k].end = Edge(k)
          /\ frames[i].end \in Nat /\ frames[k].end \in Nat
      BY LaidFacts
    <3>2. k < i => Edge(k) < Edge(i)
      BY <3>1, LaidFacts
    <3> QED
      BY <1>1, <2>2, <3>1, <3>2
  <2>3. ASSUME NEW k \in 1 .. Len(frames), frames[k].end > frames[i].end
        PROVE  frames[k].text = Shutdown
    <3>1. k \in i + 1 .. Len(frames)
      BY <1>1, <2>2, <2>3
    <3> QED
      BY <2>1, <3>1
  <2> QED
    BY <2>1, <2>3 DEF Loose
<1> QED
  BY <1>2, <1>3

\* A place in a frame is at an edge only when the frame begins there.
LEMMA EdgeIn ==
  ASSUME TypeOK, Laid, NEW p \in Nat, AtEdge(p), NEW i \in 1 .. Len(frames),
         frames[i].at <= p, p < frames[i].end
  PROVE  frames[i].at = p
<1>1. PICK k \in 0 .. Len(frames) : p = Edge(k)
  BY DEF AtEdge
<1>2. /\ i - 1 \in 0 .. Len(frames) /\ i \in 0 .. Len(frames)
      /\ frames[i].at = Edge(i - 1) /\ frames[i].end = Edge(i)
      /\ Edge(i) \in Nat /\ Edge(i - 1) \in Nat /\ Edge(k) \in Nat /\ Len(frames) \in Nat
  BY LaidFacts
<1>3. ~(k < i - 1)
  <2>1. k < i - 1 => Edge(k) < Edge(i - 1)
    BY <1>2, LaidFacts
  <2> QED
    BY <1>1, <1>2, <2>1
<1>4. ~(i < k) /\ k # i
  <2>1. i < k => Edge(i) < Edge(k)
    BY <1>2, LaidFacts
  <2> QED
    BY <1>1, <1>2, <2>1
<1>5. k = i - 1
  BY <1>2, <1>3, <1>4
<1> QED
  BY <1>1, <1>2, <1>5

\* The byte at an edge, where everything is loose, is 0.
LEMMA ZeroAtEdge ==
  ASSUME TypeOK, Laid, WriterStands, NEW p \in Nat, AtEdge(p), Loose(p), p + 1 <= Len(stream)
  PROVE  stream[p + 1] = 0
<1>1. p + 1 \in Nat /\ p + 1 >= 1 /\ p + 1 <= Edge(Len(frames))
  <2>1. Edge(Len(frames)) \in Nat /\ Len(stream) \in Nat
    <3>1. Len(frames) \in Nat /\ Len(stream) \in Nat
      BY LaidFacts
    <3>2. Len(frames) \in 0 .. Len(frames)
      BY <3>1
    <3> QED
      BY <3>1, <3>2, LaidFacts
  <2>2. Len(stream) <= Edge(Len(frames))
    BY DEF WriterStands
  <2> QED
    BY <2>1, <2>2
<1>2. PICK i \in 1 .. Len(frames) : frames[i].at < p + 1 /\ p + 1 <= frames[i].end
  BY <1>1, Holder
<1>3. frames[i].at \in Nat /\ frames[i].end \in Nat
  BY LaidFacts
<1>4. frames[i].at <= p /\ p < frames[i].end
  BY <1>2, <1>3
<1>5. frames[i].at = p
  BY <1>4, EdgeIn
<1>6. frames[i].text = Shutdown
  BY <1>4 DEF Loose
<1>7. stream[p + 1] = Frame(Shutdown)[(p + 1) - p]
  BY <1>1, <1>2, <1>5, <1>6, ByteOf
<1>8. (p + 1) - p = 1
  OBVIOUS
<1> QED
  BY <1>7, <1>8, ShutdownBytes

\* A length that was read where everything is loose is 0, or so large that the
\* text takes the rest of its frame.
LEMMA LooseBody ==
  ASSUME TypeOK, Laid, NEW p \in Nat, Loose(p), p <= Edge(Len(frames)), NEW n \in Nat,
         n = 0 \/ n >= Base
  PROVE  TakesRest(p, n)
<1>1. CASE n = 0 \/ AtEdge(p)
  BY <1>1 DEF TakesRest
<1>2. CASE n >= Base /\ ~AtEdge(p)
  <2>1. p >= 1
    <3>1. Edge(0) = 0 /\ Len(frames) \in Nat
      BY LaidFacts
    <3>2. p # 0
      BY <1>2, <3>1 DEF AtEdge
    <3> QED
      BY <3>2
  <2>2. PICK i \in 1 .. Len(frames) : frames[i].at < p /\ p <= frames[i].end
    BY <2>1, Holder
  <2>3. /\ frames[i].at \in Nat /\ frames[i].end \in Nat /\ i \in 0 .. Len(frames)
        /\ frames[i].end = Edge(i)
        /\ frames[i].end <= frames[i].at + Len(frames[i].text) + 2
    BY LaidFacts
  <2>4. p # frames[i].end
    BY <1>2, <2>3 DEF AtEdge
  <2>5. frames[i].text = Shutdown
    BY <2>2, <2>3, <2>4 DEF Loose
  <2>6. PICK l \in Nat : l = Len(Shutdown) /\ l + 1 <= Base /\ Base \in Nat
    BY ShutdownBytes, BaseAssumption
  <2>7. PICK a \in Nat : a = frames[i].at
    BY <2>3
  <2>8. PICK e \in Nat : e = frames[i].end
    BY <2>3
  <2>9. e <= a + l + 2 /\ a < p /\ p < e
    BY <2>2, <2>3, <2>4, <2>5, <2>6, <2>7, <2>8
  <2>10. e - p <= n
    BY <1>2, <2>6, <2>9
  <2>11. Loose(frames[i].end)
    BY <2>2, <2>3, LooseOn
  <2>12. frames[i].at <= p /\ p < frames[i].end /\ frames[i].end - p <= n
    BY <2>7, <2>8, <2>9, <2>10
  <2> QED
    BY <2>11, <2>12 DEF TakesRest
<1> QED
  BY <1>1, <1>2

-----------------------------------------------------------------------------
\* The length that the reader takes, where it stands, reaches the end of the
\* frame that follows.
LEMMA HeaderTakes ==
  ASSUME TypeOK, Whereabouts, NEW t \in Nat, AtEdge(t) \/ Loose(t), t + 2 <= Len(stream)
  PROVE  TakesRest(t + 2, stream[t + 1] * Base + stream[t + 2])
<1>0. Laid /\ WriterStands
  BY DEF Whereabouts
<1>1. /\ Len(frames) \in Nat /\ Len(stream) \in Nat /\ Edge(Len(frames)) \in Nat
      /\ Len(stream) <= Edge(Len(frames)) /\ stream \in Seq(Byte)
  <2>1. Len(frames) \in Nat /\ Len(stream) \in Nat
    BY <1>0, LaidFacts
  <2>2. Len(frames) \in 0 .. Len(frames)
    BY <2>1
  <2> QED
    BY <1>0, <2>1, <2>2, LaidFacts DEF WriterStands, TypeOK, Byte
<1>2. /\ t + 1 \in Nat /\ t + 2 \in Nat /\ t + 1 >= 1 /\ t + 2 >= 1
      /\ t + 1 \in 1 .. Len(stream) /\ t + 2 \in 1 .. Len(stream)
      /\ t + 1 <= Edge(Len(frames)) /\ t + 2 <= Edge(Len(frames))
      /\ (t + 1) + 1 = t + 2
  BY <1>1
<1>3. PICK b1 \in Nat : b1 = stream[t + 1]
  BY <1>1, <1>2, ElementOfSeq, BaseAssumption DEF Byte
<1>4. PICK b2 \in Nat : b2 = stream[t + 2]
  BY <1>1, <1>2, ElementOfSeq, BaseAssumption DEF Byte
<1>5. Base \in Nat /\ Base > 1
  BY BaseAssumption
<1> DEFINE n == b1 * Base + b2
<1>6. n \in Nat /\ (b1 = 0 => n = b2) /\ (b1 >= 1 => n >= Base) /\ (b1 = 0 /\ b2 = 0 => n = 0)
  <2>1. b1 * Base \in Nat /\ (b1 = 0 => b1 * Base = 0)
    BY <1>5
  <2>2. b1 >= 1 => b1 * Base >= Base
    BY <1>5
  <2> QED
    BY <1>5, <2>1, <2>2
<1>7. n = stream[t + 1] * Base + stream[t + 2]
  BY <1>3, <1>4
<1> HIDE DEF n
<1>8. PICK i \in 1 .. Len(frames) : frames[i].at < t + 1 /\ t + 1 <= frames[i].end
  BY <1>0, <1>2, Holder
<1>9. PICK a \in Nat : a = frames[i].at
  BY <1>0, LaidFacts
<1>10. PICK e \in Nat : e = frames[i].end
  BY <1>0, LaidFacts
<1>11. a <= t /\ t < e
  BY <1>8, <1>9, <1>10
<1>12. /\ frames[i].text \in Text \cup {Shutdown} /\ i \in 0 .. Len(frames)
       /\ frames[i].end = Edge(i)
  BY <1>0, LaidFacts
<1>13. PICK l \in Nat : /\ l = Len(frames[i].text) /\ e <= a + l + 2
                        /\ Len(Frame(frames[i].text)) = l + 2
  <2>1. /\ Len(frames[i].text) \in Nat
        /\ frames[i].end <= frames[i].at + Len(frames[i].text) + 2
        /\ Len(Frame(frames[i].text)) = Len(frames[i].text) + 2
    BY <1>0, LaidFacts
  <2> QED
    BY <1>9, <1>10, <2>1
<1>14. e < a + (l + 2) => Loose(e)
  <2>1. e < a + (l + 2) => Cut(i)
    BY <1>9, <1>10, <1>13 DEF Cut
  <2> QED
    BY <1>0, <1>10, <2>1, LooseOn
<1>15. CASE AtEdge(t) /\ e >= t + 2
  <2>1. a = t
    BY <1>0, <1>9, <1>10, <1>11, <1>15, EdgeIn
  <2>2. stream[t + 1] = Frame(frames[i].text)[1]
    <3>0. stream[t + 1] = Frame(frames[i].text)[(t + 1) - frames[i].at]
      BY <1>0, <1>2, <1>8, ByteOf
    <3>1. stream[t + 1] = Frame(frames[i].text)[(t + 1) - t]
      BY <1>9, <2>1, <3>0
    <3>2. (t + 1) - t = 1
      OBVIOUS
    <3> QED
      BY <3>1, <3>2
  <2>3. stream[t + 2] = Frame(frames[i].text)[2]
    <3>0. frames[i].at < t + 2 /\ t + 2 <= frames[i].end
      BY <1>9, <1>10, <1>15, <2>1
    <3>3. stream[t + 2] = Frame(frames[i].text)[(t + 2) - frames[i].at]
      BY <1>0, <1>2, <3>0, ByteOf
    <3>1. stream[t + 2] = Frame(frames[i].text)[(t + 2) - t]
      BY <1>9, <2>1, <3>3
    <3>2. (t + 2) - t = 2
      OBVIOUS
    <3> QED
      BY <3>1, <3>2
  <2>4. n = l
    BY <1>7, <1>12, <1>13, <2>2, <2>3, FrameFacts
  <2>5. CASE e = t + 2
    <3>1. Loose(t + 2) \/ n = 0
      <4>1. e < a + (l + 2) \/ l = 0
        BY <1>13, <2>1, <2>5
      <4> QED
        BY <1>14, <2>4, <2>5, <4>1
    <3>2. AtEdge(t + 2)
      BY <1>10, <1>12, <2>5 DEF AtEdge
    <3> QED
      BY <1>7, <3>1, <3>2 DEF TakesRest
  <2>6. CASE e > t + 2
    <3>1. frames[i].at <= t + 2 /\ t + 2 < frames[i].end /\ frames[i].end - (t + 2) <= n
      <4>1. a <= t + 2 /\ t + 2 < e /\ e - (t + 2) <= l
        BY <1>13, <2>1, <2>6
      <4> QED
        BY <1>9, <1>10, <2>4, <4>1
    <3>2. frames[i].end - (t + 2) < n => Loose(frames[i].end)
      <4>1. e - (t + 2) < n => e < a + (l + 2)
        BY <1>13, <2>1, <2>4
      <4> QED
        BY <1>10, <1>14, <4>1
    <3> QED
      BY <1>7, <3>1, <3>2 DEF TakesRest
  <2> QED
    BY <1>15, <2>5, <2>6
<1>16. CASE AtEdge(t) /\ e = t + 1
  <2>1. a = t
    BY <1>0, <1>9, <1>10, <1>11, <1>16, EdgeIn
  <2>2. Loose(t + 1)
    <3>1. e < a + (l + 2)
      BY <1>13, <1>16, <2>1
    <3> QED
      BY <1>14, <1>16, <3>1
  <2>3. AtEdge(t + 1)
    BY <1>10, <1>12, <1>16 DEF AtEdge
  <2>4. b2 = 0
    <3>1. stream[(t + 1) + 1] = 0
      BY <1>0, <1>2, <2>2, <2>3, ZeroAtEdge
    <3> QED
      BY <1>2, <1>4, <3>1
  <2>5. n = 0 \/ n >= Base
    BY <1>6, <2>4
  <2>6. Loose(t + 2)
    <3>1. t + 1 <= t + 2
      OBVIOUS
    <3> QED
      BY <1>0, <1>2, <2>2, <3>1, LooseOn
  <2> QED
    BY <1>0, <1>2, <1>6, <1>7, <2>5, <2>6, LooseBody
<1>17. CASE ~AtEdge(t)
  <2>1. Loose(t)
    BY <1>17
  <2>2. frames[i].text = Shutdown
    BY <1>10, <1>11, <2>1 DEF Loose
  <2>3. a # t
    <3>1. i - 1 \in 0 .. Len(frames) /\ frames[i].at = Edge(i - 1)
      BY <1>0, LaidFacts
    <3> QED
      BY <1>9, <1>17, <3>1 DEF AtEdge
  <2>4. b1 >= 1
    <3>1. /\ (t + 1) - frames[i].at \in 1 .. Len(Frame(frames[i].text))
          /\ stream[t + 1] = Frame(frames[i].text)[(t + 1) - frames[i].at]
      BY <1>0, <1>2, <1>8, ByteOf
    <3>2. PICK j \in Nat : j = (t + 1) - a /\ j >= 2
      BY <1>11, <2>3
    <3>3. j \in 2 .. Len(Frame(Shutdown)) /\ b1 = Frame(Shutdown)[j]
      <4>1. j \in 1 .. Len(Frame(Shutdown)) /\ b1 = Frame(Shutdown)[j]
        BY <1>3, <1>9, <2>2, <3>1, <3>2
      <4>2. Len(Frame(Shutdown)) \in Nat
        BY <1>13, <2>2
      <4> QED
        BY <3>2, <4>1, <4>2
    <3> QED
      BY <3>3, ShutdownBytes
  <2>5. n >= Base
    BY <1>6, <2>4
  <2>6. Loose(t + 2)
    <3>1. t <= t + 2
      OBVIOUS
    <3> QED
      BY <1>0, <1>2, <2>1, <3>1, LooseOn
  <2> QED
    BY <1>0, <1>2, <1>6, <1>7, <2>5, <2>6, LooseBody
<1> QED
  BY <1>11, <1>15, <1>16, <1>17

-----------------------------------------------------------------------------
\* A reader between two texts is at an edge, where everything is loose, or at
\* the end.
LEMMA BodyPlace ==
  ASSUME TypeOK, Whereabouts, reader = "body", recvLen = payloadLen
  PROVE  AtEdge(taken) \/ Loose(taken) \/ Drained
<1>0. Laid
  BY DEF Whereabouts
<1>1. taken \in Nat /\ recvLen \in Nat /\ recvLen <= taken
  BY <1>0, LaidFacts DEF TypeOK
<1>2. PICK p \in Nat : p = taken - recvLen
  BY <1>1
<1>3. p + recvLen = taken /\ p <= taken
  BY <1>1, <1>2
<1>4. Drained \/ TakesRest(p, payloadLen)
  BY <1>2 DEF Whereabouts, ReaderStands
<1>5. CASE Loose(p)
  BY <1>0, <1>1, <1>3, <1>5, LooseOn
<1>6. CASE AtEdge(p) /\ payloadLen = 0
  <2>1. p = taken
    BY <1>3, <1>6
  <2> QED
    BY <1>6, <2>1
<1>7. ASSUME NEW i \in 1 .. Len(frames), frames[i].end - p <= payloadLen,
             frames[i].end - p < payloadLen => Loose(frames[i].end)
      PROVE  AtEdge(taken) \/ Loose(taken)
  <2>1. frames[i].end \in Nat /\ i \in 0 .. Len(frames) /\ frames[i].end = Edge(i)
    BY <1>0, LaidFacts
  <2>2. PICK e \in Nat : e = frames[i].end
    BY <2>1
  <2>3. e <= taken /\ (e < taken => e - p < payloadLen)
    BY <1>1, <1>3, <1>7, <2>2
  <2>4. CASE e = taken
    BY <2>1, <2>2, <2>4 DEF AtEdge
  <2>5. CASE e < taken
    BY <1>0, <1>1, <1>7, <2>2, <2>3, <2>5, LooseOn
  <2> QED
    BY <1>1, <2>3, <2>4, <2>5
<1> QED
  BY <1>4, <1>5, <1>6, <1>7 DEF TakesRest

\* The reader moves only itself.
LEMMA ReadingMoves ==
  ASSUME ApplicationProtocol
  PROVE  /\ frames' = frames /\ stream' = stream /\ writer' = writer /\ text' = text
         /\ sendLen' = sendLen /\ broken' = broken /\ to' = to
         /\ conn' = conn \/ (conn = "reset" /\ conn' = "over")
BY DEF ApplicationProtocol, Header, HeaderHalf, HeaderNone, Body, BodyDone, BodyEnd, BodyError,
       writing

\* And what it reads lies as before.
LEMMA SameThere ==
  ASSUME frames' = frames, writer' = writer, text' = text
  PROVE  \A p, n \in Nat : /\ AtEdge(p) => AtEdge(p)'
                           /\ Loose(p) => Loose(p)'
                           /\ TakesRest(p, n) => TakesRest(p, n)'
<1>1. \A i : Edge(i)' = Edge(i)
  BY DEF Edge
<1>2. Stopping' = Stopping
  BY DEF Stopping
<1>3. \A p : AtEdge(p)' <=> AtEdge(p)
  BY <1>1 DEF AtEdge
<1>4. \A p : Loose(p)' <=> Loose(p)
  BY <1>2 DEF Loose
<1>5. \A p, n : TakesRest(p, n)' <=> TakesRest(p, n)
  BY <1>3, <1>4 DEF TakesRest
<1> QED
  BY <1>3, <1>4, <1>5

\* The steps of applicationProtocol.
LEMMA ReadingWhereabouts ==
  ASSUME TypeOK, Whereabouts, ApplicationProtocol
  PROVE  Whereabouts'
<1>0. Laid /\ WriterStands /\ ReaderStands
  BY DEF Whereabouts
<1>1. /\ frames' = frames /\ stream' = stream /\ writer' = writer /\ text' = text
      /\ sendLen' = sendLen
      /\ conn' = conn \/ (conn = "reset" /\ conn' = "over")
  BY ReadingMoves
<1>2. Laid'
  BY <1>0, <1>1 DEF Laid, Edge, Cut, Stopping
<1>3. WriterStands'
  BY <1>0, <1>1 DEF WriterStands, Edge, Cut, UnderWay
<1>4. /\ taken \in Nat /\ Len(stream) \in Nat /\ taken <= Len(stream) /\ recvLen \in Nat
      /\ rc \in Nat /\ payloadLen \in Nat /\ recvLen <= taken
  BY <1>0, LaidFacts DEF TypeOK
<1>5. Arrived = 0 => taken = Len(stream)
  BY <1>4 DEF Arrived
<1>6. Drained <=> conn # "open" /\ Arrived = 0
  BY <1>4 DEF Drained, Arrived
<1>7. ReaderStands'
  <2>1. CASE Header
    <3>1. /\ reader = "call" /\ Arrived >= 2 /\ taken' = taken + 2 /\ rc' = 2 /\ recvLen' = 0
          /\ payloadLen' = stream[taken + 1] * Base + stream[taken + 2]
          /\ reader' = "body" /\ conn' = conn
      BY <2>1 DEF Header
    <3>2. taken + 2 <= Len(stream) /\ ~Drained
      BY <1>4, <1>6, <3>1 DEF Arrived
    <3>3. AtEdge(taken) \/ Loose(taken)
      BY <1>0, <3>1, <3>2 DEF ReaderStands
    <3>4. PICK p \in Nat : p = taken + 2
      BY <1>4
    <3>5. PICK n \in Nat : n = payloadLen'
      <4>1. TypeOK'
        BY ReaderTypes
      <4> QED
        BY <4>1 DEF TypeOK
    <3>6. TakesRest(p, n)
      BY <1>4, <3>1, <3>2, <3>3, <3>4, <3>5, HeaderTakes
    <3>7. TakesRest(p, n)'
      BY <1>1, <3>6, SameThere
    <3>8. (taken - recvLen)' = p
      BY <1>4, <3>1, <3>4
    <3>9. TakesRest(taken - recvLen, payloadLen)'
      BY <3>5, <3>7, <3>8 DEF TakesRest, Loose, AtEdge
    <3>10. conn # "over"
      BY <1>0, <3>2 DEF ReaderStands
    <3> QED
      BY <1>4, <3>1, <3>5, <3>9, <3>10 DEF ReaderStands
  <2>2. CASE HeaderHalf
    <3>1. /\ reader = "call" /\ Arrived = 1 /\ taken' = taken + 1 /\ rc' = 1 /\ recvLen' = 0
          /\ reader' = "body" /\ conn' = conn /\ conn # "open"
      BY <2>2 DEF HeaderHalf
    <3>2. ~Drained /\ taken' = Len(stream)
      BY <1>4, <1>6, <3>1 DEF Arrived
    <3>3. conn # "over"
      BY <1>0, <3>2 DEF ReaderStands
    <3>4. Drained'
      BY <1>1, <3>1, <3>2 DEF Drained
    <3>5. payloadLen' \in Nat
      <4>1. TypeOK'
        BY ReaderTypes
      <4> QED
        BY <4>1 DEF TypeOK
    <3> QED
      BY <1>4, <3>1, <3>3, <3>4, <3>5 DEF ReaderStands
  <2>3. CASE HeaderNone \/ BodyEnd \/ BodyError
    <3>1. Arrived = 0 /\ conn # "open" /\ taken' = taken
      BY <2>3 DEF HeaderNone, BodyEnd, BodyError
    <3>2. Drained'
      BY <1>1, <1>5, <3>1 DEF Drained
    <3>3. reader' # "body"
      BY <2>3 DEF HeaderNone, BodyEnd, BodyError, Return
    <3> QED
      BY <3>2, <3>3 DEF ReaderStands
  <2>4. CASE Body
    <3>1. PICK n \in 1 .. payloadLen - recvLen :
             n <= Arrived /\ taken' = taken + n /\ recvLen' = recvLen + n
      BY <2>4 DEF Body, Wanted
    <3>2. /\ n \in Nat /\ n >= 1 /\ recvLen' <= payloadLen /\ ~Drained
          /\ taken' - recvLen' = taken - recvLen
      BY <1>4, <1>6, <3>1 DEF Arrived
    <3>3. /\ reader = "body" /\ reader' = "body" /\ rc' = rc /\ payloadLen' = payloadLen
          /\ conn' = conn
      BY <2>4 DEF Body
    <3>4. PICK p \in Nat : p = taken - recvLen
      BY <1>4
    <3>5. /\ TakesRest(p, payloadLen) /\ conn # "over" /\ rc > 0 /\ rc + recvLen <= taken
      BY <1>0, <3>2, <3>3, <3>4 DEF ReaderStands
    <3>6. PICK m \in Nat : m = payloadLen
      BY <1>4
    <3>7. TakesRest(p, m)'
      BY <1>1, <3>5, <3>6, SameThere
    <3>8. TakesRest(taken - recvLen, payloadLen)'
      BY <3>2, <3>3, <3>4, <3>6, <3>7 DEF TakesRest, Loose, AtEdge
    <3>9. rc' + recvLen' <= taken'
      BY <1>4, <3>1, <3>2, <3>3, <3>5
    <3> QED
      BY <3>2, <3>3, <3>5, <3>8, <3>9 DEF ReaderStands
  <2>5. CASE BodyDone
    <3>1. /\ reader = "body" /\ recvLen = payloadLen /\ taken' = taken /\ conn' = conn
          /\ reader' # "body"
      BY <2>5 DEF BodyDone, Return
    <3>2. conn # "over"
      BY <1>0, <3>1 DEF ReaderStands
    <3>3. AtEdge(taken) \/ Loose(taken) \/ Drained
      BY <3>1, BodyPlace
    <3>4. PICK t \in Nat : t = taken
      BY <1>4
    <3>5. AtEdge(t)' \/ Loose(t)' \/ Drained'
      <4>1. Drained => Drained'
        BY <1>1, <3>1 DEF Drained
      <4>2. AtEdge(t) \/ Loose(t) \/ Drained
        BY <3>3, <3>4
      <4> QED
        BY <1>1, <4>1, <4>2, SameThere
    <3>6. AtEdge(taken)' \/ Loose(taken)' \/ Drained'
      BY <3>1, <3>4, <3>5 DEF AtEdge, Loose
    <3> QED
      BY <3>1, <3>2, <3>6 DEF ReaderStands
  <2> QED
    BY <2>1, <2>2, <2>3, <2>4, <2>5 DEF ApplicationProtocol
<1> QED
  BY <1>2, <1>3, <1>7 DEF Whereabouts

-----------------------------------------------------------------------------
\* A step of the writer leaves the reader where it stands, when no place that
\* was an edge, loose, or begun to be read becomes another.
LEMMA ReaderStays ==
  ASSUME TypeOK, ReaderStands, UNCHANGED reading, Drained => Drained', conn' # "over",
         \A p, n \in Nat : p <= taken =>
           /\ AtEdge(p) => AtEdge(p)'
           /\ Loose(p) => Loose(p)'
           /\ TakesRest(p, n) => TakesRest(p, n)'
  PROVE  ReaderStands'
<1>1. /\ taken \in Nat /\ recvLen \in Nat /\ recvLen <= taken /\ payloadLen \in Nat
  BY DEF TypeOK
<1>2. /\ taken' = taken /\ recvLen' = recvLen /\ payloadLen' = payloadLen /\ rc' = rc
      /\ reader' = reader
  BY DEF reading
<1>3. PICK t \in Nat : t = taken
  BY <1>1
<1>4. PICK p \in Nat : p = taken - recvLen /\ p <= taken
  BY <1>1
<1>5. PICK n \in Nat : n = payloadLen
  BY <1>1
<1>6. ASSUME reader = "call"
      PROVE  AtEdge(taken)' \/ Loose(taken)' \/ Drained'
  <2>1. AtEdge(t) \/ Loose(t) \/ Drained
    BY <1>3, <1>6 DEF ReaderStands
  <2>2. t <= taken
    BY <1>3
  <2>3. AtEdge(t)' \/ Loose(t)' \/ Drained'
    BY <2>1, <2>2
  <2> QED
    BY <1>2, <1>3, <2>3 DEF AtEdge, Loose
<1>7. ASSUME reader = "body"
      PROVE  (recvLen = 0 /\ Drained') \/ TakesRest(taken - recvLen, payloadLen)'
  <2>1. (recvLen = 0 /\ Drained) \/ TakesRest(p, n)
    BY <1>4, <1>5, <1>7 DEF ReaderStands
  <2>2. (recvLen = 0 /\ Drained') \/ TakesRest(p, n)'
    BY <1>4, <2>1
  <2>3. TakesRest(p, n)' => TakesRest(taken - recvLen, payloadLen)'
    BY <1>2, <1>4, <1>5 DEF TakesRest, Loose, AtEdge
  <2> QED
    BY <2>2, <2>3
<1>8. reader = "body" => recvLen <= payloadLen /\ rc > 0 /\ rc + recvLen <= taken
  BY DEF ReaderStands
<1> QED
  BY <1>2, <1>6, <1>7, <1>8 DEF ReaderStands

\* The writer's own steps outside a frame that it leaves, and the kernel's.
LEMMA QuietWhereabouts ==
  ASSUME TypeOK, Whereabouts, SendTcp \/ End \/ Reset \/ (Interrupt /\ ~InFrame)
  PROVE  Whereabouts'
<1>0. Laid /\ WriterStands /\ ReaderStands
  BY DEF Whereabouts
<1>1. /\ frames' = frames /\ UNCHANGED reading
  BY DEF SendTcp, End, Reset, Interrupt, writing
<1>2. /\ taken \in Nat /\ Len(stream) \in Nat /\ taken <= Len(stream) /\ Len(frames) \in Nat
      /\ sendLen \in Nat /\ stream \in Seq(Byte)
      /\ Edge(Len(frames)) \in Nat
  <2>1. Len(frames) \in 0 .. Len(frames) /\ sendLen \in Nat /\ stream \in Seq(Byte)
    BY <1>0, LaidFacts DEF TypeOK, Byte
  <2> QED
    BY <1>0, <2>1, LaidFacts
\* At most, everything becomes loose.
<1>3. Stopping => Stopping'
  BY <1>0 DEF Stopping, WriterStands, SendTcp, End, Reset, Interrupt, writing
<1>4. /\ Len(stream') \in Nat /\ taken <= Len(stream') /\ Len(stream') <= Len(stream)
      /\ \A j \in 1 .. Len(stream') : stream'[j] = stream[j]
  <2>1. CASE Reset
    <3>1. PICK n \in taken .. Len(stream) : stream' = SubSeq(stream, 1, n)
      BY <2>1 DEF Reset
    <3>2. n \in Nat /\ n <= Len(stream) /\ taken <= n
      BY <1>2, <3>1
    <3>3. \A i \in 1 .. n : stream[i] \in Byte
      BY <1>2, <3>2, ElementOfSeq
    <3>4. /\ Len(SubSeq(stream, 1, n)) = IF 1 <= n THEN n - 1 + 1 ELSE 0
          /\ \A i \in 1 .. n - 1 + 1 : SubSeq(stream, 1, n)[i] = stream[1 + i - 1]
      BY <1>2, <3>2, <3>3, SubSeqProperties
    <3>5. \A i \in 1 .. n : 1 + i - 1 = i
      OBVIOUS
    <3> QED
      BY <3>1, <3>2, <3>4, <3>5
  <2>2. CASE stream' = stream
    BY <1>2, <2>2
  <2> QED
    BY <2>1, <2>2 DEF SendTcp, End, Interrupt
<1>5. Laid'
  <2> SUFFICES ASSUME NEW i \in 1 .. Len(frames)
               PROVE  /\ frames[i].at = Edge(i - 1)
                      /\ frames[i].at < frames[i].end
                      /\ frames[i].end <= frames[i].at + Len(Frame(frames[i].text))
                      /\ \A j \in 1 .. frames[i].end - frames[i].at :
                           frames[i].at + j <= Len(stream') =>
                             stream'[frames[i].at + j] = Frame(frames[i].text)[j]
                      /\ \A k \in i + 1 .. Len(frames) : frames[i].end <= frames[k].at
                      /\ Cut(i) => /\ Stopping'
                                   /\ \A k \in i + 1 .. Len(frames) : frames[k].text = Shutdown
    BY <1>1 DEF Laid, Edge, Cut
  <2>1. ASSUME NEW j \in 1 .. frames[i].end - frames[i].at, frames[i].at + j <= Len(stream')
        PROVE  stream'[frames[i].at + j] = Frame(frames[i].text)[j]
    <3>1. frames[i].at \in Nat /\ frames[i].end \in Nat
      BY <1>0, LaidFacts
    <3>2. frames[i].at + j \in 1 .. Len(stream') /\ frames[i].at + j <= Len(stream)
      BY <1>2, <1>4, <2>1, <3>1
    <3>3. stream[frames[i].at + j] = Frame(frames[i].text)[j]
      BY <1>0, <2>1, <3>2 DEF Laid
    <3> QED
      BY <1>4, <3>2, <3>3
  <2> QED
    BY <1>0, <1>3, <2>1 DEF Laid
<1>6. WriterStands'
  <2>1. writer' = "stopping" => text' = Shutdown
    BY <1>0 DEF WriterStands, SendTcp, End, Reset, Interrupt, writing
  <2>2. conn' = "open" <=> writer' # "closed"
    BY <1>0 DEF WriterStands, SendTcp, End, Reset, Interrupt, writing
  <2>3. Edge(Len(frames))' = Edge(Len(frames))
    BY <1>1 DEF Edge
  <2>4. Len(stream') <= Edge(Len(frames))
    BY <1>0, <1>2, <1>4 DEF WriterStands
  <2>5. ~UnderWay'
    <3>1. CASE SendTcp \/ Interrupt
      BY <3>1 DEF SendTcp, Interrupt, UnderWay
    <3>2. CASE End
      BY <3>2 DEF End, UnderWay
    <3>3. CASE Reset
      BY <1>0, <3>3 DEF Reset, UnderWay, WriterStands, writing
    <3> QED
      BY <3>1, <3>2, <3>3
  <2>6. writer' # "closed" => Len(stream') = Edge(Len(frames))
    <3>1. CASE SendTcp
      BY <1>0, <3>1 DEF SendTcp, WriterStands, UnderWay
    <3>2. CASE End
      BY <3>2 DEF End
    <3>3. CASE Reset
      BY <1>0, <3>3 DEF Reset, WriterStands, writing
    <3>4. CASE Interrupt /\ ~InFrame
      <4>1. writer # "closed" /\ stream' = stream
        BY <3>4 DEF Interrupt
      <4>2. CASE ~UnderWay
        BY <1>0, <4>1, <4>2 DEF WriterStands
      <4>3. CASE UnderWay
        <5>1. /\ Len(frames) > 0 /\ frames[Len(frames)].text = text /\ ~Cut(Len(frames))
              /\ Len(stream) = frames[Len(frames)].at + sendLen
              /\ sendLen <= Len(Frame(text))
          BY <1>0, <4>3 DEF WriterStands
        <5>2. Len(frames) \in 1 .. Len(frames)
          BY <1>2, <5>1
        <5>3. /\ frames[Len(frames)].at \in Nat /\ frames[Len(frames)].end \in Nat
              /\ frames[Len(frames)].end = Edge(Len(frames))
              /\ Len(Frame(frames[Len(frames)].text)) = Len(frames[Len(frames)].text) + 2
              /\ Len(frames[Len(frames)].text) \in Nat
          BY <1>0, <5>2, LaidFacts
        <5>4. PICK l \in Nat : l = Len(Frame(text))
          BY <5>1, <5>3
        <5>5. frames[Len(frames)].end <= frames[Len(frames)].at + l
          BY <1>0, <5>1, <5>2, <5>4 DEF Laid
        <5>6. sendLen = l
          BY <1>2, <3>4, <4>3, <5>1, <5>4 DEF InFrame, UnderWay
        <5>7. ~(frames[Len(frames)].end < frames[Len(frames)].at + l)
          BY <5>1, <5>4 DEF Cut
        <5> QED
          BY <4>1, <5>1, <5>3, <5>4, <5>5, <5>6, <5>7
      <4> QED
        BY <4>2, <4>3
    <3> QED
      BY <3>1, <3>2, <3>3, <3>4
  <2> QED
    BY <1>1, <2>1, <2>2, <2>3, <2>4, <2>5, <2>6 DEF WriterStands
<1>7. ReaderStands'
  <2>1. \A i : Edge(i)' = Edge(i)
    BY <1>1 DEF Edge
  <2>2. \A p : AtEdge(p)' <=> AtEdge(p)
    BY <1>1, <2>1 DEF AtEdge
  <2>3. \A p : Loose(p) => Loose(p)'
    BY <1>1, <1>3 DEF Loose
  <2>4. \A p, n : TakesRest(p, n) => TakesRest(p, n)'
    BY <1>1, <2>2, <2>3 DEF TakesRest
  <2>5. Drained => Drained'
    <3>1. CASE Reset
      BY <1>1, <1>2, <1>4, <3>1 DEF Drained, Reset, reading
    <3>2. CASE ~Reset
      BY <1>0, <3>2 DEF Drained, WriterStands, SendTcp, End, Interrupt
    <3> QED
      BY <3>1, <3>2
  <2>6. conn' # "over"
    BY <1>0 DEF WriterStands, SendTcp, End, Reset, Interrupt
  <2> QED
    BY <1>0, <1>1, <2>2, <2>3, <2>4, <2>5, <2>6, ReaderStays
<1> QED
  BY <1>5, <1>6, <1>7 DEF Whereabouts

\* A frame that the writer leaves ends with the stream.
LEMMA CutFrames ==
  ASSUME TypeOK, Laid, WriterStands, Interrupt, InFrame,
         NEW m \in Nat, m = Len(frames), NEW z \in Nat, z = Len(stream)
  PROVE  /\ m > 0 /\ Len(frames') = m
         /\ frames[m].at < z /\ z < frames[m].end
         /\ frames[m].end <= frames[m].at + Len(Frame(frames[m].text))
         /\ \A i \in 1 .. m : /\ frames'[i].text = frames[i].text /\ frames'[i].at = frames[i].at
                              /\ frames'[i].end = IF i = m THEN z ELSE frames[i].end
<1>1. /\ taken \in Nat /\ Len(stream) \in Nat /\ taken <= Len(stream) /\ Len(frames) \in Nat
      /\ sendLen \in Nat
  BY LaidFacts DEF TypeOK
<1>4. UnderWay /\ sendLen > 0 /\ sendLen < Len(Frame(text))
  BY DEF InFrame, UnderWay
<1>5. /\ m > 0 /\ frames[m].text = text /\ ~Cut(m) /\ z = frames[m].at + sendLen
  BY <1>4 DEF WriterStands
<1>6. m \in 1 .. m /\ m \in 1 .. Len(frames)
  BY <1>5
<1>7. PICK a \in Nat : a = frames[m].at
  BY <1>6, LaidFacts
<1>8. PICK e \in Nat : e = frames[m].end
  BY <1>6, LaidFacts
<1>9. a < z /\ z < e /\ e <= a + Len(Frame(frames[m].text))
  <2>1. e <= a + Len(Frame(frames[m].text))
    BY <1>6, <1>7, <1>8 DEF Laid
  <2>2. ~(e < a + Len(Frame(frames[m].text)))
    BY <1>5, <1>7, <1>8 DEF Cut
  <2>3. PICK l \in Nat : l = Len(Frame(frames[m].text))
    <3>1. Len(Frame(frames[m].text)) = Len(frames[m].text) + 2 /\ Len(frames[m].text) \in Nat
      BY <1>6, LaidFacts
    <3> QED
      BY <3>1
  <2>4. sendLen < l /\ e <= a + l /\ ~(e < a + l) /\ z = a + sendLen
    BY <1>4, <1>5, <1>7, <2>1, <2>2, <2>3
  <2> QED
    BY <1>1, <1>4, <2>1, <2>4
<1>10. /\ Len(frames') = m
       /\ \A i \in 1 .. m - 1 : frames'[i] = frames[i]
       /\ frames'[m].text = frames[m].text /\ frames'[m].at = a /\ frames'[m].end = z
  <2>1. frames \in Seq(FrameRecord) /\ frames[m] \in FrameRecord
    BY <1>6, ElementOfSeq DEF TypeOK, FrameRecord
  <2>2. frames' = [frames EXCEPT ![m] = [frames[m] EXCEPT !.end = z]]
    BY DEF Interrupt
  <2>3. PICK r : r = [frames[m] EXCEPT !.end = z]
    OBVIOUS
  <2>4. r \in FrameRecord /\ r.text = frames[m].text /\ r.at = a /\ r.end = z
    BY <1>7, <2>1, <2>3 DEF FrameRecord
  <2>5. frames' = [frames EXCEPT ![m] = r]
    BY <2>2, <2>3
  <2>6. Len(frames') = Len(frames) /\ \A i \in 1 .. Len(frames) : frames'[i] = IF i = m THEN r ELSE frames[i]
    BY <1>6, <2>1, <2>4, <2>5, ExceptSeq
  <2> QED
    BY <1>6, <2>4, <2>6
<1>11. \A i \in 1 .. m : /\ frames'[i].text = frames[i].text /\ frames'[i].at = frames[i].at
                         /\ frames'[i].end = IF i = m THEN z ELSE frames[i].end
  <2> TAKE i \in 1 .. m
  <2>1. i = m \/ i \in 1 .. m - 1
    OBVIOUS
  <2> QED
    BY <1>7, <1>10, <2>1
<1> QED
  BY <1>5, <1>7, <1>8, <1>9, <1>10, <1>11

\* It is in front of all that is to come.
LEMMA CutWhereabouts ==
  ASSUME TypeOK, Whereabouts, Interrupt, InFrame
  PROVE  Whereabouts'
<1>0. Laid /\ WriterStands /\ ReaderStands
  BY DEF Whereabouts
<1>1. /\ taken \in Nat /\ Len(stream) \in Nat /\ taken <= Len(stream) /\ Len(frames) \in Nat
      /\ sendLen \in Nat
  BY <1>0, LaidFacts DEF TypeOK
<1>2. PICK m \in Nat : m = Len(frames)
  BY <1>1
<1>3. PICK z \in Nat : z = Len(stream)
  BY <1>1
<1>4. /\ m > 0 /\ Len(frames') = m
      /\ frames[m].at < z /\ z < frames[m].end
      /\ frames[m].end <= frames[m].at + Len(Frame(frames[m].text))
  BY <1>0, <1>2, <1>3, CutFrames
<1>5. m > 0
  BY <1>4
<1>6. m \in 1 .. m /\ m \in 1 .. Len(frames)
  BY <1>2, <1>5
<1>7. PICK a \in Nat : a = frames[m].at
  BY <1>0, <1>6, LaidFacts
<1>8. PICK e \in Nat : e = frames[m].end
  BY <1>0, <1>6, LaidFacts
<1>9. a < z /\ z < e /\ e <= a + Len(Frame(frames[m].text))
  BY <1>4, <1>7, <1>8
<1>11. \A i \in 1 .. m : /\ frames'[i].text = frames[i].text /\ frames'[i].at = frames[i].at
                         /\ frames'[i].end = IF i = m THEN z ELSE frames[i].end
  BY <1>0, <1>2, <1>3, CutFrames
<1>10. /\ Len(frames') = m
       /\ frames'[m].text = frames[m].text /\ frames'[m].at = a /\ frames'[m].end = z
  BY <1>4, <1>6, <1>7, <1>11
<1>12. /\ stream' = stream /\ conn' = conn /\ writer # "closed" /\ writer' = "stopping"
       /\ text' = Shutdown /\ sendLen' = 0 /\ UNCHANGED reading
  BY DEF Interrupt
<1>13. Stopping' /\ ~UnderWay'
  BY <1>12 DEF Stopping, UnderWay
<1>14. \A i \in 0 .. m : Edge(i)' = IF i = m THEN z ELSE Edge(i)
  <2> TAKE i \in 0 .. m
  <2>1. i = 0 \/ i \in 1 .. m
    OBVIOUS
  <2>2. i # 0 => frames'[i].end = IF i = m THEN z ELSE frames[i].end
    BY <1>11, <2>1
  <2> QED
    BY <1>5, <2>2 DEF Edge
<1>15. Laid'
  <2> SUFFICES ASSUME NEW i \in 1 .. m
               PROVE  /\ frames'[i].at = Edge(i - 1)'
                      /\ frames'[i].at < frames'[i].end
                      /\ frames'[i].end <= frames'[i].at + Len(Frame(frames'[i].text))
                      /\ \A j \in 1 .. frames'[i].end - frames'[i].at :
                           frames'[i].at + j <= Len(stream') =>
                             stream'[frames'[i].at + j] = Frame(frames'[i].text)[j]
                      /\ \A k \in i + 1 .. m : frames'[i].end <= frames'[k].at
                      /\ Cut(i)' => /\ Stopping'
                                    /\ \A k \in i + 1 .. m : frames'[k].text = Shutdown
    BY <1>10 DEF Laid
  <2>1. frames'[i].at = Edge(i - 1)'
    <3>1. i - 1 \in 0 .. m /\ i - 1 # m /\ frames[i].at = Edge(i - 1)
      BY <1>0, <1>2 DEF Laid
    <3> QED
      BY <1>11, <1>14, <3>1
  <2>2. CASE i = m
    <3>1. /\ frames'[i].at < frames'[i].end
          /\ frames'[i].end <= frames'[i].at + Len(Frame(frames'[i].text))
      <4>1. PICK l \in Nat : l = Len(Frame(frames[m].text))
        <5>1. Len(Frame(frames[m].text)) = Len(frames[m].text) + 2 /\ Len(frames[m].text) \in Nat
          BY <1>0, <1>6, LaidFacts
        <5> QED
          BY <5>1
      <4>2. z <= a + l
        BY <1>9, <4>1
      <4> QED
        BY <1>9, <1>10, <2>2, <4>1, <4>2
    <3>2. ASSUME NEW j \in 1 .. z - a
          PROVE  stream[a + j] = Frame(frames[m].text)[j]
      <4>1. j \in 1 .. frames[m].end - frames[m].at /\ frames[m].at + j <= Len(stream)
        BY <1>3, <1>7, <1>8, <1>9
      <4> QED
        BY <1>0, <1>6, <1>7, <4>1 DEF Laid
    <3>3. m + 1 .. m = {}
      OBVIOUS
    <3> QED
      BY <1>10, <1>12, <1>13, <2>1, <2>2, <3>1, <3>2, <3>3
  <2>3. CASE i # m
    <3>1. i \in 1 .. Len(frames) /\ frames'[i].end = frames[i].end
          /\ frames'[i].at = frames[i].at /\ frames'[i].text = frames[i].text
      BY <1>2, <1>11, <2>3
    <3>2. \A k \in i + 1 .. m : frames'[k].at = frames[k].at /\ frames'[k].text = frames[k].text
      BY <1>11
    <3>3. Cut(i)' <=> Cut(i)
      BY <3>1 DEF Cut
    <3>4. /\ frames[i].at < frames[i].end
          /\ frames[i].end <= frames[i].at + Len(Frame(frames[i].text))
          /\ \A j \in 1 .. frames[i].end - frames[i].at :
               frames[i].at + j <= Len(stream) =>
                 stream[frames[i].at + j] = Frame(frames[i].text)[j]
          /\ \A k \in i + 1 .. m : frames[i].end <= frames[k].at
          /\ Cut(i) => \A k \in i + 1 .. m : frames[k].text = Shutdown
      BY <1>0, <1>2, <3>1 DEF Laid
    <3> QED
      BY <1>12, <1>13, <2>1, <3>1, <3>2, <3>3, <3>4
  <2> QED
    BY <2>2, <2>3
<1>16. WriterStands'
  <2>1. m \in 0 .. m /\ Edge(m)' = z
    BY <1>14
  <2>2. Edge(Len(frames))' = z
    BY <1>10, <2>1 DEF Edge
  <2>3. conn' = "open" /\ z <= z
    BY <1>0, <1>12 DEF WriterStands
  <2> QED
    BY <1>3, <1>12, <1>13, <2>2, <2>3 DEF WriterStands
<1>17. \A p \in Nat : Loose(p) => Loose(p)'
  <2> SUFFICES ASSUME NEW p \in Nat, Loose(p), NEW i \in 1 .. m, frames'[i].end > p
               PROVE  frames'[i].text = Shutdown
    BY <1>10, <1>13 DEF Loose
  <2>1. frames[i].end > p
    BY <1>8, <1>9, <1>11
  <2>2. frames[i].text = Shutdown
    BY <1>2, <2>1 DEF Loose
  <2> QED
    BY <1>11, <2>2
<1>18. Loose(z)' /\ AtEdge(z)'
  <2>1. ASSUME NEW i \in 1 .. m PROVE ~(frames'[i].end > z)
    <3>1. CASE i = m
      BY <1>11, <3>1
    <3>2. CASE i # m
      <4>1. i \in 1 .. Len(frames) /\ m \in i + 1 .. Len(frames)
        BY <1>2, <3>2
      <4>2. frames[i].end <= frames[m].at /\ frames[i].end \in Nat
        BY <1>0, <4>1, LaidFacts DEF Laid
      <4>3. frames[i].end <= a
        BY <1>7, <4>2
      <4> QED
        BY <1>9, <1>11, <3>2, <4>2, <4>3
    <3> QED
      BY <3>1, <3>2
  <2>2. m \in 0 .. m /\ Edge(m)' = z
    BY <1>14
  <2> QED
    BY <1>10, <1>13, <2>1, <2>2 DEF Loose, AtEdge
<1>19. \A p \in Nat : p <= taken /\ AtEdge(p) => AtEdge(p)'
  <2> SUFFICES ASSUME NEW p \in Nat, p <= taken, AtEdge(p) PROVE AtEdge(p)'
    OBVIOUS
  <2>1. PICK i \in 0 .. m : p = Edge(i)
    BY <1>2 DEF AtEdge
  <2>2. i # m
    <3>1. Edge(m) = e
      BY <1>5, <1>8 DEF Edge
    <3> QED
      BY <1>1, <1>3, <1>9, <2>1, <3>1
  <2>3. p = Edge(i)'
    BY <1>14, <2>1, <2>2
  <2> QED
    BY <1>10, <2>3 DEF AtEdge
<1>20. ASSUME NEW p \in Nat, NEW n \in Nat, p <= taken, TakesRest(p, n)
       PROVE  TakesRest(p, n)'
  <2>1. CASE (Loose(p) /\ n = 0) \/ (AtEdge(p) /\ (Loose(p) \/ n = 0))
    BY <1>17, <1>19, <1>20, <2>1 DEF TakesRest
  <2>2. ASSUME NEW i \in 1 .. m, frames[i].at <= p, p < frames[i].end, frames[i].end - p <= n,
               frames[i].end - p < n => Loose(frames[i].end)
        PROVE  TakesRest(p, n)'
    <3>1. CASE i # m
      <4>1. /\ i \in 1 .. Len(frames') /\ frames'[i].at = frames[i].at
            /\ frames'[i].end = frames[i].end
        BY <1>10, <1>11, <3>1
      <4>2. PICK x \in Nat : x = frames[i].end
        BY <1>0, <1>2, LaidFacts
      <4>3. x - p < n => Loose(x)'
        BY <1>17, <2>2, <4>2
      <4>4. /\ frames'[i].at <= p /\ p < frames'[i].end /\ frames'[i].end - p <= n
            /\ frames'[i].end - p < n => Loose(frames[i].end)'
        <5>1. Loose(x)' => Loose(frames[i].end)'
          BY <4>1, <4>2 DEF Loose
        <5> QED
          BY <2>2, <4>1, <4>2, <4>3, <5>1
      <4> QED
        BY <4>1, <4>4 DEF TakesRest
    <3>2. CASE i = m /\ p < z
      <4>1. m \in 1 .. Len(frames') /\ frames'[m].at = a /\ frames'[m].end = z
        BY <1>6, <1>10
      <4>2. a <= p /\ z - p <= n
        <5>1. a <= p /\ e - p <= n
          BY <1>7, <1>8, <2>2, <3>2
        <5> QED
          BY <1>9, <5>1
      <4>3. Loose(frames[m].end)'
        BY <1>18, <4>1 DEF Loose
      <4> QED
        BY <3>2, <4>1, <4>2, <4>3 DEF TakesRest
    <3>3. CASE p >= z
      <4>1. p = z
        BY <1>1, <1>3, <1>20, <3>3
      <4> QED
        BY <1>18, <4>1 DEF TakesRest
    <3> QED
      BY <3>1, <3>2, <3>3
  <2> QED
    BY <1>2, <1>20, <2>1, <2>2 DEF TakesRest
<1>21. ReaderStands'
  <2>1. ~Drained /\ conn' # "over"
    BY <1>0, <1>12 DEF Drained, WriterStands
  <2> QED
    BY <1>0, <1>12, <1>17, <1>19, <1>20, <2>1, ReaderStays
<1> QED
  BY <1>15, <1>16, <1>21 DEF Whereabouts

-----------------------------------------------------------------------------
\* What is written lies behind what was, in its frame.
LEMMA WriteWhereabouts ==
  ASSUME TypeOK, Whereabouts, Write
  PROVE  Whereabouts'
<1>0. Laid /\ WriterStands /\ ReaderStands
  BY DEF Whereabouts
<1>1. /\ taken \in Nat /\ Len(stream) \in Nat /\ taken <= Len(stream) /\ Len(frames) \in Nat
      /\ sendLen \in Nat /\ stream \in Seq(Byte)
  BY <1>0, LaidFacts DEF TypeOK, Byte
<1>2. text \in Text \cup {Shutdown} /\ writer \in {"sending", "stopping"}
  BY DEF TypeOK, Write
<1>3. Frame(text) \in Seq(Byte) /\ Len(Frame(text)) \in Nat
  BY <1>2, FrameFacts
<1>4. PICK l \in Nat : l = Len(Frame(text))
  BY <1>3
<1>5. PICK n \in 1 .. l - sendLen :
        /\ stream' = stream \o SubSeq(Frame(text), sendLen + 1, sendLen + n)
        /\ sendLen' = sendLen + n
        /\ writer' = IF writer = "sending" /\ AllSent(sendLen + n) THEN "loop" ELSE writer
  BY <1>4 DEF Write
<1>6. PICK m \in Nat : m = Len(frames)
  BY <1>1
<1>7. PICK z \in Nat : z = Len(stream)
  BY <1>1
<1>8. PICK s \in Nat : s = sendLen
  BY <1>1
<1>9. n \in Nat /\ n >= 1 /\ s + n <= l
  BY <1>5, <1>8
<1>10. /\ Len(stream') = z + n
       /\ \A k \in 1 .. z : stream'[k] = stream[k]
       /\ \A j \in 1 .. n : stream'[z + j] = Frame(text)[s + j]
  <2>1. n \in 1 .. Len(Frame(text)) - sendLen
    BY <1>4
  <2> QED
    BY <1>1, <1>3, <1>5, <1>7, <1>8, <2>1, WrittenBytes
<1>11. /\ (writer' = "loop" /\ s + n = l) \/ writer' = writer
       /\ writer = "stopping" => writer' = "stopping"
       /\ writer' # "closed" /\ writer # "closed" /\ conn' = conn /\ conn = "open"
       /\ text' = text /\ UNCHANGED reading
  BY <1>0, <1>2, <1>4, <1>5, <1>8 DEF AllSent, Write, WriterStands
<1>12. (Stopping => text = Shutdown) /\ (Stopping => Stopping')
  BY <1>11 DEF Stopping
<1>13. ~Drained /\ conn' # "over"
  BY <1>11 DEF Drained
\* Bytes that stand already are not touched.
<1>14. ASSUME NEW i \in 1 .. m, NEW j \in 1 .. frames[i].end - frames[i].at,
              frames[i].at + j <= z
       PROVE  stream'[frames[i].at + j] = Frame(frames[i].text)[j]
  <2>1. frames[i].at \in Nat /\ frames[i].end \in Nat
    BY <1>0, <1>6, LaidFacts
  <2>2. stream[frames[i].at + j] = Frame(frames[i].text)[j]
    BY <1>0, <1>6, <1>7, <1>14 DEF Laid
  <2>3. frames[i].at + j \in 1 .. z
    BY <1>14, <2>1
  <2> QED
    BY <1>10, <2>2, <2>3
<1>15. ~UnderWay' => writer' = "loop" /\ s + n = l
  <2>1. (writer' = "loop" /\ s + n = l) \/ writer' \in {"sending", "stopping"}
    BY <1>2, <1>11
  <2>2. sendLen' = s + n /\ s + n > 0
    BY <1>5, <1>8, <1>9
  <2>3. sendLen' > 0
    BY <2>2
  <2> QED
    BY <2>1, <2>3 DEF UnderWay
<1>18. writer' = "stopping" => text' = Shutdown
  BY <1>0, <1>2, <1>11 DEF WriterStands
\* A frame is begun.
<1>16. CASE s = 0
  <2>1. ~UnderWay
    BY <1>8, <1>16 DEF UnderWay
  <2>2. z = Edge(m)
    BY <1>0, <1>6, <1>7, <1>11, <2>1 DEF WriterStands
  <2>3. PICK f : f = [text |-> text, at |-> Len(stream), end |-> Len(stream) + Len(Frame(text))]
    OBVIOUS
  <2>4. frames' = Append(frames, f)
    BY <1>8, <1>16, <2>3 DEF Write
  <2>5. f.text = text /\ f.at = z /\ f.end = z + l /\ f \in FrameRecord
    BY <1>1, <1>2, <1>3, <1>4, <1>7, <2>3 DEF FrameRecord
  <2>6. PICK w \in Nat : w = m + 1
    OBVIOUS
  <2>7. /\ Len(frames') = w /\ frames'[w] = f
        /\ \A i \in 1 .. m : frames'[i] = frames[i]
    <3>1. frames \in Seq(FrameRecord)
      BY DEF TypeOK, FrameRecord
    <3> QED
      BY <1>6, <2>4, <2>5, <2>6, <3>1, AppendProperties
  <2>8. \A i \in 0 .. m : Edge(i)' = Edge(i)
    BY <1>6, <2>7 DEF Edge
  <2>9. \A i \in 1 .. w : i = w \/ i \in 1 .. m
    BY <2>6
  <2>10. Laid'
    <3> SUFFICES ASSUME NEW i \in 1 .. w
                 PROVE  /\ frames'[i].at = Edge(i - 1)'
                        /\ frames'[i].at < frames'[i].end
                        /\ frames'[i].end <= frames'[i].at + Len(Frame(frames'[i].text))
                        /\ \A j \in 1 .. frames'[i].end - frames'[i].at :
                             frames'[i].at + j <= Len(stream') =>
                               stream'[frames'[i].at + j] = Frame(frames'[i].text)[j]
                        /\ \A k \in i + 1 .. w : frames'[i].end <= frames'[k].at
                        /\ Cut(i)' => /\ Stopping'
                                      /\ \A k \in i + 1 .. w : frames'[k].text = Shutdown
      BY <2>7 DEF Laid
    <3>1. CASE i = w
      <4>1. i - 1 \in 0 .. m /\ i - 1 = m /\ i + 1 .. w = {}
        BY <2>6, <3>1
      <4>2. frames'[i].at = z /\ frames'[i].end = z + l /\ frames'[i].text = text
        BY <2>5, <2>7, <3>1
      <4>3. ~Cut(i)'
        <5>1. ~(z + l < z + l)
          OBVIOUS
        <5>2. ~(frames'[i].end < frames'[i].at + Len(Frame(frames'[i].text)))
          BY <1>4, <4>2, <5>1
        <5> QED
          BY <5>2 DEF Cut, Frame
      <4>4. frames'[i].end <= frames'[i].at + Len(Frame(frames'[i].text))
        <5>1. z + l <= z + l
          OBVIOUS
        <5> QED
          BY <1>4, <4>2, <5>1
      <4>5. ASSUME NEW j \in 1 .. l, z + j <= Len(stream')
            PROVE  stream'[z + j] = Frame(text)[j]
        <5>1. j \in 1 .. n /\ s + j = j
          BY <1>10, <1>16, <4>5
        <5> QED
          BY <1>10, <5>1
      <4>6. \A j \in 1 .. frames'[i].end - frames'[i].at :
              frames'[i].at + j <= Len(stream') =>
                stream'[frames'[i].at + j] = Frame(frames'[i].text)[j]
        <5>1. (z + l) - z = l
          OBVIOUS
        <5> QED
          BY <4>2, <4>5, <5>1
      <4>7. frames'[i].at = Edge(i - 1)' /\ frames'[i].at < frames'[i].end
        <5>1. z < z + l
          BY <1>9
        <5> QED
          BY <2>2, <2>8, <4>1, <4>2, <5>1
      <4> QED
        BY <4>1, <4>3, <4>4, <4>6, <4>7
    <3>2. CASE i \in 1 .. m
      <4>1. i - 1 \in 0 .. m /\ frames'[i] = frames[i] /\ i \in 1 .. Len(frames)
        BY <1>6, <2>7, <3>2
      <4>2. /\ frames[i].at = Edge(i - 1)
            /\ frames[i].at < frames[i].end
            /\ frames[i].end <= frames[i].at + Len(Frame(frames[i].text))
            /\ \A k \in i + 1 .. m : frames[i].end <= frames[k].at
            /\ Cut(i) => Stopping /\ \A k \in i + 1 .. m : frames[k].text = Shutdown
        BY <1>0, <1>6, <4>1 DEF Laid
      <4>3. frames[i].end <= z /\ frames[i].at \in Nat /\ frames[i].end \in Nat
        <5>1. /\ frames[i].at \in Nat /\ frames[i].end \in Nat /\ frames[i].end = Edge(i)
              /\ i \in 0 .. Len(frames) /\ m \in 0 .. Len(frames) /\ Edge(m) \in Nat
          <6>1. m \in 0 .. Len(frames)
            BY <1>6
          <6> QED
            BY <1>0, <4>1, <6>1, LaidFacts
        <5>2. i < m => Edge(i) < Edge(m)
          BY <1>0, <5>1, LaidFacts
        <5>3. i < m \/ i = m
          BY <3>2
        <5> QED
          BY <2>2, <5>1, <5>2, <5>3
      <4>4. \A k \in i + 1 .. w : k = w \/ k \in i + 1 .. m
        BY <2>6
      <4>5. \A k \in i + 1 .. m : frames'[k] = frames[k]
        BY <2>7, <3>2
      <4>6. \A k \in i + 1 .. w : frames[i].end <= frames'[k].at
        BY <2>5, <2>7, <4>2, <4>3, <4>4, <4>5
      <4>7. Cut(i) => Stopping' /\ \A k \in i + 1 .. w : frames'[k].text = Shutdown
        BY <1>12, <2>5, <2>7, <4>2, <4>4, <4>5
      <4>8. Cut(i)' <=> Cut(i)
        BY <4>1 DEF Cut
      <4>9. \A j \in 1 .. frames[i].end - frames[i].at :
              stream'[frames[i].at + j] = Frame(frames[i].text)[j]
        <5> TAKE j \in 1 .. frames[i].end - frames[i].at
        <5>1. frames[i].at + j <= z
          BY <4>3
        <5> QED
          BY <1>14, <3>2, <5>1
      <4> QED
        BY <2>8, <4>1, <4>2, <4>6, <4>7, <4>8, <4>9
    <3> QED
      BY <2>9, <3>1, <3>2
  <2>11. WriterStands'
    <3>1. w # 0 /\ frames'[w].end = z + l /\ frames'[w].at = z /\ frames'[w].text = text
      BY <2>5, <2>6, <2>7
    <3>2. Edge(Len(frames))' = z + l
      BY <2>7, <3>1 DEF Edge
    <3>3. ~UnderWay' => writer' = "loop" /\ s + n = l
      BY <1>15
    <3>4. ~UnderWay' => Len(stream') = z + l
      BY <1>10, <1>16, <3>3
    <3>5. Len(stream') <= z + l
      BY <1>9, <1>10, <1>16
    <3>6. ~Cut(w)'
      <4>1. ~(z + l < z + l)
        OBVIOUS
      <4>2. ~(frames'[w].end < frames'[w].at + Len(Frame(frames'[w].text)))
        BY <1>4, <3>1, <4>1
      <4> QED
        BY <4>2 DEF Cut, Frame
    <3>7. ~Cut(Len(frames))'
      BY <2>7, <3>6 DEF Cut, Frame
    <3>8. Len(stream') = frames'[w].at + sendLen' /\ sendLen' <= l
      BY <1>5, <1>8, <1>9, <1>10, <1>16, <3>1
    <3>9. w > 0
      BY <2>6
    <3>10. writer' = "stopping" => text' = Shutdown
      BY <1>18
    <3> QED
      BY <1>4, <1>11, <2>7, <3>1, <3>2, <3>4, <3>5, <3>7, <3>8, <3>9, <3>10 DEF WriterStands
  <2>12. ReaderStands'
    <3>1. \A p : AtEdge(p) => AtEdge(p)'
      <4>1. \A i \in 0 .. m : i \in 0 .. w
        BY <2>6
      <4> QED
        BY <1>6, <2>7, <2>8, <4>1 DEF AtEdge
    <3>2. \A p : Loose(p) => Loose(p)'
      BY <1>6, <1>12, <2>5, <2>7, <2>9 DEF Loose
    <3>3. \A p, k \in Nat : TakesRest(p, k) => TakesRest(p, k)'
      <4>1. \A i \in 1 .. m : i \in 1 .. w /\ frames'[i] = frames[i]
        BY <2>6, <2>7
      <4>2. \A i \in 1 .. m : Loose(frames[i].end) => Loose(frames[i].end)'
        <5> TAKE i \in 1 .. m
        <5>1. PICK x \in Nat : x = frames[i].end
          BY <1>0, <1>6, LaidFacts
        <5>2. Loose(x)' => Loose(frames[i].end)'
          BY <4>1, <5>1 DEF Loose
        <5> QED
          BY <3>2, <5>1, <5>2
      <4> QED
        BY <1>6, <2>7, <3>1, <3>2, <4>1, <4>2 DEF TakesRest
    <3> QED
      BY <1>0, <1>11, <1>13, <3>1, <3>2, <3>3, ReaderStays
  <2> QED
    BY <2>10, <2>11, <2>12 DEF Whereabouts
\* A frame is continued.
<1>17. CASE s > 0
  <2>1. frames' = frames
    BY <1>8, <1>17 DEF Write
  <2>2. UnderWay
    BY <1>2, <1>8, <1>17 DEF UnderWay
  <2>3. m > 0 /\ frames[m].text = text /\ ~Cut(m) /\ z = frames[m].at + s
    BY <1>0, <1>6, <1>7, <1>8, <2>2 DEF WriterStands
  <2>4. m \in 1 .. m /\ m \in 1 .. Len(frames)
    BY <1>6, <2>3
  <2>5. PICK a \in Nat : a = frames[m].at
    BY <1>0, <2>4, LaidFacts
  <2>6. PICK e \in Nat : e = frames[m].end
    BY <1>0, <2>4, LaidFacts
  <2>7. z = a + s /\ e = a + l
    <3>1. e <= a + l
      BY <1>0, <1>4, <2>3, <2>4, <2>5, <2>6 DEF Laid
    <3>2. ~(e < a + l)
      BY <1>4, <2>3, <2>5, <2>6 DEF Cut
    <3> QED
      BY <2>3, <2>5, <3>1, <3>2
  <2>8. Stopping => Stopping'
    BY <1>12
  <2>9. Laid'
    <3>1. ASSUME NEW i \in 1 .. m, NEW j \in 1 .. frames[i].end - frames[i].at,
                 frames[i].at + j <= Len(stream')
          PROVE  stream'[frames[i].at + j] = Frame(frames[i].text)[j]
      <4>1. frames[i].at \in Nat /\ frames[i].end \in Nat
        BY <1>0, <1>6, LaidFacts
      <4>2. CASE frames[i].at + j <= z
        BY <1>14, <4>2
      <4>3. CASE i # m
        <5>1. i \in 1 .. Len(frames) /\ m \in i + 1 .. Len(frames)
          BY <1>6, <4>3
        <5>2. frames[i].end <= a
          BY <1>0, <2>5, <5>1 DEF Laid
        <5>3. frames[i].at + j <= z
          BY <2>7, <4>1, <5>2
        <5> QED
          BY <1>14, <5>3
      <4>4. CASE i = m /\ frames[i].at + j > z
        <5>1. j \in Nat /\ a + j > z /\ a + j <= z + n
          BY <1>10, <2>5, <3>1, <4>4
        <5>2. PICK k \in 1 .. n : z + k = a + j /\ s + k = j
          <6>1. j - s \in 1 .. n /\ z + (j - s) = a + j /\ s + (j - s) = j
            BY <2>7, <5>1
          <6> QED
            BY <6>1
        <5>3. stream'[z + k] = Frame(text)[s + k]
          BY <1>10
        <5> QED
          BY <2>3, <2>5, <4>4, <5>2, <5>3
      <4> QED
        BY <4>1, <4>2, <4>3, <4>4
    <3> QED
      BY <1>0, <1>6, <2>1, <2>8, <3>1 DEF Laid, Edge, Cut
  <2>10. WriterStands'
    <3>1. Edge(Len(frames))' = e
      BY <1>6, <2>1, <2>3, <2>6 DEF Edge
    <3>2. ~UnderWay' => writer' = "loop" /\ s + n = l
      BY <1>15
    <3>3. (~UnderWay' => Len(stream') = e) /\ Len(stream') <= e /\ Len(stream') = a + (s + n)
      BY <1>9, <1>10, <2>7, <3>2
    <3>4. ~Cut(Len(frames))'
      BY <1>6, <2>1, <2>3 DEF Cut
    <3>5. sendLen' = s + n /\ s + n <= Len(Frame(text))
      BY <1>4, <1>5, <1>8, <1>9
    <3>6. writer' = "stopping" => text' = Shutdown
      BY <1>18
    <3> QED
      BY <1>6, <1>11, <2>1, <2>3, <2>5, <3>1, <3>3, <3>4, <3>5, <3>6 DEF WriterStands
  <2>11. ReaderStands'
    <3>1. \A i : Edge(i)' = Edge(i)
      BY <2>1 DEF Edge
    <3>2. \A p : AtEdge(p)' <=> AtEdge(p)
      BY <2>1, <3>1 DEF AtEdge
    <3>3. \A p : Loose(p) => Loose(p)'
      BY <2>1, <2>8 DEF Loose
    <3>4. \A p, k : TakesRest(p, k) => TakesRest(p, k)'
      BY <2>1, <3>2, <3>3 DEF TakesRest
    <3> QED
      BY <1>0, <1>11, <1>13, <3>2, <3>3, <3>4, ReaderStays
  <2> QED
    BY <2>9, <2>10, <2>11 DEF Whereabouts
<1> QED
  BY <1>16, <1>17

\* Whatever happens, the writer's frames lie one behind the other and the
\* reader stands where it can be.
LEMMA StepWhereabouts ==
  ASSUME TypeOK, Whereabouts, [Next]_vars
  PROVE  Whereabouts'
<1>1. CASE vars' = vars
  <2>1. /\ frames' = frames /\ stream' = stream /\ writer' = writer /\ text' = text
        /\ sendLen' = sendLen /\ conn' = conn /\ reader' = reader /\ taken' = taken /\ rc' = rc
        /\ payloadLen' = payloadLen /\ recvLen' = recvLen
    BY <1>1 DEF vars, writing, reading
  <2>2. Laid' /\ WriterStands'
    BY <2>1 DEF Whereabouts, Laid, WriterStands, Edge, Cut, Stopping, UnderWay
  <2>3. ReaderStands'
    BY <2>1 DEF Whereabouts, ReaderStands, TakesRest, Loose, AtEdge, Drained, Stopping, Edge
  <2> QED
    BY <2>2, <2>3 DEF Whereabouts
<1>2. CASE SendTcp \/ End \/ Reset \/ (Interrupt /\ ~InFrame)
  BY <1>2, QuietWhereabouts
<1>3. CASE Interrupt /\ InFrame
  BY <1>3, CutWhereabouts
<1>4. CASE Write
  BY <1>4, WriteWhereabouts
<1>5. CASE ApplicationProtocol
  BY <1>5, ReadingWhereabouts
<1> QED
  BY <1>1, <1>2, <1>3, <1>4, <1>5 DEF Next

\* At first the reader stands at the edge where the stream begins.
LEMMA InitWhereabouts == Init => Whereabouts
<1> SUFFICES ASSUME Init PROVE Whereabouts
  OBVIOUS
<1>1. Len(frames) = 0 /\ Len(stream) = 0 /\ taken = 0 /\ Edge(0) = 0
  BY DEF Init, Edge
<1>2. Laid /\ WriterStands
  BY <1>1 DEF Init, Laid, WriterStands, UnderWay
<1>3. 0 \in 0 .. Len(frames)
  BY <1>1
<1>4. AtEdge(taken)
  BY <1>1, <1>3 DEF AtEdge
<1>5. ReaderStands
  BY <1>4 DEF Init, ReaderStands
<1> QED
  BY <1>2, <1>5 DEF Whereabouts

-----------------------------------------------------------------------------
\* All of it holds at first.
LEMMA InitInv == Init => Inv
<1> SUFFICES ASSUME Init PROVE Inv
  OBVIOUS
<1>1. TypeOK
  <2>1. frames \in Seq(FrameRecord)
    BY DEF Init
  <2>2. stream \in Seq(0 .. Base - 1) /\ Len(stream) = 0
    BY DEF Init
  <2>3. returned \in Seq(Seq(0 .. Base - 1))
    BY DEF Init
  <2>4. taken \in 0 .. Len(stream) /\ recvLen \in 0 .. taken
    BY <2>2 DEF Init
  <2>5. writer \notin {"sending", "stopping"}
    BY DEF Init
  <2>6. broken \in BOOLEAN
    BY DEF Init
  <2>7. /\ sendLen \in Nat /\ rc \in 0 .. 2 /\ payloadLen \in Nat
        /\ writer \in {"loop", "sending", "stopping", "closed"}
        /\ conn \in {"open", "fin", "reset", "over"}
        /\ reader \in {"call", "body", "left", "stopped"}
        /\ to \in {"client", "server"}
    BY DEF Init
  <2> QED
    BY <2>1, <2>2, <2>3, <2>4, <2>5, <2>6, <2>7 DEF TypeOK, FrameRecord
<1>2. EndToEnd /\ InStream /\ WriterPlace /\ ReaderPlace
  BY DEF Init, EndToEnd, InStream, WriterPlace, ReaderPlace, ClosedForCause, UnderWay, Edge
<1> QED
  BY <1>1, <1>2, InitWhereabouts DEF Inv, Aligned, EmptyFirst, ClosedForCause, Init

\* A closed end stays closed, and the end of a server's reader is broken only
\* when the writer is closed.
LEMMA BrokenStep ==
  ASSUME Inv, [Next]_vars
  PROVE  /\ to' = to
         /\ writer = "closed" => writer' = "closed"
         /\ broken => broken'
         /\ to' = "server" /\ broken' => writer' = "closed"
<1>1. /\ to' = to
      /\ writer = "closed" => writer' = "closed"
      /\ broken => broken'
  <2>1. to' = to
    BY DEF Next, vars, SendTcp, Write, Interrupt, End, Reset, ApplicationProtocol, Header,
           HeaderHalf, HeaderNone, Body, BodyDone, BodyEnd, BodyError, writing, reading
  <2>2. writer = "closed" => writer' = "closed"
    BY DEF Next, vars, SendTcp, Write, Interrupt, End, Reset, ApplicationProtocol, Header,
           HeaderHalf, HeaderNone, Body, BodyDone, BodyEnd, BodyError, writing, reading
  <2>3. ASSUME broken PROVE broken'
    <3>1. CASE Interrupt
      BY <2>3, <3>1 DEF Interrupt
    <3>2. CASE End
      BY <2>3, <3>2 DEF End
    <3>3. CASE Reset
      BY <3>3 DEF Reset
    <3>4. CASE UNCHANGED broken
      BY <2>3, <3>4
    <3> QED
      BY <3>1, <3>2, <3>3, <3>4 DEF Next, vars, SendTcp, Write, ApplicationProtocol, Header,
         HeaderHalf, HeaderNone, Body, BodyDone, BodyEnd, BodyError
  <2> QED
    BY <2>1, <2>2, <2>3
<1>2. ASSUME to' = "server", broken', ~broken PROVE writer' = "closed"
  <2>1. End \/ Reset
    BY <1>1, <1>2 DEF Next, vars, SendTcp, Write, Interrupt, ApplicationProtocol, Header,
         HeaderHalf, HeaderNone, Body, BodyDone, BodyEnd, BodyError, writing, reading
  <2>2. CASE End
    BY <2>2 DEF End
  <2>3. CASE Reset
    <3>1. WriterPlace
      BY <1>2 DEF Inv, Aligned
    <3>2. writer = "closed"
      BY <2>3, <3>1 DEF Reset, WriterPlace
    <3> QED
      BY <1>1, <3>2
  <2> QED
    BY <2>1, <2>2, <2>3
<1>3. to = "server" /\ broken => writer = "closed"
  BY DEF Inv, Aligned
<1> QED
  BY <1>1, <1>2, <1>3

\* What was begun first stays so, also when it is cut.
LEMMA TextsStay ==
  ASSUME TypeOK, [Next]_vars
  PROVE  /\ Len(frames') >= Len(frames)
         /\ \A i \in 1 .. Len(frames) : frames'[i].text = frames[i].text
<1>1. frames \in Seq(FrameRecord) /\ Len(frames) \in Nat /\ Len(stream) \in Nat
  BY FrameTypes DEF TypeOK, FrameRecord
<1>2. CASE Write
  <2>1. CASE sendLen > 0
    BY <1>1, <1>2, <2>1 DEF Write
  <2>2. CASE ~(sendLen > 0)
    <3>1. PICK f : frames' = Append(frames, f) /\ f \in FrameRecord
      <4> DEFINE f == [text |-> text, at |-> Len(stream), end |-> Len(stream) + Len(Frame(text))]
      <4>1. frames' = Append(frames, f)
        BY <1>2, <2>2 DEF Write
      <4>2. text \in Text \cup {Shutdown}
        BY <1>2 DEF TypeOK, Write
      <4>3. Len(Frame(text)) = Len(text) + 2 /\ Len(text) \in Nat
        BY <4>2, FrameFacts
      <4>4. f \in FrameRecord
        BY <1>1, <4>2, <4>3 DEF FrameRecord
      <4> QED
        BY <4>1, <4>4
    <3> QED
      BY <1>1, <3>1, AppendProperties
  <2> QED
    BY <2>1, <2>2
<1>3. CASE Interrupt
  <2>1. CASE InFrame
    <3>1. frames' = [frames EXCEPT ![Len(frames)] = [@ EXCEPT !.end = Len(stream)]]
      BY <1>3, <2>1 DEF Interrupt
    <3>2. ASSUME NEW i \in 1 .. Len(frames) PROVE frames'[i].text = frames[i].text
      <4>1. frames[i] \in FrameRecord
        BY <1>1, ElementOfSeq
      <4> QED
        BY <1>1, <3>1, <4>1 DEF FrameRecord
    <3>3. Len(frames') = Len(frames)
      BY <1>1, <3>1
    <3> QED
      BY <1>1, <3>2, <3>3
  <2>2. CASE ~InFrame
    BY <1>1, <1>3, <2>2 DEF Interrupt
  <2> QED
    BY <2>1, <2>2
<1>4. CASE UNCHANGED frames
  BY <1>1, <1>4
<1> QED
  BY <1>2, <1>3, <1>4
     DEF Next, vars, SendTcp, End, Reset, ApplicationProtocol, Header, HeaderHalf, HeaderNone,
         Body, BodyDone, BodyEnd, BodyError, writing, reading

\* No text is empty but the first, and that only on its way to the server.
LEMMA EmptyFirstStep ==
  ASSUME TypeOK, EmptyFirst, [Next]_vars
  PROVE  EmptyFirst'
<1>1. frames \in Seq(FrameRecord) /\ Len(frames) \in Nat /\ Len(stream) \in Nat
  BY FrameTypes DEF TypeOK, FrameRecord
<1>2. CASE Write
  <2>1. text' = text /\ to' = to /\ writer \in {"sending", "stopping"}
    BY <1>2 DEF Write
  <2>2. text = <<>> => to = "server" /\ (sendLen = 0 => frames = <<>>)
    BY <2>1 DEF EmptyFirst
  <2>3. sendLen' # 0
    <3>1. Len(Frame(text)) \in Nat /\ sendLen \in Nat
      BY <2>1, FrameFacts DEF TypeOK
    <3> QED
      BY <1>2, <3>1 DEF Write
  <2>4. ASSUME NEW i \in 1 .. Len(frames'), frames'[i].text = <<>>
        PROVE  to = "server" /\ i = 1
    <3>1. CASE i \in 1 .. Len(frames)
      BY <2>4, <3>1, TextsStay DEF EmptyFirst
    <3>2. CASE i \notin 1 .. Len(frames)
      <4>1. sendLen = 0
        BY <1>2, <3>2 DEF Write, TypeOK
      <4> DEFINE f == [text |-> text, at |-> Len(stream), end |-> Len(stream) + Len(Frame(text))]
      <4>2. frames' = Append(frames, f) /\ f.text = text
        BY <1>2, <4>1 DEF Write
      <4> HIDE DEF f
      <4>3. i = Len(frames) + 1 /\ frames'[i].text = text
        BY <1>1, <3>2, <4>2
      <4> QED
        BY <2>2, <2>4, <4>1, <4>3
    <3> QED
      BY <3>1, <3>2
  <2> QED
    BY <2>1, <2>2, <2>3, <2>4 DEF EmptyFirst
<1>3. CASE Interrupt
  <2>1. text' # <<>> /\ to' = to
    BY <1>3, EmptyText DEF Interrupt
  <2>2. Len(frames') <= Len(frames)
    BY <1>1, <1>3 DEF Interrupt
  <2> QED
    BY <1>1, <2>1, <2>2, TextsStay DEF EmptyFirst
<1>4. CASE SendTcp
  BY <1>4 DEF EmptyFirst, SendTcp
<1>5. CASE UNCHANGED <<to, frames, text, sendLen>> /\ (writer' = writer \/ writer' = "closed")
  BY <1>5 DEF EmptyFirst
<1> QED
  BY <1>2, <1>3, <1>4, <1>5
     DEF Next, vars, End, Reset, ApplicationProtocol, Header, HeaderHalf, HeaderNone,
         Body, BodyDone, BodyEnd, BodyError, writing, reading

\* And every step keeps it.
LEMMA StepInv == Inv /\ [Next]_vars => Inv'
<1> SUFFICES ASSUME Inv, [Next]_vars PROVE Inv'
  OBVIOUS
<1>1. TypeOK'
  <2>1. CASE vars' = vars
    BY <2>1 DEF Inv, TypeOK, vars, writing, reading
  <2>2. CASE Next
    BY <2>2, WriterTypes, ReaderTypes DEF Next, Inv
  <2> QED
    BY <2>1, <2>2
<1>2. ASSUME ~broken' PROVE EndToEnd' /\ InStream' /\ WriterPlace' /\ ReaderPlace'
  <2>1. TypeOK /\ EmptyFirst /\ EndToEnd /\ InStream /\ WriterPlace /\ ReaderPlace
    BY <1>2, BrokenStep DEF Inv, Aligned
  <2>2. CASE vars' = vars
    <3>1. EndToEnd' /\ InStream'
      BY <2>1, <2>2 DEF EndToEnd, InStream, Edge, vars, writing
    <3>2. WriterPlace'
      BY <2>1, <2>2 DEF WriterPlace, Edge, UnderWay, vars, writing
    <3>3. ReaderPlace'
      BY <2>1, <2>2 DEF ReaderPlace, ClosedForCause, EmptyId, Edge, vars, writing, reading
    <3> QED
      BY <3>1, <3>2, <3>3
  <2>3. CASE Write
    BY <2>1, <2>3, WriteAligned
  <2>4. CASE SendTcp \/ Interrupt \/ End
    BY <1>2, <2>1, <2>4, RestAligned
  <2>5. CASE ApplicationProtocol
    BY <2>1, <2>5, ReaderStep
  <2>6. CASE Reset
    BY <1>2, <2>6 DEF Reset
  <2> QED
    BY <2>2, <2>3, <2>4, <2>5, <2>6 DEF Next
<1>3. ClosedForCause'
  <2>1. CASE ~broken'
    BY <1>2, <2>1 DEF ReaderPlace
  <2>2. CASE broken' /\ to = "server"
    BY <2>2, BrokenStep DEF ClosedForCause
  <2>3. CASE to # "server"
    <3>1. reader' = "left" => reader = "left" /\ taken' = taken
      BY <2>3 DEF Next, vars, SendTcp, Write, Interrupt, End, Reset, ApplicationProtocol, Header,
           HeaderHalf, HeaderNone, Body, BodyDone, BodyEnd, BodyError, writing, reading, Return
    <3>2. frames # <<>> => frames' # <<>> /\ frames'[1].text = frames[1].text
      <4> SUFFICES ASSUME frames # <<>>
                   PROVE  frames' # <<>> /\ frames'[1].text = frames[1].text
        OBVIOUS
      <4>1. Len(frames) # 0 /\ Len(frames) \in Nat
        BY FrameTypes, EmptySeq DEF Inv, TypeOK
      <4>2. 1 \in 1 .. Len(frames) /\ Len(frames') # 0
        BY <4>1, TextsStay DEF Inv
      <4> QED
        BY <4>2, TextsStay DEF Inv
    <3>3. CASE reader' = "left"
      BY <3>1, <3>2, <3>3, BrokenStep, CauseKept DEF Inv
    <3>4. CASE reader' # "left"
      BY <3>4 DEF ClosedForCause
    <3> QED
      BY <3>3, <3>4
  <2> QED
    BY <2>1, <2>2, <2>3
<1>4. Aligned'
  BY <1>2, BrokenStep, EmptyFirstStep DEF Inv, Aligned
<1>5. Whereabouts'
  BY StepWhereabouts DEF Inv
<1> QED
  BY <1>1, <1>3, <1>4, <1>5 DEF Inv

-----------------------------------------------------------------------------
\* The four together are inductive.
THEOREM FramingInvariant == Spec => []Inv
  BY InitInv, StepInv, PTL DEF Spec

\* Every variable keeps its type, with lengths that never exceed what is
\* there: applicationProtocol reads no byte that was not sent.
THEOREM TypeCorrect == Spec => []TypeOK
<1>1. Inv => TypeOK
  BY DEF Inv
<1> QED
  BY FramingInvariant, <1>1, PTL

\* While no frame is left half written and the connection is not reset,
\* applicationProtocol returns the texts given to sendTcp, whole and in order,
\* however the stream is cut up.
THEOREM FramesAligned == Spec => []Aligned
<1>1. Inv => Aligned
  BY DEF Inv
<1> QED
  BY FramingInvariant, <1>1, PTL

\* The server closes a connection on an empty text only when the subscriber is
\* gone, or when its id was empty, and then before it reads anything else: no
\* other text, and no way of cutting one, makes an empty one.
THEOREM ClosedOnlyForCause == Spec => []ClosedForCause
<1>1. Inv => ClosedForCause
  BY DEF Inv
<1> QED
  BY FramingInvariant, <1>1, PTL

-----------------------------------------------------------------------------
\* A set of indices that holds what is below each counts the last.
LEMMA DownClosed ==
  ASSUME NEW n \in Nat, NEW S \in SUBSET (1 .. n), \A i \in S : \A k \in 1 .. i : k \in S
  PROVE  /\ Cardinality(S) \in 0 .. n
         /\ \A i \in 1 .. n : i \in S <=> i <= Cardinality(S)
<1> DEFINE T == {x \in 0 .. n : \A i \in S : i <= x}
<1>1. n \in T /\ T \subseteq Nat
  OBVIOUS
<1>2. PICK x \in T : \A y \in T : x <= y
  <2> HIDE DEF T
  <2> QED
    BY <1>1, Smallest
<1>3. x \in 0 .. n /\ \A i \in S : i <= x
  OBVIOUS
<1>4. x # 0 => x \in S
  <2> SUFFICES ASSUME x # 0, x \notin S PROVE FALSE
    OBVIOUS
  <2>1. x - 1 \in 0 .. n
    BY <1>3
  <2>2. \A i \in S : i <= x - 1
    <3> TAKE i \in S
    <3>1. i \in 1 .. n /\ i <= x /\ i # x
      BY <1>3
    <3> QED
      BY <1>3, <3>1
  <2>3. x - 1 \in T
    BY <2>1, <2>2
  <2>4. x <= x - 1
    BY <1>2, <2>3
  <2> QED
    BY <1>3, <2>4
<1>5. S = 1 .. x
  <2>1. 1 .. x \subseteq S
    <3>1. CASE x = 0
      BY <3>1
    <3>2. CASE x # 0
      BY <1>4, <3>2
    <3> QED
      BY <3>1, <3>2
  <2>2. S \subseteq 1 .. x
    BY <1>3
  <2> QED
    BY <2>1, <2>2
<1>6. Cardinality(1 .. x) = x
  <2>1. Cardinality(1 .. x) = IF 1 > x THEN 0 ELSE x - 1 + 1
    BY <1>3, FS_Interval
  <2> QED
    BY <1>3, <2>1
<1>7. Cardinality(S) = x
  BY <1>5, <1>6
<1> QED
  BY <1>3, <1>5, <1>7

\* std::string keeps what is in front of the first 0.
LEMMA CStringIs ==
  ASSUME NEW s \in Seq(Byte)
  PROVE  \E c \in 0 .. Len(s) : CString(s) = SubSeq(s, 1, c) /\ \A j \in 1 .. c : s[j] # 0
<1> DEFINE good == {i \in DOMAIN s : \A j \in 1 .. i : s[j] # 0}
<1>1. PICK n \in Nat : n = Len(s) /\ DOMAIN s = 1 .. n
  OBVIOUS
<1>2. good \in SUBSET (1 .. n) /\ \A i \in good : \A k \in 1 .. i : k \in good
  BY <1>1
<1>3. CString(s) = SubSeq(s, 1, Cardinality(good))
  BY DEF CString
<1>4. \A i \in good : \A j \in 1 .. i : s[j] # 0
  OBVIOUS
<1> HIDE DEF good
<1>5. PICK c \in 0 .. n : c = Cardinality(good) /\ \A i \in 1 .. n : i \in good <=> i <= c
  BY <1>2, DownClosed
<1>6. \A j \in 1 .. c : s[j] # 0
  <2> TAKE j \in 1 .. c
  <2>1. j \in good /\ j \in 1 .. j
    BY <1>5
  <2> QED
    BY <1>4, <2>1
<1> QED
  BY <1>1, <1>3, <1>5, <1>6

\* The frames that are past are the first ones, up to where the reader is.
LEMMA PastIs ==
  TypeOK /\ Laid =>
    /\ Past \in 0 .. Len(frames) /\ Len(frames) \in Nat
    /\ \A i \in 1 .. Len(frames) :
         (frames[i].end <= Position \/ conn = "over") <=> i <= Past
<1> SUFFICES ASSUME TypeOK, Laid
             PROVE  /\ Past \in 0 .. Len(frames) /\ Len(frames) \in Nat
                    /\ \A i \in 1 .. Len(frames) :
                         (frames[i].end <= Position \/ conn = "over") <=> i <= Past
  OBVIOUS
<1>1. PICK n \in Nat : n = Len(frames)
  BY LaidFacts
<1>2. Position \in Int
  BY LaidFacts DEF Position
<1> DEFINE S == {i \in DOMAIN frames : frames[i].end <= Position \/ conn = "over"}
<1>3. DOMAIN frames = 1 .. n
  BY <1>1 DEF TypeOK
<1>4. S \in SUBSET (1 .. n)
  BY <1>3
<1>5. ASSUME NEW i \in S, NEW k \in 1 .. i PROVE k \in S
  <2>1. i \in 1 .. n /\ k \in 1 .. n /\ k <= i /\ k \in DOMAIN frames
    BY <1>3, <1>4
  <2>2. /\ frames[i].end = Edge(i) /\ frames[k].end = Edge(k)
        /\ i \in 0 .. Len(frames) /\ k \in 0 .. Len(frames)
        /\ Edge(i) \in Nat /\ Edge(k) \in Nat
    BY <1>1, <2>1, LaidFacts
  <2>3. k < i => Edge(k) < Edge(i)
    BY <2>2, LaidFacts
  <2>4. Edge(k) <= Edge(i)
    <3>1. k < i \/ k = i
      BY <2>1
    <3> QED
      BY <2>2, <2>3, <3>1
  <2>5. frames[i].end <= Position \/ conn = "over"
    OBVIOUS
  <2>6. frames[k].end <= Position \/ conn = "over"
    BY <1>2, <2>2, <2>4, <2>5
  <2> QED
    BY <2>1, <2>6
<1>6. \A i \in 1 .. n : i \in S <=> frames[i].end <= Position \/ conn = "over"
  BY <1>3
<1>7. Past = Cardinality(S)
  BY DEF Past
<1> HIDE DEF S
<1>8. /\ Cardinality(S) \in 0 .. n
      /\ \A i \in 1 .. n : i \in S <=> i <= Cardinality(S)
  BY <1>4, <1>5, DownClosed
<1> QED
  BY <1>1, <1>6, <1>7, <1>8

\* Between two frames, those in front are past.
LEMMA PastAt ==
  TypeOK /\ Laid =>
    \A k \in 0 .. Len(frames) : conn # "over" /\ Position = Edge(k) => Past = k
<1> SUFFICES ASSUME TypeOK, Laid, conn # "over", NEW k \in 0 .. Len(frames), Position = Edge(k)
             PROVE  Past = k
  OBVIOUS
<1>1. PICK n \in Nat : n = Len(frames)
  BY LaidFacts
<1>2. PICK c \in 0 .. n : c = Past /\ \A i \in 1 .. n : frames[i].end <= Position <=> i <= c
  BY <1>1, PastIs
<1>3. ASSUME NEW i \in 1 .. n PROVE i <= k <=> i <= c
  <2>1. /\ frames[i].end = Edge(i) /\ i \in 0 .. Len(frames)
        /\ Edge(i) \in Nat /\ Edge(k) \in Nat
    BY <1>1, LaidFacts
  <2>2. (k < i => Edge(k) < Edge(i)) /\ (i < k => Edge(i) < Edge(k))
    BY <2>1, LaidFacts
  <2>3. i <= k <=> Edge(i) <= Edge(k)
    <3>1. k \in Nat /\ i \in Nat
      BY <1>1
    <3> QED
      BY <2>1, <2>2, <3>1
  <2> QED
    BY <1>2, <2>1, <2>3
<1>4. k \in 0 .. n
  BY <1>1
<1>5. c = k
  <2>1. ~(c < k)
    BY <1>3, <1>4
  <2>2. ~(k < c)
    BY <1>3, <1>4
  <2> QED
    BY <1>4, <2>1, <2>2
<1> QED
  BY <1>2, <1>5

\* What is returned is a piece of a frame that is not past and ends where the
\* text was to end, or in front of it.
LEMMA Pieces ==
  ASSUME TypeOK, Whereabouts, reader = "body"
  PROVE  \/ CString(Buffer) = <<>>
         \/ \E i \in 1 .. Len(frames) : \E m, n \in 1 .. Len(Frame(frames[i].text)) :
              /\ m <= n /\ CString(Buffer) = SubSeq(Frame(frames[i].text), m, n)
              /\ ~(frames[i].end <= Position)
              /\ recvLen = payloadLen => frames[i].end <= taken
<1>0. Laid /\ WriterStands /\ ReaderStands
  BY DEF Whereabouts
<1>1. /\ taken \in Nat /\ recvLen \in Nat /\ recvLen <= taken /\ rc \in Nat /\ payloadLen \in Nat
      /\ Len(stream) \in Nat /\ taken <= Len(stream)
  BY <1>0, LaidFacts DEF TypeOK
<1>2. PICK b \in Seq(Byte) : /\ b = Buffer /\ Len(b) = recvLen
                             /\ \A j \in 1 .. recvLen : b[j] = stream[(taken - recvLen) + j]
  BY BufferFacts
<1>3. PICK r \in Nat : r = recvLen
  BY <1>1
<1>4. PICK p \in Nat : p = taken - recvLen /\ p + r = taken
  BY <1>1, <1>3
<1>5. PICK c \in 0 .. r : CString(b) = SubSeq(b, 1, c) /\ \A j \in 1 .. c : b[j] # 0
  BY <1>2, <1>3, CStringIs
<1>6. \A j \in 1 .. c : b[j] = stream[p + j] /\ stream[p + j] # 0 /\ p + j <= Len(stream)
  BY <1>1, <1>2, <1>3, <1>4, <1>5
<1>9. c \in Nat /\ c <= r /\ (c = 0 \/ c > 0)
  OBVIOUS
<1>7. CASE c = 0
  <2>1. SubSeq(b, 1, 0) = <<>>
    BY SubSeqEmpty
  <2> QED
    BY <1>2, <1>5, <1>7, <2>1
<1>8. CASE c > 0
  <2>1. rc > 0 /\ recvLen <= payloadLen /\ TakesRest(p, payloadLen)
    <3>1. (recvLen = 0 /\ Drained) \/ TakesRest(p, payloadLen)
      BY <1>0, <1>4 DEF ReaderStands
    <3>2. recvLen # 0
      BY <1>3, <1>8, <1>9
    <3> QED
      BY <1>0, <3>1, <3>2 DEF ReaderStands
  \* A text that begins where everything is loose is empty.
  <2>2. payloadLen # 0 /\ ~(AtEdge(p) /\ Loose(p))
    <3>1. payloadLen # 0
      BY <1>1, <1>3, <1>8, <1>9, <2>1
    <3>2. p + 1 <= Len(stream) /\ stream[p + 1] # 0
      BY <1>6, <1>8
    <3> QED
      BY <1>0, <3>1, <3>2, ZeroAtEdge
  <2>3. PICK i \in 1 .. Len(frames) :
          /\ frames[i].at <= p /\ p < frames[i].end /\ frames[i].end - p <= payloadLen
          /\ frames[i].end - p < payloadLen => Loose(frames[i].end)
    BY <2>1, <2>2 DEF TakesRest
  <2>4. PICK a \in Nat : a = frames[i].at
    BY <1>0, LaidFacts
  <2>5. PICK e \in Nat : e = frames[i].end
    BY <1>0, LaidFacts
  <2>6. PICK l \in Nat : l = Len(Frame(frames[i].text)) /\ e <= a + l
    <3>1. /\ Len(Frame(frames[i].text)) = Len(frames[i].text) + 2 /\ Len(frames[i].text) \in Nat
      BY <1>0, LaidFacts
    <3>2. frames[i].end <= frames[i].at + Len(Frame(frames[i].text))
      BY <1>0 DEF Laid
    <3> QED
      BY <2>4, <2>5, <3>1, <3>2
  \* It ends with its frame.
  <2>7. p + c <= e
    <3> SUFFICES ASSUME p + c > e PROVE FALSE
      BY <1>9, <2>5
    <3>1. PICK j \in 1 .. c : p + j = e + 1
      <4>1. (e + 1) - p \in 1 .. c /\ p + ((e + 1) - p) = e + 1
        <5>1. p < e
          BY <2>3, <2>5
        <5> QED
          BY <1>9, <5>1
      <4> QED
        BY <4>1
    <3>2. stream[e + 1] # 0 /\ e + 1 <= Len(stream)
      BY <1>6, <3>1
    <3>3. e - p < payloadLen
      BY <1>1, <1>3, <1>9, <2>1, <3>1
    <3>4. Loose(e)
      BY <2>3, <2>5, <3>3
    <3>5. AtEdge(e)
      <4>1. i \in 0 .. Len(frames) /\ frames[i].end = Edge(i)
        BY <1>0, LaidFacts
      <4> QED
        BY <2>5, <4>1 DEF AtEdge
    <3> QED
      BY <1>0, <3>2, <3>4, <3>5, ZeroAtEdge
  <2>8. PICK m \in Nat, n \in Nat : m = p - a + 1 /\ n = p - a + c
    <3>1. a <= p
      BY <2>3, <2>4
    <3>2. p - a + 1 \in Nat /\ p - a + c \in Nat
      BY <1>9, <3>1
    <3> QED
      BY <3>2
  <2>9. /\ m \in 1 .. l /\ n \in 1 .. l /\ m <= n /\ n - m + 1 = c
        /\ \A j \in 1 .. c : /\ m + j - 1 = (p + j) - a
                             /\ a < p + j /\ p + j <= e /\ p + j \in Nat
    <3>1. a <= p /\ p < e
      BY <2>3, <2>4, <2>5
    <3>2. /\ m \in 1 .. l /\ n \in 1 .. l /\ m <= n /\ n - m + 1 = c
      BY <1>8, <1>9, <2>6, <2>7, <2>8, <3>1
    <3>3. ASSUME NEW j \in 1 .. c
          PROVE  m + j - 1 = (p + j) - a /\ a < p + j /\ p + j <= e /\ p + j \in Nat
      BY <1>9, <2>7, <2>8, <3>1
    <3> QED
      BY <3>2, <3>3
  <2>10. PICK g \in Seq(Byte) : g = Frame(frames[i].text) /\ Len(g) = l
    <3>1. frames[i].text \in Text \cup {Shutdown}
      BY <1>0, LaidFacts
    <3> QED
      BY <2>6, <3>1, FrameFacts
  <2>11. ASSUME NEW j \in 1 .. c PROVE b[j] = g[m + j - 1]
    <3>1. frames[i].at < p + j /\ p + j <= frames[i].end /\ p + j \in Nat
      BY <2>4, <2>5, <2>9
    <3>2. p + j <= Len(stream) /\ b[j] = stream[p + j]
      BY <1>6
    <3>3. stream[p + j] = Frame(frames[i].text)[(p + j) - frames[i].at]
      BY <1>0, <3>1, <3>2, ByteOf
    <3>4. m + j - 1 = (p + j) - a
      BY <2>9
    <3> QED
      BY <2>4, <2>10, <3>2, <3>3, <3>4
  <2>12. SubSeq(b, 1, c) = SubSeq(g, m, n)
    <3>1. c \in 0 .. Len(b)
      BY <1>2, <1>3
    <3>2. /\ SubSeq(b, 1, c) \in Seq(Byte) /\ Len(SubSeq(b, 1, c)) = c
          /\ \A j \in 1 .. c : SubSeq(b, 1, c)[j] = b[j]
      BY ONLY <3>1, <1>2, FirstOf
    <3>3. m >= 1 /\ m <= n + 1 /\ n <= Len(g)
      BY <2>9, <2>10
    <3>4. /\ SubSeq(g, m, n) \in Seq(Byte) /\ Len(SubSeq(g, m, n)) = n - m + 1
          /\ \A j \in 1 .. n - m + 1 : SubSeq(g, m, n)[j] = g[m + j - 1]
      BY ONLY <3>3, PartOf, m \in Nat, n \in Nat, g \in Seq(Byte)
    <3>5. PICK x \in Seq(Byte) : x = SubSeq(b, 1, c) /\ Len(x) = c /\ \A j \in 1 .. c : x[j] = b[j]
      BY <3>2
    <3>6. PICK y \in Seq(Byte) : /\ y = SubSeq(g, m, n) /\ Len(y) = c
                                 /\ \A j \in 1 .. c : y[j] = g[m + j - 1]
      BY <2>9, <3>4
    <3>7. \A j \in 1 .. c : x[j] = y[j]
      BY <2>11, <3>5, <3>6
    <3>8. x = y
      BY <3>5, <3>6, <3>7, SeqEqual
    <3> QED
      BY <3>5, <3>6, <3>8
  <2>13. CString(Buffer) = SubSeq(Frame(frames[i].text), m, n)
    BY <1>2, <1>5, <2>10, <2>12
  <2>14. ~(frames[i].end <= Position)
    <3>1. Position = taken - (rc + recvLen)
      BY DEF Position
    <3>2. Position <= p
      BY <1>1, <1>4, <3>1
    <3>3. Position \in Int
      BY <1>1, <3>1
    <3> QED
      BY <2>3, <2>5, <3>2, <3>3
  <2>15. recvLen = payloadLen => frames[i].end <= taken
    BY <1>1, <1>3, <1>4, <2>3, <2>5
  <2>16. m \in 1 .. Len(Frame(frames[i].text)) /\ n \in 1 .. Len(Frame(frames[i].text)) /\ m <= n
    BY <2>6, <2>9
  <2> QED
    BY <2>13, <2>14, <2>15, <2>16
<1> QED
  BY <1>7, <1>8, <1>9

-----------------------------------------------------------------------------
\* The texts that were begun.
LEMMA BegunIs ==
  TypeOK => /\ Begun \in Seq(Text \cup {Shutdown}) /\ Len(Begun) = Len(frames)
            /\ \A i \in 1 .. Len(frames) : Begun[i] = frames[i].text
<1> SUFFICES ASSUME TypeOK
             PROVE  /\ Begun \in Seq(Text \cup {Shutdown}) /\ Len(Begun) = Len(frames)
                    /\ \A i \in 1 .. Len(frames) : Begun[i] = frames[i].text
  OBVIOUS
<1>1. PICK n \in Nat : n = Len(frames)
  BY FrameTypes
<1>2. \A i \in 1 .. n : frames[i].text \in Text \cup {Shutdown}
  BY <1>1, FrameTypes
<1>3. Begun = [i \in 1 .. n |-> frames[i].text]
  BY <1>1 DEF Begun
<1>4. Begun \in [1 .. n -> Text \cup {Shutdown}]
  BY <1>2, <1>3
<1>5. Begun \in Seq(Text \cup {Shutdown}) /\ Len(Begun) = n
  BY <1>1, <1>4
<1> QED
  BY <1>1, <1>3, <1>5

\* At first nothing was sent, and nothing is past.
LEMMA InitImplements == Init => C!Init
<1> SUFFICES ASSUME Init PROVE C!Init
  OBVIOUS
<1>1. Len(frames) = 0 /\ conn = "open" /\ DOMAIN frames = {}
  BY DEF Init
<1>2. {i \in DOMAIN frames : frames[i].end <= Position \/ conn = "over"} = {}
  BY <1>1
<1>3. Past = 0
  BY <1>2, FS_EmptySet DEF Past
<1>4. Begun = <<>>
  BY <1>1 DEF Begun
<1> QED
  BY <1>3, <1>4 DEF C!Init, Init

\* When frames that were past still are, no fewer are past.
LEMMA PastGrows ==
  ASSUME TypeOK, Laid, TypeOK', Laid', Len(frames') = Len(frames),
         \A i \in 1 .. Len(frames) : frames[i].end <= Position \/ conn = "over"
                                       => frames'[i].end <= Position' \/ conn' = "over"
  PROVE  Past' \in Past .. Len(frames)
<1>1. PICK n \in Nat : n = Len(frames)
  BY LaidFacts
<1>2. PICK c \in 0 .. n : /\ c = Past
                          /\ \A i \in 1 .. n : (frames[i].end <= Position \/ conn = "over") <=> i <= c
  BY <1>1, PastIs
<1>3. /\ Past' \in 0 .. Len(frames')
      /\ \A i \in 1 .. Len(frames') :
           (frames'[i].end <= Position' \/ conn' = "over") <=> i <= Past'
  <2>1. (TypeOK /\ Laid => /\ Past \in 0 .. Len(frames) /\ Len(frames) \in Nat
                           /\ \A i \in 1 .. Len(frames) :
                                (frames[i].end <= Position \/ conn = "over") <=> i <= Past)'
    BY PastIs, PTL
  <2> QED
    BY <2>1
<1>4. PICK d \in 0 .. n : d = Past' /\ \A i \in 1 .. n : i <= c => i <= d
  BY <1>1, <1>2, <1>3
<1>5. c <= d
  <2>1. CASE c = 0
    BY <1>4, <2>1
  <2>2. CASE c # 0
    <3>1. c \in 1 .. n /\ c <= c
      BY <1>2, <2>2
    <3> QED
      BY <1>4, <3>1
  <2> QED
    BY <2>1, <2>2
<1> QED
  BY <1>1, <1>2, <1>4, <1>5

\* And when the same ones are, as many.
LEMMA PastStays ==
  ASSUME TypeOK, Laid, TypeOK', Laid', Len(frames') >= Len(frames),
         \A i \in 1 .. Len(frames) : (frames[i].end <= Position \/ conn = "over")
                                       <=> (frames'[i].end <= Position' \/ conn' = "over"),
         \A i \in Len(frames) + 1 .. Len(frames') : ~(frames'[i].end <= Position' \/ conn' = "over")
  PROVE  Past' = Past
<1>1. PICK n \in Nat : n = Len(frames)
  BY LaidFacts
<1>2. PICK c \in 0 .. n : /\ c = Past
                          /\ \A i \in 1 .. n : (frames[i].end <= Position \/ conn = "over") <=> i <= c
  BY <1>1, PastIs
<1>3. /\ Past' \in 0 .. Len(frames') /\ Len(frames') \in Nat
      /\ \A i \in 1 .. Len(frames') :
           (frames'[i].end <= Position' \/ conn' = "over") <=> i <= Past'
  <2>1. (TypeOK /\ Laid => /\ Past \in 0 .. Len(frames) /\ Len(frames) \in Nat
                           /\ \A i \in 1 .. Len(frames) :
                                (frames[i].end <= Position \/ conn = "over") <=> i <= Past)'
    BY PastIs, PTL
  <2> QED
    BY <2>1
<1>4. PICK w \in Nat : w = Len(frames') /\ w >= n
  BY <1>1, <1>3
<1>5. PICK d \in 0 .. w : /\ d = Past' /\ \A i \in 1 .. n : i <= c <=> i <= d
                          /\ \A i \in n + 1 .. w : ~(i <= d)
  <2>1. \A i \in 1 .. n : i \in 1 .. w
    BY <1>4
  <2>2. \A i \in n + 1 .. w : i \in 1 .. w
    BY <1>4
  <2> QED
    BY <1>1, <1>2, <1>3, <1>4, <2>1, <2>2
<1>6. ~(c < d)
  <2> SUFFICES ASSUME c < d PROVE FALSE
    OBVIOUS
  <2>1. d \in 1 .. n \/ d \in n + 1 .. w
    BY <1>4
  <2>2. d <= d /\ ~(d <= c)
    OBVIOUS
  <2> QED
    BY <1>5, <2>1, <2>2
<1>7. ~(d < c)
  <2> SUFFICES ASSUME d < c PROVE FALSE
    OBVIOUS
  <2>1. c \in 1 .. n /\ c <= c /\ ~(c <= d)
    BY <1>4
  <2> QED
    BY <1>5, <2>1
<1>8. c = d
  BY <1>4, <1>6, <1>7
<1> QED
  BY <1>2, <1>5, <1>8

\* While nothing breaks, what was returned is what is past.
LEMMA PastReturned ==
  TypeOK /\ Laid /\ ~broken /\ WriterPlace /\ ReaderPlace /\ EndToEnd /\ reader # "left" =>
    /\ Len(returned) \in 0 .. Len(frames)
    /\ Position = Edge(Len(returned)) /\ Past = Len(returned)
<1> SUFFICES ASSUME TypeOK, Laid, ~broken, WriterPlace, ReaderPlace, EndToEnd,
                    reader # "left"
             PROVE  /\ Len(returned) \in 0 .. Len(frames)
                    /\ Position = Edge(Len(returned)) /\ Past = Len(returned)
  OBVIOUS
<1>1. PICK n \in Nat : n = Len(returned)
  BY DEF TypeOK
<1>2. n \in 0 .. Len(frames) /\ conn # "over" /\ Len(frames) \in Nat
  BY <1>1, LaidFacts DEF ReaderPlace, WriterPlace
<1>3. Position = Edge(n)
  <2>1. CASE reader = "body"
    <3>1. /\ n < Len(frames) /\ rc = 2 /\ taken = frames[n + 1].at + 2 + recvLen
      BY <1>1, <2>1 DEF ReaderPlace
    <3>2. n + 1 \in 1 .. Len(frames) /\ (n + 1) - 1 = n
      BY <1>2, <3>1
    <3>3. frames[n + 1].at = Edge(n) /\ frames[n + 1].at \in Nat /\ recvLen \in Nat
      BY <3>2, LaidFacts
    <3>4. Position = taken - (2 + recvLen)
      BY <2>1, <3>1 DEF Position
    <3>5. PICK a \in Nat : a = frames[n + 1].at
      BY <3>3
    <3>6. taken = a + 2 + recvLen /\ recvLen \in Nat
      BY <3>1, <3>3, <3>5
    <3> QED
      BY <3>3, <3>4, <3>5, <3>6
  <2>2. CASE reader \in {"call", "stopped"}
    <3>1. taken = Edge(n) /\ taken \in Nat
      BY <1>1, <2>2, LaidFacts DEF ReaderPlace
    <3> QED
      BY <2>2, <3>1 DEF Position
  <2> QED
    BY <2>1, <2>2 DEF TypeOK
<1> QED
  BY <1>1, <1>2, <1>3, PastAt

-----------------------------------------------------------------------------
\* Steps that begin or cut no frame, and of the reader those that only read.
LEMMA QuietImplements ==
  ASSUME TypeOK, Whereabouts, TypeOK', Whereabouts', broken' = broken \/ broken' = TRUE,
         frames' = frames, returned' = returned, Position' = Position,
         conn = "over" <=> conn' = "over"
  PROVE  [C!Next]_<<Begun, Past, returned, broken>>
<1>1. Begun' = Begun
  BY DEF Begun
<1>2. Past' = Past
  BY DEF Past
<1>3. CASE broken' = broken
  BY <1>1, <1>2, <1>3
<1>4. CASE broken' = TRUE
  BY <1>1, <1>2, <1>4 DEF C!Next, C!Break
<1> QED
  BY <1>3, <1>4

\* A text is sent when its first byte is.
LEMMA WriteImplements ==
  ASSUME TypeOK, Whereabouts, TypeOK', Whereabouts', Write
  PROVE  [C!Next]_<<Begun, Past, returned, broken>>
<1>0. Laid /\ WriterStands /\ Laid'
  BY DEF Whereabouts
<1>1. /\ UNCHANGED <<returned, broken, conn, taken, rc, recvLen, reader>> /\ conn = "open"
      /\ text \in Text \cup {Shutdown}
  BY <1>0 DEF Write, reading, WriterStands, TypeOK
<1>2. Position' = Position
  BY <1>1 DEF Position
<1>3. CASE sendLen > 0
  BY <1>1, <1>2, <1>3, QuietImplements DEF Write
<1>4. CASE ~(sendLen > 0)
  <2>1. PICK f : f = [text |-> text, at |-> Len(stream), end |-> Len(stream) + Len(Frame(text))]
    OBVIOUS
  <2>2. Len(stream) \in Nat /\ Len(Frame(text)) \in Nat /\ Len(Frame(text)) > 0
    <3>1. Len(Frame(text)) = Len(text) + 2 /\ Len(text) \in Nat /\ Len(stream) \in Nat
      BY <1>0, <1>1, FrameFacts, LaidFacts
    <3> QED
      BY <3>1
  <2>3. f \in FrameRecord /\ f.text = text /\ f.end = Len(stream) + Len(Frame(text))
    BY <1>1, <2>1, <2>2 DEF FrameRecord
  <2>4. frames' = Append(frames, f)
    BY <1>4, <2>1 DEF Write
  <2>5. PICK n \in Nat : n = Len(frames)
    BY <1>0, LaidFacts
  <2>6. PICK w \in Nat : w = n + 1
    OBVIOUS
  <2>7. Len(frames') = w /\ frames'[w] = f /\ \A i \in 1 .. n : frames'[i] = frames[i]
    <3>1. frames \in Seq(FrameRecord)
      BY DEF TypeOK, FrameRecord
    <3> QED
      BY <2>3, <2>4, <2>5, <2>6, <3>1, AppendProperties
  <2>8. Begun' = Append(Begun, text)
    <3>1. PICK b \in Seq(Text \cup {Shutdown}) :
            b = Begun /\ Len(b) = n /\ \A i \in 1 .. n : b[i] = frames[i].text
      BY <2>5, BegunIs
    <3>2. PICK c \in Seq(Text \cup {Shutdown}) :
            c = Begun' /\ Len(c) = w /\ \A i \in 1 .. w : c[i] = frames'[i].text
      <4>1. (TypeOK => /\ Begun \in Seq(Text \cup {Shutdown}) /\ Len(Begun) = Len(frames)
                       /\ \A i \in 1 .. Len(frames) : Begun[i] = frames[i].text)'
        BY BegunIs, PTL
      <4> QED
        BY <2>7, <4>1
    <3>3. PICK t \in Text \cup {Shutdown} : t = text
      BY <1>1
    <3>4. /\ Append(b, t) \in Seq(Text \cup {Shutdown}) /\ Len(Append(b, t)) = w
          /\ \A i \in 1 .. w : Append(b, t)[i] = c[i]
      <4>1. /\ Append(b, t) \in Seq(Text \cup {Shutdown}) /\ Len(Append(b, t)) = n + 1
            /\ Append(b, t)[n + 1] = t
            /\ \A i \in 1 .. n : Append(b, t)[i] = b[i]
        BY <3>1, AppendProperties
      <4>2. PICK x \in Seq(Text \cup {Shutdown}) :
              /\ x = Append(b, t) /\ Len(x) = w /\ x[w] = t
              /\ \A i \in 1 .. n : x[i] = b[i]
        BY <2>6, <4>1
      <4>3. \A i \in 1 .. w : i = w \/ i \in 1 .. n
        BY <2>6
      <4>4. \A i \in 1 .. w : x[i] = c[i]
        BY <2>3, <2>7, <3>1, <3>2, <3>3, <4>2, <4>3
      <4> QED
        BY <4>2, <4>4
    <3>5. Append(b, t) = c
      <4> DEFINE x == Append(b, t)
      <4>1. x \in Seq(Text \cup {Shutdown}) /\ Len(x) = w /\ \A i \in 1 .. w : x[i] = c[i]
        BY <3>4
      <4> HIDE DEF x
      <4>2. x = c
        BY <3>2, <4>1, SeqEqual
      <4> QED
        BY <4>2 DEF x
    <3> QED
      BY <3>1, <3>2, <3>3, <3>5
  <2>9. Past' = Past
    <3>1. Position <= Len(stream) /\ Position \in Int
      BY <1>0, <2>2, LaidFacts DEF Position, TypeOK
    <3>2. f.end \in Nat /\ f.end > Len(stream)
      BY <2>2, <2>3
    <3>3. ~(frames'[w].end <= Position' \/ conn' = "over")
      BY <1>1, <1>2, <2>2, <2>7, <3>1, <3>2
    <3>4. Len(frames') >= Len(frames)
      BY <2>5, <2>6, <2>7
    <3>5. \A i \in Len(frames) + 1 .. Len(frames') : i = w
      BY <2>5, <2>6, <2>7
    <3>6. \A i \in 1 .. Len(frames) : (frames[i].end <= Position \/ conn = "over")
                                        <=> (frames'[i].end <= Position' \/ conn' = "over")
      BY <1>1, <1>2, <2>5, <2>7
    <3>7. \A i \in Len(frames) + 1 .. Len(frames') : ~(frames'[i].end <= Position' \/ conn' = "over")
      BY <3>3, <3>5
    <3> QED
      BY <1>0, <3>4, <3>6, <3>7, PastStays
  <2> QED
    BY <1>1, <2>8, <2>9 DEF C!Next, C!Send
<1> QED
  BY <1>3, <1>4

\* A frame that is cut breaks the channel; that it is shorter may make it past.
LEMMA CutImplements ==
  ASSUME TypeOK, Whereabouts, Aligned, TypeOK', Whereabouts', Interrupt, InFrame
  PROVE  [C!Next]_<<Begun, Past, returned, broken>>
<1>0. Laid /\ WriterStands /\ Laid'
  BY DEF Whereabouts
<1>1. PICK m \in Nat : m = Len(frames)
  BY <1>0, LaidFacts
<1>2. PICK z \in Nat : z = Len(stream)
  BY <1>0, LaidFacts
<1>3. /\ m > 0 /\ Len(frames') = m
      /\ frames[m].at < z /\ z < frames[m].end
      /\ \A i \in 1 .. m : /\ frames'[i].text = frames[i].text /\ frames'[i].at = frames[i].at
                           /\ frames'[i].end = IF i = m THEN z ELSE frames[i].end
  BY <1>0, <1>1, <1>2, CutFrames
<1>4. /\ UNCHANGED <<returned, conn, taken, rc, recvLen, reader>> /\ broken' = TRUE
      /\ conn = "open" /\ writer # "closed"
  BY <1>0 DEF Interrupt, reading, WriterStands, TypeOK
<1>5. Position' = Position
  BY <1>4 DEF Position
<1>6. Begun' = Begun
  BY <1>1, <1>3 DEF Begun
<1>7. m \in 1 .. m /\ m \in 1 .. Len(frames)
  BY <1>1, <1>3
<1>8. CASE broken
  <2>1. Position \in Int
    BY <1>0, LaidFacts DEF Position
  <2>2. \A i \in 1 .. Len(frames) : frames[i].end <= Position \/ conn = "over"
                                      => frames'[i].end <= Position' \/ conn' = "over"
    <3> TAKE i \in 1 .. Len(frames)
    <3>1. i \in 1 .. m /\ frames[i].end \in Nat
      BY <1>0, <1>1, LaidFacts
    <3>2. frames'[i].end <= frames[i].end /\ frames'[i].end \in Nat
      BY <1>2, <1>3, <3>1
    <3> QED
      BY <1>4, <1>5, <2>1, <3>1, <3>2
  <2>3. Past' \in Past .. Len(frames)
    BY <1>0, <1>1, <1>3, <2>2, PastGrows
  <2>4. Past' \in Past .. Len(Begun)
    BY <2>3, BegunIs
  <2> QED
    BY <1>4, <1>6, <1>8, <2>4 DEF C!Next, C!Miss
<1>9. CASE ~broken
  <2>1. WriterPlace /\ ReaderPlace /\ EndToEnd /\ reader # "left"
    <3>1. WriterPlace /\ ReaderPlace /\ EndToEnd /\ EmptyFirst /\ to = "client"
      BY <1>9 DEF Aligned, Interrupt
    <3>2. ~EmptyId
      <4>1. 1 \in 1 .. Len(frames)
        BY <1>1, <1>3
      <4> QED
        BY <3>1, <4>1 DEF EmptyId, EmptyFirst
    <3> QED
      BY <1>4, <3>1, <3>2 DEF ReaderPlace, ClosedForCause
  <2>2. PICK n \in 0 .. m : n = Len(returned) /\ Position = Edge(n)
    BY <1>0, <1>1, <1>9, <2>1, PastReturned
  <2>3. Position < z
    <3>1. /\ frames[m].at = Edge(m - 1) /\ frames[m].end = Edge(m)
          /\ m - 1 \in 0 .. Len(frames) /\ n \in 0 .. Len(frames)
          /\ Edge(m - 1) \in Nat /\ Edge(m) \in Nat /\ Edge(n) \in Nat
      BY <1>0, <1>1, <1>7, LaidFacts
    <3>2. Position <= z
      BY <1>0, <1>2, LaidFacts DEF Position
    <3>3. n # m
      BY <1>2, <1>3, <2>2, <3>1, <3>2
    <3>4. n < m - 1 \/ n = m - 1
      BY <1>1, <1>3, <3>3
    <3>5. Edge(n) <= Edge(m - 1)
      <4>1. n < m - 1 => Edge(n) < Edge(m - 1)
        <5>1. \A i, k \in 0 .. Len(frames) : i < k => Edge(i) < Edge(k)
          BY <1>0, LaidFacts
        <5> QED
          BY <3>1, <5>1
      <4>2. n = m - 1 => Edge(n) = Edge(m - 1)
        OBVIOUS
      <4> QED
        BY <3>1, <3>4, <4>1, <4>2
    <3> QED
      BY <1>2, <1>3, <2>2, <3>1, <3>5
  <2>4. Past' = Past
    <3>1. \A i \in 1 .. Len(frames) : (frames[i].end <= Position \/ conn = "over")
                                        <=> (frames'[i].end <= Position' \/ conn' = "over")
      <4> TAKE i \in 1 .. Len(frames)
      <4>1. i \in 1 .. m /\ frames[i].end \in Nat /\ Position \in Int
        BY <1>0, <1>1, LaidFacts DEF Position
      <4>2. CASE i = m
        BY <1>2, <1>3, <1>4, <1>5, <2>3, <4>1, <4>2
      <4>3. CASE i # m
        BY <1>3, <1>4, <1>5, <4>1, <4>3
      <4> QED
        BY <4>2, <4>3
    <3>2. Len(frames') >= Len(frames) /\ Len(frames) + 1 .. Len(frames') = {}
      BY <1>1, <1>3
    <3> QED
      BY <1>0, <3>1, <3>2, PastStays
  <2> QED
    BY <1>4, <1>6, <2>4 DEF C!Next, C!Break
<1> QED
  BY <1>8, <1>9

-----------------------------------------------------------------------------
\* What applicationProtocol returns when nothing is broken is the next text,
\* or that text is empty.
LEMMA DoneImplements ==
  ASSUME TypeOK, Whereabouts, Aligned, ~broken, TypeOK', Whereabouts', BodyDone
  PROVE  C!Receive \/ C!Skip
<1>0. Laid /\ Laid' /\ EmptyFirst /\ EndToEnd /\ InStream /\ WriterPlace /\ ReaderPlace
  BY DEF Whereabouts, Aligned
<1>1. PICK n \in Nat : n = Len(returned)
  BY DEF TypeOK
<1>2. /\ n + 1 \in 1 .. Len(frames)
      /\ \/ returned' = Append(returned, frames[n + 1].text)
         \/ frames[n + 1].text = <<>> /\ returned' = returned
      /\ reader' \in {"stopped", "call", "left"} /\ taken = Edge(n + 1)
  BY <1>0, <1>1, BodyReturns
<1>3. /\ reader = "body" /\ frames' = frames /\ broken' = broken /\ taken' = taken /\ conn' = conn
  BY DEF BodyDone, writing
<1>4. Past = n
  BY <1>0, <1>1, <1>3, PastReturned
<1>5. Past' = n + 1
  <2>1. PICK j : j = n + 1
    OBVIOUS
  <2>2. taken \in Nat
    BY <1>0, LaidFacts
  <2>3. Position' = Edge(j)'
    BY <1>2, <1>3, <2>1, <2>2 DEF Position, Edge
  <2>4. j \in 0 .. Len(frames') /\ conn' # "over"
    <3>1. Len(frames) \in Nat /\ conn # "over"
      BY <1>0, LaidFacts DEF WriterPlace
    <3> QED
      BY <1>2, <1>3, <2>1, <3>1
  <2>5. (TypeOK /\ Laid =>
          \A k \in 0 .. Len(frames) : conn # "over" /\ Position = Edge(k) => Past = k)'
    BY PastAt, PTL
  <2>6. Past' = j
    BY <1>0, <2>3, <2>4, <2>5
  <2> QED
    BY <2>1, <2>6
<1>6. Begun' = Begun
  BY <1>3 DEF Begun
<1>7. Past < Len(Begun) /\ Begun[Past + 1] = frames[n + 1].text /\ Past' = Past + 1
  <2>1. Len(Begun) = Len(frames) /\ Begun[n + 1] = frames[n + 1].text
    BY <1>2, BegunIs
  <2>2. n < Len(frames)
    <3>1. Len(frames) \in Nat
      BY <1>0, LaidFacts
    <3> QED
      BY <1>2, <3>1
  <2> QED
    BY <1>4, <1>5, <2>1, <2>2
<1> QED
  BY <1>2, <1>3, <1>6, <1>7 DEF C!Receive, C!Skip

\* When something is broken it is a piece of one of the texts that are then
\* past, or nothing.
LEMMA PieceMissed ==
  ASSUME TypeOK, Whereabouts, TypeOK', Whereabouts', broken,
         BodyDone \/ BodyError
  PROVE  C!Miss
<1>0. Laid /\ Laid' /\ ReaderStands /\ WriterStands
  BY DEF Whereabouts
<1>1. /\ reader = "body" /\ frames' = frames /\ broken' = broken /\ taken' = taken
      /\ conn' = conn \/ conn' = "over"
      /\ Return(CString(Buffer)) /\ reader' # "body"
      /\ recvLen = payloadLen \/ conn' = "over"
  BY DEF BodyDone, BodyError, writing, Return
<1>2. conn # "over"
  BY <1>0, <1>1 DEF ReaderStands
<1>3. PICK n \in Nat : n = Len(frames)
  BY <1>0, LaidFacts
<1>4. Begun' = Begun /\ Len(Begun) = n /\ \A i \in 1 .. n : Begun[i] = frames[i].text
  BY <1>1, <1>3, BegunIs DEF Begun
<1>5. Position <= taken /\ Position' = taken /\ Position \in Int /\ taken \in Nat
  BY <1>0, <1>1, LaidFacts DEF Position
<1>6. PICK c \in 0 .. n : /\ c = Past
                          /\ \A i \in 1 .. n : frames[i].end <= Position <=> i <= c
  BY <1>0, <1>2, <1>3, PastIs
<1>7. PICK d \in 0 .. n : /\ d = Past'
                          /\ \A i \in 1 .. n : (frames[i].end <= taken \/ conn' = "over") <=> i <= d
  <2>1. (TypeOK /\ Laid => /\ Past \in 0 .. Len(frames) /\ Len(frames) \in Nat
                           /\ \A i \in 1 .. Len(frames) :
                                (frames[i].end <= Position \/ conn = "over") <=> i <= Past)'
    BY PastIs, PTL
  <2> QED
    BY <1>0, <1>1, <1>3, <1>5, <2>1
<1>8. d \in c .. n
  <2>1. \A i \in 1 .. Len(frames) : frames[i].end <= Position \/ conn = "over"
                                      => frames'[i].end <= Position' \/ conn' = "over"
    <3> TAKE i \in 1 .. Len(frames)
    <3>1. frames[i].end \in Nat
      BY <1>0, LaidFacts
    <3> QED
      BY <1>1, <1>2, <1>5, <3>1
  <2>2. Past' \in Past .. Len(frames)
    BY <1>0, <1>1, <2>1, PastGrows
  <2> QED
    BY <1>3, <1>6, <1>7, <2>2
<1>9. CASE CString(Buffer) = <<>>
  <2>1. returned' = returned
    BY <1>1, <1>9 DEF Return
  <2> QED
    BY <1>1, <1>4, <1>6, <1>7, <1>8, <2>1 DEF C!Miss
<1>10. CASE CString(Buffer) # <<>>
  <2>1. PICK i \in 1 .. n : \E m, q \in 1 .. Len(Frame(frames[i].text)) :
          /\ m <= q /\ CString(Buffer) = SubSeq(Frame(frames[i].text), m, q)
          /\ ~(frames[i].end <= Position)
          /\ recvLen = payloadLen => frames[i].end <= taken
    BY <1>1, <1>3, <1>10, Pieces
  <2>2. i \in c + 1 .. d
    <3>1. ~(i <= c) /\ i <= d
      BY <1>1, <1>6, <1>7, <2>1
    <3> QED
      BY <3>1
  <2>3. returned' = Append(returned, CString(Buffer))
    BY <1>1, <1>10 DEF Return
  <2>4. \E m, q \in 1 .. Len(Frame(Begun[i])) :
          m <= q /\ returned' = Append(returned, SubSeq(Frame(Begun[i]), m, q))
    <3>1. Begun[i] = frames[i].text
      BY <1>4
    <3> QED
      BY <2>1, <2>3, <3>1
  <2>5. Past' \in Past .. Len(Begun) /\ i \in Past + 1 .. Past'
    BY <1>4, <1>6, <1>7, <1>8, <2>2
  <2> QED
    BY <1>1, <1>4, <2>4, <2>5 DEF C!Miss
<1> QED
  BY <1>9, <1>10

\* A reader that gives up, at the end or on an error, misses what was begun
\* and is not past.
LEMMA GivesUp ==
  ASSUME TypeOK, Whereabouts, TypeOK', Whereabouts', broken,
         HeaderNone \/ BodyEnd
  PROVE  C!Miss
<1>0. Laid /\ Laid' /\ ReaderStands
  BY DEF Whereabouts
<1>1. /\ frames' = frames /\ broken' = broken /\ taken' = taken /\ returned' = returned
      /\ conn' = conn \/ conn' = "over"
      /\ reader' # "body"
  BY DEF HeaderNone, BodyEnd, writing, Return
<1>2. Begun' = Begun /\ Len(Begun) = Len(frames)
  BY <1>1, BegunIs DEF Begun
<1>3. Position <= taken /\ Position' = taken /\ Position \in Int /\ taken \in Nat
  BY <1>0, <1>1, LaidFacts DEF Position
<1>4. \A i \in 1 .. Len(frames) : frames[i].end <= Position \/ conn = "over"
                                    => frames'[i].end <= Position' \/ conn' = "over"
  <2> TAKE i \in 1 .. Len(frames)
  <2>1. frames[i].end \in Nat
    BY <1>0, LaidFacts
  <2> QED
    BY <1>1, <1>3, <2>1
<1>5. Past' \in Past .. Len(frames)
  BY <1>0, <1>1, <1>4, PastGrows
<1> QED
  BY <1>1, <1>2, <1>5 DEF C!Miss

\* The steps of applicationProtocol are steps of the channel.
LEMMA ReadingImplements ==
  ASSUME TypeOK, Whereabouts, Aligned, TypeOK', Whereabouts', ApplicationProtocol
  PROVE  [C!Next]_<<Begun, Past, returned, broken>>
<1>0. Laid /\ Laid' /\ ReaderStands /\ WriterStands
  BY DEF Whereabouts
<1>1. frames' = frames /\ broken' = broken
  BY ReadingMoves
<1>2. /\ taken \in Nat /\ Len(stream) \in Nat /\ recvLen \in Nat /\ rc \in Nat /\ payloadLen \in Nat
  BY <1>0, LaidFacts
<1>3. CASE Header \/ HeaderHalf \/ Body
  <2>1. returned' = returned /\ conn' = conn
    BY <1>3 DEF Header, HeaderHalf, Body
  <2>2. Position' = Position
    <3>1. CASE Header
      BY <1>2, <3>1 DEF Header, Position
    <3>2. CASE HeaderHalf
      BY <1>2, <3>2 DEF HeaderHalf, Position
    <3>3. CASE Body
      <4>1. PICK n \in 1 .. payloadLen - recvLen : taken' = taken + n /\ recvLen' = recvLen + n
        BY <3>3 DEF Body, Wanted
      <4>2. n \in Nat /\ reader = "body" /\ reader' = "body" /\ rc' = rc
        BY <1>2, <3>3, <4>1 DEF Body
      <4> QED
        BY <1>2, <4>1, <4>2 DEF Position
    <3> QED
      BY <1>3, <3>1, <3>2, <3>3
  <2> QED
    BY <1>1, <2>1, <2>2, QuietImplements
<1>4. CASE HeaderNone
  <2>1. CASE broken
    BY <1>4, <2>1, GivesUp DEF C!Next
  <2>2. CASE ~broken
    <3>1. conn = "fin"
      BY <1>4, <2>2 DEF HeaderNone, Aligned, WriterPlace
    <3>2. /\ returned' = returned /\ conn' = conn /\ taken' = taken
          /\ reader = "call" /\ reader' # "body"
      BY <1>4, <3>1 DEF HeaderNone, Return
    <3>3. Position' = Position
      BY <3>2 DEF Position
    <3> QED
      BY <1>1, <3>2, <3>3, QuietImplements
  <2> QED
    BY <2>1, <2>2
<1>5. CASE BodyDone
  <2>1. CASE broken
    BY <1>5, <2>1, PieceMissed DEF C!Next
  <2>2. CASE ~broken
    BY <1>5, <2>2, DoneImplements DEF C!Next
  <2> QED
    BY <2>1, <2>2
\* Inside a text neither the end nor an error comes while nothing is broken.
<1>6. ASSUME BodyEnd \/ BodyError PROVE broken
  <2> SUFFICES ASSUME ~broken PROVE FALSE
    OBVIOUS
  <2>1. EndToEnd /\ InStream /\ WriterPlace /\ ReaderPlace
    BY DEF Aligned
  <2>2. conn # "open" /\ Arrived = 0 /\ reader = "body" /\ recvLen # payloadLen
    BY <1>6 DEF BodyEnd, BodyError
  <2>3. Arrived <= 1
    BY <2>2
  <2> QED
    BY <2>1, <2>2, <2>3, EndAligned
<1>7. CASE BodyEnd
  BY <1>6, <1>7, GivesUp DEF C!Next
<1>8. CASE BodyError
  BY <1>6, <1>8, PieceMissed DEF C!Next
<1> QED
  BY <1>3, <1>4, <1>5, <1>7, <1>8 DEF ApplicationProtocol

\* Every step is one that the channel may take, or none.
LEMMA StepImplements ==
  ASSUME TypeOK, Whereabouts, Aligned, TypeOK', Whereabouts', [Next]_vars
  PROVE  [C!Next]_<<Begun, Past, returned, broken>>
<1>0. WriterStands
  BY DEF Whereabouts
<1>1. CASE vars' = vars
  BY <1>1 DEF vars, writing, reading, Begun, Past, Position
<1>2. CASE SendTcp \/ End \/ Reset \/ (Interrupt /\ ~InFrame)
  <2>1. /\ UNCHANGED reading /\ frames' = frames
    BY <1>2 DEF SendTcp, End, Reset, Interrupt, writing
  <2>2. returned' = returned /\ Position' = Position
    BY <2>1 DEF reading, Position
  <2>3. conn # "over" /\ conn' # "over"
    BY <1>0, <1>2 DEF SendTcp, End, Reset, Interrupt, WriterStands
  <2>4. broken' = broken \/ broken' = TRUE
    <3>1. CASE SendTcp \/ Reset
      BY <3>1 DEF SendTcp, Reset
    <3>2. CASE End \/ Interrupt
      BY <3>2 DEF End, Interrupt, TypeOK
    <3> QED
      BY <1>2, <3>1, <3>2
  <2> QED
    BY <2>1, <2>2, <2>3, <2>4, QuietImplements
<1>3. CASE Interrupt /\ InFrame
  BY <1>3, CutImplements
<1>4. CASE Write
  BY <1>4, WriteImplements
<1>5. CASE ApplicationProtocol
  BY <1>5, ReadingImplements
<1> QED
  BY <1>1, <1>2, <1>3, <1>4, <1>5 DEF Next

\* Whatever becomes of the connection, it does what the channel promises: texts
\* arrive whole and in order while nothing breaks, and afterwards nothing but
\* pieces of texts, of each at most one, in order.
THEOREM ChannelImplemented == Spec => ImplementsChannel
<1>1. Inv /\ Inv' /\ [Next]_vars => [C!Next]_<<Begun, Past, returned, broken>>
  BY StepImplements DEF Inv
<1> QED
  BY FramingInvariant, InitImplements, <1>1, PTL DEF Spec, ImplementsChannel, C!Spec
==============================================================================
