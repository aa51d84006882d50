-------------------------- MODULE PublishingProofs ---------------------------
(***************************************************************************)
(* Publishers, their socket and the server's UDP branch, for any number of *)
(* publishers, any command lines, payload files and users, and any size of *)
(* the server's queue.                                                     *)
(*                                                                         *)
(* PInv is inductive.  The promises of the publisher and of the server's   *)
(* UDP branch follow from it step by step.                                 *)
(***************************************************************************)
EXTENDS Publishing, SequenceTheorems, FiniteSetTheorems, TLAPS

-----------------------------------------------------------------------------
(***************************************************************************)
(* manageUdp makes of the server's buffer what the datagram in it says,    *)
(* for every datagram that fits and whatever was in the buffer before.     *)
(***************************************************************************)

\* Bytes are numbers.
LEMMA ByteIsNat == \A x \in Byte : x \in Nat
  BY DEF Byte

\* A C string that ends somewhere has a first end.  The intervals from its
\* beginning to its zeros are finite sets, and one of them has none within.
LEMMA FirstZero ==
  ASSUME NEW b \in [1 .. BufferLength -> Byte],
         NEW i \in 1 .. BufferLength,
         NEW j \in i .. BufferLength, b[j] = 0
  PROVE  \E m \in i .. BufferLength : b[m] = 0 /\ \A k \in i .. m - 1 : b[k] # 0
<1> DEFINE T == {i .. z : z \in {z \in i .. BufferLength : b[z] = 0}}
<1>1. BufferLength \in Nat
  BY BufferAssumption
<1>2. T \subseteq FiniteSubsetsOf(Nat)
  <2>1. \A z \in Nat : i .. z \in SUBSET Nat /\ IsFiniteSet(i .. z)
    <3> SUFFICES ASSUME NEW z \in Nat PROVE i .. z \in SUBSET Nat /\ IsFiniteSet(i .. z)
      OBVIOUS
    <3>1. i \in Nat /\ i \in Int /\ z \in Int
      BY <1>1
    <3>2. IsFiniteSet(i .. z)
      BY <3>1, FS_Interval
    <3>3. i .. z \in SUBSET Nat
      BY <3>1
    <3> QED
      BY <3>2, <3>3
  <2>2. \A z \in i .. BufferLength : z \in Nat
    BY <1>1
  <2>3. \A y \in T : y \in SUBSET Nat /\ IsFiniteSet(y)
    BY <2>1, <2>2
  <2> QED
    BY <2>3 DEF FiniteSubsetsOf
<1>3. T # {}
  OBVIOUS
<1>4. PICK x \in T : \A y \in T : ~(<<y, x>> \in StrictSubsetOrdering(Nat))
  <2> HIDE DEF T
  <2> QED
    BY <1>2, <1>3, FS_StrictSubsetOrderingWellFounded, WFMin
<1>5. PICK m \in i .. BufferLength : b[m] = 0 /\ x = i .. m
  BY <1>4
<1>6. ASSUME NEW k \in i .. m - 1, b[k] = 0
      PROVE  FALSE
  <2>1. k \in i .. BufferLength /\ i .. k \in T
    BY <1>1, <1>5, <1>6
  <2>2. i .. k \subseteq i .. m /\ m \in i .. m /\ m \notin i .. k
    BY <1>1, <1>5, <1>6
  <2>3. i .. k \in SUBSET Nat /\ i .. m \in SUBSET Nat
    BY <1>1
  <2>4. <<i .. k, x>> \in StrictSubsetOrdering(Nat)
    BY <1>5, <2>2, <2>3 DEF StrictSubsetOrdering
  <2> QED
    BY <1>4, <2>1, <2>4
<1> QED
  BY <1>5, <1>6

\* After memset and recvfrom the buffer holds the datagram and zeros.
LEMMA BufferHolds ==
  ASSUME NEW buffer, NEW datagram,
         datagram.topic \in Topic, datagram.rest \in Seq(Byte),
         Len(datagram.rest) < BufferLength
  PROVE  /\ Received(Cleared(buffer), datagram) \in Buffer
         /\ \A i \in 1 .. BufferLength :
              Received(Cleared(buffer), datagram).rest[i] = ByteAt(datagram.rest, i)
         /\ datagram.rest # <<>> =>
              Received(Cleared(buffer), datagram).topic = datagram.topic
<1> DEFINE rest == datagram.rest
<1>1. BufferLength \in Nat
  BY BufferAssumption
<1>2. \A i \in 1 .. BufferLength : i <= Len(rest) => rest[i] \in Byte
  BY <1>1
<1>3. 0 \in Byte
  BY DEF Byte
<1> QED
  BY <1>1, <1>2, <1>3 DEF Received, Cleared, Buffer, ByteAt

\* What the prefixes of a buffer say, as numbers.
LEMMA NumbersAreNumbers ==
  ASSUME NEW b \in [1 .. BufferLength -> Byte]
  PROVE  /\ \A i \in 1 .. BufferLength : b[i] \in Nat
         /\ Short(b, 2) = 256 * b[2] + b[3] /\ Short(b, 2) \in Nat
         /\ Long(b, 3) = 16777216 * b[3] + 65536 * b[4] + 256 * b[5] + b[6]
         /\ Long(b, 3) \in Nat
<1>1. \A i \in 1 .. 7 : i \in 1 .. BufferLength
  BY BufferAssumption
<1>2. \A i \in 1 .. BufferLength : b[i] \in Nat
  BY ByteIsNat
<1>3. b[2] \in Nat /\ b[3] \in Nat /\ b[4] \in Nat /\ b[5] \in Nat /\ b[6] \in Nat
  BY <1>1, <1>2
<1>4. Short(b, 2) = 256 * b[2] + b[3]
  BY SMT, <1>3 DEF Short
<1>5. Short(b, 3) = 256 * b[3] + b[4] /\ Short(b, 5) = 256 * b[5] + b[6]
  BY SMT, <1>3 DEF Short
<1>6. Long(b, 3) = 65536 * Short(b, 3) + Short(b, 5)
  BY SMT DEF Long
<1>7. Long(b, 3) = 65536 * (256 * b[3] + b[4]) + (256 * b[5] + b[6])
  BY <1>5, <1>6
<1>8. /\ Long(b, 3) = 16777216 * b[3] + 65536 * b[4] + 256 * b[5] + b[6]
      /\ Long(b, 3) \in Nat
  <2>1. PICK x \in Nat, y \in Nat, z \in Nat, w \in Nat :
          b[3] = x /\ b[4] = y /\ b[5] = z /\ b[6] = w
    BY <1>3
  <2>2. Long(b, 3) = 65536 * (256 * x + y) + (256 * z + w)
    BY <1>7, <2>1
  <2>3. /\ Long(b, 3) = 16777216 * x + 65536 * y + 256 * z + w
        /\ Long(b, 3) \in Nat
    BY SMT, <2>2
  <2> QED
    BY <2>1, <2>3
<1>9. Short(b, 2) \in Nat
  BY SMT, <1>3, <1>4
<1> QED
  BY <1>2, <1>4, <1>8, <1>9

\* The characters up to the first zero, and the zero.
LEMMA StringIsPrefix ==
  ASSUME NEW b \in [1 .. BufferLength -> Byte], b[BufferLength] = 0
  PROVE  /\ CString(b, 2) \in [kind : {"STRING"}, chars : Seq(Byte)]
         /\ Len(CString(b, 2).chars) + 2 \in 1 .. BufferLength
         /\ b[Len(CString(b, 2).chars) + 2] = 0
         /\ \A i \in DOMAIN CString(b, 2).chars :
              /\ i + 1 \in 1 .. BufferLength
              /\ CString(b, 2).chars[i] = b[i + 1] /\ b[i + 1] # 0
<1> DEFINE end == {j \in 2 .. BufferLength : b[j] = 0 /\ \A k \in 2 .. j - 1 : b[k] # 0}
           m == CHOOSE j \in end : TRUE
           chars == [k \in 1 .. m - 2 |-> b[2 + k - 1]]
<1>1. BufferLength \in Nat /\ BufferLength >= 7
  BY BufferAssumption
<1>2. end # {}
  <2>1. 2 \in 1 .. BufferLength /\ BufferLength \in 2 .. BufferLength
    BY <1>1
  <2>2. \E j \in 2 .. BufferLength : b[j] = 0 /\ \A k \in 2 .. j - 1 : b[k] # 0
    BY <2>1, FirstZero
  <2> QED
    BY <2>2
<1>3. m \in end
  BY <1>2
<1>4. m \in 2 .. BufferLength /\ b[m] = 0 /\ \A k \in 2 .. m - 1 : b[k] # 0
  BY <1>3
<1>5. CString(b, 2) = [kind |-> "STRING", chars |-> chars]
  BY DEF CString
<1> HIDE DEF end, m
<1>6. \A k \in 1 .. m - 2 : /\ k + 1 \in 1 .. BufferLength /\ k + 1 \in 2 .. m - 1
                            /\ 2 + k - 1 = k + 1
  BY <1>1, <1>4
<1>7. m - 2 \in Nat /\ chars \in [1 .. m - 2 -> Byte]
  BY <1>4, <1>6
<1>8. chars \in Seq(Byte) /\ Len(chars) = m - 2 /\ DOMAIN chars = 1 .. m - 2
  <2> HIDE DEF chars
  <2> QED
    BY <1>7
<1>9. \A k \in 1 .. m - 2 : chars[k] = b[k + 1] /\ b[k + 1] # 0
  BY <1>4, <1>6
<1>10. m - 2 + 2 = m /\ m \in 1 .. BufferLength
  BY <1>4
<1> HIDE DEF chars
<1> QED
  BY <1>4, <1>5, <1>6, <1>8, <1>9, <1>10

\* The text says what the datagram says, or there is none if the datagram's
\* type or sign cannot be read: manageUdp for every input that fits.
THEOREM TextDenotes ==
  ASSUME NEW buffer \in Buffer, NEW rest \in Seq(Byte), Len(rest) < BufferLength,
         \A i \in 1 .. BufferLength : buffer.rest[i] = ByteAt(rest, i)
  PROVE  /\ ManageUdp(buffer, Len(rest)) \in Text
         /\ Readable(rest) => /\ ManageUdp(buffer, Len(rest)) # NoText
                              /\ Denotes(ManageUdp(buffer, Len(rest)), rest)
         /\ ~Readable(rest) => ManageUdp(buffer, Len(rest)) = NoText
<1> DEFINE b == buffer.rest
           text == ManageUdp(buffer, Len(rest))
<1>1. BufferLength \in Nat /\ BufferLength >= 7 /\ Len(rest) \in Nat
  BY BufferAssumption
<1>2. b \in [1 .. BufferLength -> Byte]
  BY DEF Buffer
<1>3. b[BufferLength] = 0
  BY <1>1 DEF ByteAt
<1>4. \A i \in 1 .. 7 : b[i] = ByteAt(rest, i) /\ b[i] \in Nat
  BY <1>1, <1>2, NumbersAreNumbers
<1>5. /\ Short(b, 2) \in Nat
       /\ Short(b, 2) = 256 * ByteAt(rest, 2) + ByteAt(rest, 3)
       /\ Long(b, 3) \in Nat
       /\ Long(b, 3) = 16777216 * ByteAt(rest, 3) + 65536 * ByteAt(rest, 4)
                        + 256 * ByteAt(rest, 5) + ByteAt(rest, 6)
  <2>1. /\ b[2] = ByteAt(rest, 2) /\ b[3] = ByteAt(rest, 3) /\ b[4] = ByteAt(rest, 4)
        /\ b[5] = ByteAt(rest, 5) /\ b[6] = ByteAt(rest, 6)
    BY <1>4
  <2> QED
    BY <1>2, <2>1, NumbersAreNumbers
<1>6. rest # <<>> <=> Len(rest) > 0
  OBVIOUS
<1>7. rest # <<>> => rest[1] = b[1]
  BY <1>1, <1>4, <1>6 DEF ByteAt
<1>8. CASE rest = <<>>
  BY <1>6, <1>8 DEF ManageUdp, Readable, Text
<1>9. CASE rest # <<>> /\ b[1] = 0 /\ b[2] \in {0, 1}
  <2>1. text = Numeral("INT", b[2] = 1 /\ Long(b, 3) # 0, Long(b, 3), 0)
    BY <1>1, <1>6, <1>9 DEF ManageUdp
  <2>2. Readable(rest)
    BY <1>4, <1>7, <1>9 DEF Readable
  <2>3. Long(b, 3) \in Nat /\ Long(b, 3) = Numerator(rest)
    BY <1>7, <1>9, <1>5 DEF Numerator
  <2>4. (b[2] = 1 /\ Long(b, 3) # 0) = (ByteAt(rest, 2) = 1 /\ Numerator(rest) # 0)
    BY <1>4, <2>3
  <2>5. text \in [kind : {"INT", "SHORT_REAL", "FLOAT"}, minus : BOOLEAN,
                  digits : Nat, decimals : Nat]
    BY <2>1, <2>3 DEF Numeral
  <2>6. Denotes(text, rest)
    <3>1. /\ text.kind = "INT" /\ text.decimals = 0 /\ text.digits = Numerator(rest)
      BY <2>1, <2>3 DEF Numeral
    <3>2. text.minus = (ByteAt(rest, 2) = 1 /\ Numerator(rest) # 0)
      BY <2>1, <2>4 DEF Numeral
    <3> HIDE DEF text
    <3> QED
      BY SMT, <1>7, <1>9, <3>1, <3>2 DEF Denotes
  <2> QED
    BY <2>2, <2>5, <2>6, NoTextAssumption DEF Text
<1>10. CASE rest # <<>> /\ b[1] = 1
  <2>1. text = Numeral("SHORT_REAL", FALSE, Short(b, 2) * 10000, 6)
    BY <1>1, <1>6, <1>10 DEF ManageUdp
  <2>2. Readable(rest)
    BY <1>4, <1>7, <1>10 DEF Readable
  <2>3. Short(b, 2) \in Nat /\ Short(b, 2) = Numerator(rest)
    BY <1>7, <1>10, <1>5 DEF Numerator
  <2>4. text \in [kind : {"INT", "SHORT_REAL", "FLOAT"}, minus : BOOLEAN,
                  digits : Nat, decimals : Nat]
    BY <2>1, <2>3 DEF Numeral
  <2>5. Denotes(text, rest)
    <3>1. /\ text.kind = "SHORT_REAL" /\ text.decimals = 6 /\ ~text.minus
          /\ text.digits = Numerator(rest) * 10000 /\ Numerator(rest) \in Nat
      BY <2>1, <2>3 DEF Numeral
    <3>2. text.digits * 100 = Numerator(rest) * 1000000
      BY <3>1
    <3> HIDE DEF text
    <3> QED
      BY SMT, <1>7, <1>10, <3>1, <3>2 DEF Denotes
  <2> QED
    BY <2>2, <2>4, <2>5, NoTextAssumption DEF Text
<1>11. CASE rest # <<>> /\ b[1] = 2 /\ b[2] \in {0, 1}
  <2>1. text = Numeral("FLOAT", b[2] = 1, Long(b, 3), b[7])
    BY <1>1, <1>6, <1>11 DEF ManageUdp
  <2>2. Readable(rest)
    BY <1>4, <1>7, <1>11 DEF Readable
  <2>3. Long(b, 3) \in Nat /\ Long(b, 3) = Numerator(rest)
    BY <1>7, <1>11, <1>5 DEF Numerator
  <2>4. (b[2] = 1) = (ByteAt(rest, 2) = 1)
    BY <1>4
  <2>5. text \in [kind : {"INT", "SHORT_REAL", "FLOAT"}, minus : BOOLEAN,
                  digits : Nat, decimals : Nat]
    BY <1>4, <2>1, <2>3 DEF Numeral
  <2>6. Denotes(text, rest)
    <3>1. /\ text.kind = "FLOAT" /\ text.decimals = ByteAt(rest, 7)
          /\ text.digits = Numerator(rest)
      BY <1>4, <2>1, <2>3 DEF Numeral
    <3>2. text.minus = (ByteAt(rest, 2) = 1)
      BY <2>1, <2>4 DEF Numeral
    <3> HIDE DEF text
    <3> QED
      BY SMT, <1>7, <1>11, <3>1, <3>2 DEF Denotes
  <2> QED
    BY <2>2, <2>5, <2>6, NoTextAssumption DEF Text
<1>12. CASE rest # <<>> /\ b[1] = 3
  <2>1. text = CString(b, 2)
    BY <1>1, <1>6, <1>12 DEF ManageUdp
  <2>2. Readable(rest)
    BY <1>4, <1>7, <1>12 DEF Readable
  <2>3. /\ text \in [kind : {"STRING"}, chars : Seq(Byte)]
        /\ Len(text.chars) + 2 \in 1 .. BufferLength
        /\ b[Len(text.chars) + 2] = 0
        /\ \A i \in DOMAIN text.chars :
             i + 1 \in 1 .. BufferLength /\ text.chars[i] = b[i + 1] /\ b[i + 1] # 0
    BY <1>2, <1>3, <2>1, StringIsPrefix
  <2>4. Denotes(text, rest)
    <3> HIDE DEF text
    <3> QED
      <4>1. \A i \in 1 .. BufferLength : b[i] = ByteAt(rest, i)
        OBVIOUS
      <4> HIDE DEF b
      <4>2. /\ \A i \in DOMAIN text.chars :
                 text.chars[i] = ByteAt(rest, i + 1) /\ text.chars[i] # 0
            /\ ByteAt(rest, Len(text.chars) + 2) = 0
        BY <2>3, <4>1
      <4>3. text.kind = "STRING" /\ rest[1] = 3
        BY <1>7, <1>12, <2>3
      <4> QED
        BY <4>2, <4>3 DEF Denotes
  <2>5. text # NoText
    <3>1. text \in [kind : {"STRING"}, chars : Seq(Nat)]
      <4>1. \A s \in Seq(Byte) : s \in Seq(Nat)
        BY ByteIsNat
      <4> QED
        BY <2>3, <4>1
    <3> QED
      BY <3>1, NoTextAssumption
  <2> QED
    BY <2>2, <2>3, <2>4, <2>5 DEF Text
<1>13. CASE /\ rest # <<>> /\ b[1] # 1 /\ b[1] # 3
            /\ ~(b[1] \in {0, 2} /\ b[2] \in {0, 1})
  <2>1. text = NoText
    BY <1>6, <1>13 DEF ManageUdp
  <2>2. ~Readable(rest)
    BY <1>4, <1>7, <1>13 DEF Readable
  <2> QED
    BY <2>1, <2>2 DEF Text
<1> QED
  BY <1>8, <1>9, <1>10, <1>11, <1>12, <1>13

-----------------------------------------------------------------------------
(***************************************************************************)
(* The publishers.                                                         *)
(***************************************************************************)

\* What parse_args returns for a command line that it accepts.
LEMMA AcceptedArgs ==
  ASSUME NEW given \in CommandLine, Accepted(given)
  PROVE  /\ Parsed(given).input_file \in Seq(Payload)
         /\ Parsed(given).source_port \in Nat
         /\ Parsed(given).mode \in Mode
         /\ Parsed(given).count \in Int \cup {NotGiven}
         /\ Parsed(given).delay \in Int
<1>1. /\ given.input_file \in FileName \cup {NotGiven}
      /\ given.source_port \in Number /\ given.mode \in Mode \cup {NotGiven, Word}
      /\ given.count \in Number /\ given.delay \in Number
  BY DEF CommandLine
<1>2. File(given) \in Seq(Payload)
  <2>1. Given(given.input_file, "sample_payloads.json") \in FileName
    BY <1>1, FileAssumption DEF Given
  <2> QED
    BY <2>1, FileAssumption DEF File, Accepted
<1>3. Given(given.source_port, 0) \in Nat
  <2>1. given.source_port = NotGiven \/ UnprivilegedPort(given.source_port)
    BY DEF Accepted
  <2>2. \A x : UnprivilegedPort(x) => x \in Nat
    <3>1. MinValue \in Nat /\ MaxValue \in Nat
      BY DEF MinValue, MaxValue
    <3>2. \A x \in MinValue .. MaxValue : x \in Nat
      BY <3>1
    <3> QED
      BY <3>2 DEF UnprivilegedPort
  <2> QED
    BY <2>1, <2>2 DEF Given
<1>4. Given(given.mode, "all_once") \in Mode
  BY <1>1 DEF Accepted, Given, Mode
<1>5. given.count \in Int \cup {NotGiven}
  BY DEF Accepted
<1>6. Given(given.delay, 0) \in Int
  BY DEF Accepted, Given
<1> QED
  BY <1>2, <1>3, <1>4, <1>5, <1>6 DEF Parsed

\* Nobody has sent anything, and the buffer is empty.
LEMMA InitCorrect == Init => PInv
<1> SUFFICES ASSUME Init PROVE PInv
  OBVIOUS
<1> USE DEF Init, DatagramsInit, PublisherInit
<1>1. DatagramsTypeOK
  BY DEF DatagramsTypeOK
<1>2. PublisherTypeOK
  <2>1. commandLine \in [Publisher -> CommandLine]
    BY CommandLinesAssumption
  <2> QED
    BY <2>1 DEF PublisherTypeOK
<1>3. udp_recv \in Buffer
  BY DEF Buffer, Byte
<1>4. log \in Seq([datagram : Datagram, topic : Topic \cup {NoTopic}, text : Text])
  OBVIOUS
<1>5. Bookkeeping
  BY DEF Bookkeeping, BookOf
<1> QED
  BY <1>1, <1>2, <1>3, <1>4, <1>5 DEF PInv, TypeOK

\* The books of a publisher whose own state stays as it is.
LEMMA BookLocal ==
  ASSUME NEW q \in Publisher, BookOf(q),
         stage'[q] = stage[q], commandLine'[q] = commandLine[q],
         message'[q] = message[q], count'[q] = count[q], sent'[q] = sent[q],
         bound'[q] = bound[q], \A e \in lost' : e[1] = q => e \in lost
  PROVE  BookOf(q)'
<1>1. Args(q)' = Args(q) /\ List(q)' = List(q)
  BY DEF Args, List
<1> QED
  BY <1>1 DEF BookOf

\* A publisher that only changes its stage, its socket and what it read.
LEMMA StageKeeps ==
  ASSUME PInv, NEW p \in Publisher,
         UNCHANGED <<queue, lost, serverUp, commandLine, message, typed, sent, udp_recv, log>>,
         NEW how \in {"parse", "bind", "loop", "sleep"} \cup Ended,
         stage' = [stage EXCEPT ![p] = how],
         NEW socket \in [address : Local, port : Nat] \cup {Unbound},
         bound' = [bound EXCEPT ![p] = socket],
         NEW n \in Nat, count' = [count EXCEPT ![p] = n],
         NEW r \in Nat, read' = [read EXCEPT ![p] = r],
         BookOf(p)'
  PROVE  PInv'
<1>1. TypeOK'
  BY DEF PInv, TypeOK, DatagramsTypeOK, PublisherTypeOK
<1>2. \A q \in Publisher : q # p => BookOf(q)'
  <2> TAKE q \in Publisher
  <2> HAVE q # p
  <2>1. stage'[q] = stage[q] /\ count'[q] = count[q] /\ bound'[q] = bound[q]
    BY DEF PInv, TypeOK, DatagramsTypeOK, PublisherTypeOK
  <2>2. BookOf(q)
    BY DEF PInv, Bookkeeping
  <2> QED
    BY <2>1, <2>2, BookLocal
<1>3. Bookkeeping'
  BY <1>2 DEF Bookkeeping
<1> QED
  BY <1>1, <1>3 DEF PInv

-----------------------------------------------------------------------------
\* Everything a publisher does but sending.
LEMMA QuietKeeps ==
  ASSUME PInv, NEW p \in Publisher, UNCHANGED <<udp_recv, log>>,
         \/ Parse(p) \/ Refuse(p) \/ Bind(p) \/ BindRaises(p)
         \/ MenuRaises(p) \/ Wake(p) \/ Interrupt(p)
  PROVE  PInv'
<1> USE DEF kernel, Finish
<1>1. /\ stage[p] \in {"parse", "bind", "loop", "sleep"} \cup Ended
      /\ count[p] \in Nat /\ read[p] \in Nat
      /\ bound[p] \in [address : Local, port : Nat] \cup {Unbound}
      /\ commandLine[p] \in CommandLine /\ BookOf(p)
  BY DEF PInv, TypeOK, DatagramsTypeOK, PublisherTypeOK, Bookkeeping
<1>2. /\ stage \in [Publisher -> {"parse", "bind", "loop", "sleep"} \cup Ended]
      /\ bound \in [Publisher -> [address : Local, port : Nat] \cup {Unbound}]
      /\ count = [count EXCEPT ![p] = count[p]] /\ read = [read EXCEPT ![p] = read[p]]
      /\ bound = [bound EXCEPT ![p] = bound[p]] /\ count \in [Publisher -> Nat]
  BY DEF PInv, TypeOK, DatagramsTypeOK, PublisherTypeOK
<1>3. Args(p)' = Args(p) /\ List(p)' = List(p)
  BY DEF Args, List, Parse, Refuse, Bind, BindRaises, MenuRaises, Wake, Interrupt
<1>4. CASE Parse(p)
  <2>1. BookOf(p)'
    BY <1>1, <1>2, <1>3, <1>4 DEF Parse, BookOf
  <2>2. stage' = [stage EXCEPT ![p] = "bind"] /\ "bind" \in {"parse", "bind", "loop", "sleep"} \cup Ended
    BY <1>4 DEF Parse
  <2> QED
    BY <1>1, <1>2, <1>4, <2>1, <2>2, StageKeeps DEF Parse
<1>5. CASE Refuse(p)
  <2>1. BookOf(p)'
    BY <1>1, <1>2, <1>3, <1>5 DEF Refuse, BookOf
  <2> QED
    BY <1>1, <1>2, <1>5, <2>1, StageKeeps DEF Refuse, Ended
<1>6. CASE Bind(p)
  <2>1. Accepted(commandLine[p])
    BY <1>1, <1>6 DEF Bind, BookOf
  <2>2. Args(p).source_port \in Nat
    BY <1>1, <2>1, AcceptedArgs DEF Args
  <2>3. PICK port \in PortsFor(Args(p).source_address, Args(p).source_port) :
          bound' = [bound EXCEPT ![p] = [address |-> Args(p).source_address, port |-> port]]
    BY <1>6 DEF Bind
  <2>4. port \in Nat /\ Args(p).source_address \in Local
    BY <2>2, <2>3, PortAssumption DEF PortsFor
  <2> DEFINE socket == [address |-> Args(p).source_address, port |-> port]
  <2>5. socket \in [address : Local, port : Nat] /\ socket # Unbound
    BY <2>4, UnboundAssumption
  <2>6. bound' = [bound EXCEPT ![p] = socket]
    BY <2>3
  <2> HIDE DEF socket
  <2>7. stage' = [stage EXCEPT ![p] = "loop"] /\ stage[p] = "bind"
        /\ UNCHANGED <<queue, lost, serverUp, commandLine, message, count, typed, read, sent>>
    BY <1>6 DEF Bind
  <2>8. BookOf(p)'
    BY <1>1, <1>2, <1>3, <2>1, <2>5, <2>6, <2>7 DEF BookOf
  <2> QED
    BY <1>1, <1>2, <2>5, <2>6, <2>7, <2>8, StageKeeps
<1>7. CASE BindRaises(p)
  <2>1. stage' = [stage EXCEPT ![p] = "raised"] /\ stage[p] = "bind"
        /\ bound' = [bound EXCEPT ![p] = Unbound]
        /\ UNCHANGED <<queue, lost, serverUp, commandLine, message, count, typed, read, sent>>
    BY <1>7 DEF BindRaises
  <2>2. BookOf(p)'
    BY <1>1, <1>2, <1>3, <2>1 DEF BookOf
  <2> QED
    BY <1>1, <1>2, <2>1, <2>2, StageKeeps DEF Ended
<1>8. CASE Wake(p)
  <2> DEFINE n == IF Args(p).mode = "random" THEN count[p] + 1 ELSE count[p]
  <2>1. n \in Nat /\ count' = [count EXCEPT ![p] = n]
    <3>1. CASE Args(p).mode = "random"
      BY <1>1, <1>8, <3>1 DEF Wake
    <3>2. CASE Args(p).mode # "random"
      BY <1>1, <1>2, <1>8, <3>2 DEF Wake
    <3> QED
      BY <3>1, <3>2
  <2>2. stage' = [stage EXCEPT ![p] = "loop"] /\ stage[p] = "sleep"
        /\ UNCHANGED <<bound, queue, lost, serverUp, commandLine, message, typed, read, sent>>
    BY <1>8 DEF Wake
  <2>3. BookOf(p)'
    BY <1>1, <1>2, <1>3, <2>1, <2>2 DEF BookOf
  <2> HIDE DEF n
  <2> QED
    BY <1>1, <1>2, <2>1, <2>2, <2>3, StageKeeps
<1>9. CASE Interrupt(p)
  <2>1. stage' = [stage EXCEPT ![p] = "interrupted"]
        /\ bound' = [bound EXCEPT ![p] = Unbound]
        /\ UNCHANGED <<queue, lost, serverUp, commandLine, message, count, typed, read, sent>>
    BY <1>9 DEF Interrupt
  <2>2. BookOf(p)'
    BY <1>1, <1>2, <1>3, <2>1 DEF BookOf
  <2> QED
    BY <1>1, <1>2, <2>1, <2>2, StageKeeps DEF Ended
<1>10. CASE MenuRaises(p)
  <2>1. stage' = [stage EXCEPT ![p] = "raised"] /\ stage[p] = "loop"
        /\ bound' = [bound EXCEPT ![p] = Unbound]
        /\ UNCHANGED <<queue, lost, serverUp, commandLine, message, count, typed, read, sent>>
    BY <1>10 DEF MenuRaises, Looping
  <2>2. BookOf(p)'
    BY <1>1, <1>2, <1>3, <2>1 DEF BookOf
  <2> QED
    BY <1>1, <1>2, <2>1, <2>2, StageKeeps DEF Ended
<1> QED
  BY <1>4, <1>5, <1>6, <1>7, <1>8, <1>9, <1>10

\* The user typing.
LEMMA TypeKeeps ==
  ASSUME PInv, NEW p \in Publisher, Type(p), UNCHANGED <<udp_recv, log>>
  PROVE  PInv'
<1> USE DEF Type, kernel
<1>1. typed' \in [Publisher -> Seq(Line)]
  BY DEF PInv, TypeOK, PublisherTypeOK
<1>2. TypeOK'
  BY <1>1 DEF PInv, TypeOK, DatagramsTypeOK, PublisherTypeOK
<1>3. \A q \in Publisher : BookOf(q)'
  <2> TAKE q \in Publisher
  <2>1. BookOf(q)
    BY DEF PInv, Bookkeeping
  <2> QED
    BY <2>1, BookLocal
<1> QED
  BY <1>2, <1>3 DEF PInv, Bookkeeping

-----------------------------------------------------------------------------
\* What send_message does, from a turn of a loop on: either nothing is sent
\* and the publisher raises, or the payload is sent and it sleeps or raises.
LEMMA SendOutcomes ==
  ASSUME NEW p \in Publisher, NEW k, SendMessage(p, k)
  PROVE  /\ message' = [message EXCEPT ![p] = k]
         /\ UNCHANGED <<serverUp, commandLine, count, typed>>
         /\ \/ /\ UNCHANGED <<queue, lost, sent>>
               /\ stage' = [stage EXCEPT ![p] = "raised"]
               /\ bound' = [bound EXCEPT ![p] = Unbound]
            \/ /\ List(p)[k].sendable
               /\ sent' = [sent EXCEPT ![p] = Append(@, k)]
               /\ Transmit([by |-> p, nth |-> Len(sent[p]) + 1, from |-> bound[p].port,
                            payload |-> List(p)[k]],
                           Args(p).server_ip, Args(p).server_port)
               /\ \/ Sound(p, k) /\ stage' = [stage EXCEPT ![p] = "sleep"] /\ bound' = bound
                  \/ /\ stage' = [stage EXCEPT ![p] = "raised"]
                     /\ bound' = [bound EXCEPT ![p] = Unbound]
<1>1. CASE List(p)[k].sendable /\ Args(p).server_ip \in IPv4
  BY <1>1 DEF SendMessage, Finish, Sound
<1>2. CASE ~(List(p)[k].sendable /\ Args(p).server_ip \in IPv4)
  BY <1>2 DEF SendMessage, Finish
<1> QED
  BY <1>1, <1>2

\* What sendto does with a datagram.
LEMMA TransmitOutcomes ==
  ASSUME NEW d \in Datagram, NEW address, NEW port, DatagramsTypeOK,
         Transmit(d, address, port)
  PROVE  /\ queue' \in Seq(Datagram) /\ lost' \subseteq Publisher \X Nat
         /\ \/ queue' = Append(queue, d) /\ lost' = lost
            \/ queue' = queue /\ lost' = lost \cup {<<d.by, d.nth>>}
<1>1. d.by \in Publisher /\ d.nth \in Nat
  BY DEF Datagram
<1>2. queue \in Seq(Datagram) /\ lost \subseteq Publisher \X Nat
  BY DEF DatagramsTypeOK
<1>3. Append(queue, d) \in Seq(Datagram)
  BY <1>2, AppendProperties
<1> QED
  BY <1>1, <1>2, <1>3 DEF Transmit

\* Sending keeps the books.  The turn of the loop has seen to k; what was
\* read may have changed, by one line.
LEMMA SendKeeps ==
  ASSUME PInv, NEW p \in Publisher, NEW k \in DOMAIN List(p), stage[p] = "loop",
         Args(p).mode = "all_once" => k = message[p] + 1,
         SendMessage(p, k), UNCHANGED <<udp_recv, log>>,
         read' \in [Publisher -> Nat]
  PROVE  PInv'
<1> DEFINE d == [by |-> p, nth |-> Len(sent[p]) + 1, from |-> bound[p].port,
                 payload |-> List(p)[k]]
<1>1. /\ DatagramsTypeOK /\ PublisherTypeOK /\ udp_recv \in Buffer
      /\ log \in Seq([datagram : Datagram, topic : Topic \cup {NoTopic}, text : Text])
      /\ BookOf(p)
  BY DEF PInv, TypeOK, Bookkeeping
<1>2. /\ Accepted(commandLine[p]) /\ bound[p] # Unbound /\ commandLine[p] \in CommandLine
      /\ bound[p] \in [address : Local, port : Nat] \cup {Unbound}
  BY <1>1 DEF BookOf, PublisherTypeOK, DatagramsTypeOK
<1>3. List(p) \in Seq(Payload) /\ Args(p).mode \in Mode
  BY <1>2, AcceptedArgs DEF List, Args
<1>4. /\ k \in Nat /\ List(p)[k] \in Payload
      /\ sent[p] \in Seq(Nat) /\ Len(sent[p]) \in Nat /\ bound[p].port \in Nat
  BY <1>1, <1>2, <1>3 DEF PublisherTypeOK
<1>5. d \in Datagram /\ d.by = p /\ d.nth = Len(sent[p]) + 1
  BY <1>4 DEF Datagram
<1> HIDE DEF d
<1>6. /\ Append(sent[p], k) \in Seq(Nat)
      /\ Len(Append(sent[p], k)) = Len(sent[p]) + 1
      /\ \A i \in DOMAIN Append(sent[p], k) :
           \/ i \in DOMAIN sent[p] /\ Append(sent[p], k)[i] = sent[p][i]
           \/ i = Len(sent[p]) + 1 /\ Append(sent[p], k)[i] = k
      /\ DOMAIN Append(sent[p], k) = 1 .. Len(sent[p]) + 1
      /\ DOMAIN sent[p] = 1 .. Len(sent[p])
  BY <1>4
<1>7. /\ message' = [message EXCEPT ![p] = k]
      /\ UNCHANGED <<serverUp, commandLine, count, typed>>
      /\ \/ /\ UNCHANGED <<queue, lost, sent>>
            /\ stage' = [stage EXCEPT ![p] = "raised"]
            /\ bound' = [bound EXCEPT ![p] = Unbound]
         \/ /\ sent' = [sent EXCEPT ![p] = Append(sent[p], k)]
            /\ Transmit(d, Args(p).server_ip, Args(p).server_port)
            /\ \/ stage' = [stage EXCEPT ![p] = "sleep"] /\ bound' = bound
               \/ /\ stage' = [stage EXCEPT ![p] = "raised"]
                  /\ bound' = [bound EXCEPT ![p] = Unbound]
  BY SendOutcomes DEF d
<1>8. /\ queue' \in Seq(Datagram) /\ lost' \subseteq Publisher \X Nat
      /\ lost' \subseteq lost \cup {<<p, Len(sent[p]) + 1>>}
      /\ sent' = sent => lost' = lost
  <2>1. CASE UNCHANGED <<queue, lost, sent>>
    BY <1>1, <2>1 DEF DatagramsTypeOK
  <2>2. CASE /\ sent' = [sent EXCEPT ![p] = Append(sent[p], k)]
             /\ Transmit(d, Args(p).server_ip, Args(p).server_port)
    <3>1. sent' # sent
      <4>1. Append(sent[p], k) # sent[p]
        BY <1>4, <1>6
      <4> QED
        BY <2>2, <4>1 , <1>1 DEF PublisherTypeOK
    <3> QED
      BY <1>1, <1>5, <2>2, <3>1, TransmitOutcomes
  <2> QED
    BY <1>7, <2>1, <2>2
<1>9. TypeOK'
  <2>1. DatagramsTypeOK'
    BY <1>1, <1>7, <1>8 DEF DatagramsTypeOK
  <2>2. PublisherTypeOK'
    <3>1. PICK how \in {"sleep", "raised"} : stage' = [stage EXCEPT ![p] = how]
      BY <1>7
    <3>2. sent' \in [Publisher -> Seq(Nat)]
      BY <1>1, <1>6, <1>7 DEF PublisherTypeOK
    <3>3. message' \in [Publisher -> Nat]
      BY <1>1, <1>4, <1>7 DEF PublisherTypeOK
    <3>4. stage' \in [Publisher -> {"parse", "bind", "loop", "sleep"} \cup Ended]
      BY <1>1, <3>1 DEF PublisherTypeOK, Ended
    <3> QED
      BY <1>1, <1>7, <3>2, <3>3, <3>4 DEF PublisherTypeOK
  <2> QED
    BY <1>1, <2>1, <2>2 DEF TypeOK
<1>10. BookOf(p)'
  <2>1. Args(p)' = Args(p) /\ List(p)' = List(p)
    BY <1>7 DEF Args, List
  <2>2. /\ \A i \in DOMAIN sent[p] : sent[p][i] \in DOMAIN List(p)
        /\ \A e \in lost : e[1] = p => e[2] \in DOMAIN sent[p]
        /\ Args(p).mode = "all_once" => message[p] = Len(sent[p])
        /\ Args(p).mode = "random" => count[p] = Len(sent[p])
    BY <1>1 DEF BookOf
  <2>3. CASE UNCHANGED <<queue, lost, sent>>
    BY <1>1, <1>2, <1>7, <2>1, <2>2, <2>3 DEF BookOf, PublisherTypeOK
  <2>4. CASE sent' = [sent EXCEPT ![p] = Append(sent[p], k)]
    <3>1. sent'[p] = Append(sent[p], k) /\ message'[p] = k /\ count' = count
      BY <1>1, <1>7, <2>4 DEF PublisherTypeOK
    <3>2. \A i \in DOMAIN sent'[p] : sent'[p][i] \in DOMAIN List(p)
      BY <1>6, <2>2, <3>1
    <3>3. \A e \in lost' : e[1] = p => e[2] \in DOMAIN sent'[p]
      BY <1>4, <1>6, <1>8, <2>2, <3>1
    <3>4. stage'[p] = "raised" \/ (stage'[p] = "sleep" /\ bound' = bound)
      <4>1. stage \in [Publisher -> {"parse", "bind", "loop", "sleep"} \cup Ended]
        BY <1>1 DEF PublisherTypeOK
      <4>2. stage' = [stage EXCEPT ![p] = "raised"] => stage'[p] = "raised"
        BY <4>1
      <4>3. stage' = [stage EXCEPT ![p] = "sleep"] => stage'[p] = "sleep"
        BY <4>1
      <4>4. \/ stage' = [stage EXCEPT ![p] = "raised"]
            \/ stage' = [stage EXCEPT ![p] = "sleep"] /\ bound' = bound
        BY <1>7
      <4> QED
        BY <4>2, <4>3, <4>4
    <3>5. /\ Args(p).mode = "all_once" => message'[p] = Len(sent'[p])
          /\ Args(p).mode = "random" => count'[p] + 1 = Len(sent'[p])
      BY <1>6, <2>2, <3>1
    <3> QED
      BY <1>2, <1>7, <2>1, <3>2, <3>3, <3>4, <3>5 DEF BookOf
  <2> QED
    BY <1>7, <2>3, <2>4
<1>11. \A q \in Publisher : q # p => BookOf(q)'
  <2> TAKE q \in Publisher
  <2> HAVE q # p
  <2>1. /\ stage'[q] = stage[q] /\ message'[q] = message[q] /\ sent'[q] = sent[q]
        /\ bound'[q] = bound[q] /\ count'[q] = count[q] /\ commandLine'[q] = commandLine[q]
    BY <1>1, <1>7 DEF PublisherTypeOK, DatagramsTypeOK
  <2>2. \A e \in lost' : e[1] = q => e \in lost
    BY <1>8
  <2>3. BookOf(q)
    BY DEF PInv, Bookkeeping
  <2> QED
    BY <2>1, <2>2, <2>3, BookLocal
<1> QED
  BY <1>9, <1>10, <1>11 DEF PInv, Bookkeeping
\* A turn of a loop that sends nothing.
LEMMA TurnKeeps ==
  ASSUME PInv, NEW p \in Publisher, stage[p] = "loop",
         UNCHANGED <<queue, lost, serverUp, commandLine, message, count, typed, sent,
                     udp_recv, log>>,
         NEW how \in {"loop", "done", "raised"}, stage' = [stage EXCEPT ![p] = how],
         how = "loop" => bound' = bound,
         how # "loop" => bound' = [bound EXCEPT ![p] = Unbound],
         NEW r \in Nat, read' = [read EXCEPT ![p] = r]
  PROVE  PInv'
<1>1. /\ bound \in [Publisher -> [address : Local, port : Nat] \cup {Unbound}]
      /\ stage \in [Publisher -> {"parse", "bind", "loop", "sleep"} \cup Ended]
      /\ count \in [Publisher -> Nat] /\ count' = [count EXCEPT ![p] = count[p]]
      /\ BookOf(p)
  BY DEF PInv, TypeOK, DatagramsTypeOK, PublisherTypeOK, Bookkeeping
<1>2. Args(p)' = Args(p) /\ List(p)' = List(p)
  BY DEF Args, List
<1>3. BookOf(p)'
  BY <1>1, <1>2 DEF BookOf
<1>4. CASE how = "loop"
  <2>1. bound' = [bound EXCEPT ![p] = bound[p]]
    BY <1>1, <1>4
  <2> QED
    BY <1>1, <1>3, <1>4, <2>1, StageKeeps
<1>5. CASE how # "loop"
  BY <1>1, <1>3, <1>5, StageKeeps DEF Ended
<1> QED
  BY <1>4, <1>5

\* The turns of the three loops.  Each sends or does not.
LEMMA LoopsSplit ==
  ASSUME PInv, NEW p \in Publisher, AllOnce(p) \/ Random(p) \/ Manual(p)
  PROVE  /\ stage[p] = "loop"
         /\ read' \in [Publisher -> Nat]
         /\ \/ \E k \in DOMAIN List(p) :
                 /\ SendMessage(p, k)
                 /\ Args(p).mode = "all_once" => k = message[p] + 1
                 /\ Args(p).mode = "random" => Wanted(p)
            \/ /\ UNCHANGED <<queue, lost, serverUp, commandLine, message, count,
                              typed, sent>>
               /\ \E how \in {"loop", "done", "raised"}, r \in Nat :
                    /\ stage' = [stage EXCEPT ![p] = how]
                    /\ how = "loop" => bound' = bound
                    /\ how # "loop" => bound' = [bound EXCEPT ![p] = Unbound]
                    /\ read' = [read EXCEPT ![p] = r]
                    /\ how = "done" =>
                         \/ Args(p).mode = "all_once" /\ message[p] = Len(List(p))
                         \/ Args(p).mode = "random" /\ ~Wanted(p)
                         \/ Args(p).mode = "manual"
<1> USE DEF Looping, kernel, Finish, Done
<1>1. /\ read \in [Publisher -> Nat] /\ read[p] \in Nat /\ message[p] \in Nat
      /\ stage \in [Publisher -> {"parse", "bind", "loop", "sleep"} \cup Ended]
      /\ commandLine[p] \in CommandLine /\ BookOf(p)
  BY DEF PInv, TypeOK, PublisherTypeOK, Bookkeeping
<1>2. stage[p] = "loop"
  BY DEF AllOnce, Random, Manual
<1>3. List(p) \in Seq(Payload) /\ Len(List(p)) \in Nat /\ DOMAIN List(p) = 1 .. Len(List(p))
  <2>1. Accepted(commandLine[p])
    BY <1>1, <1>2 DEF BookOf
  <2> QED
    BY <1>1, <2>1, AcceptedArgs DEF List, Args
<1>4. CASE AllOnce(p)
  <2>1. Args(p).mode = "all_once" /\ read' = read /\ read = [read EXCEPT ![p] = read[p]]
    BY <1>1, <1>4 DEF AllOnce
  <2>2. CASE message[p] < Len(List(p)) /\ SendMessage(p, message[p] + 1)
    <3>1. message[p] + 1 \in DOMAIN List(p)
      BY <1>1, <1>3, <2>2
    <3> QED
      BY <1>1, <1>2, <2>1, <2>2, <3>1
  <2>3. CASE message[p] = Len(List(p)) /\ Done(p)
    BY <1>1, <1>2, <2>1, <2>3
  <2> QED
    BY <1>4, <2>2, <2>3 DEF AllOnce
<1>5. CASE Random(p)
  <2>1. Args(p).mode = "random" /\ read' = read /\ read = [read EXCEPT ![p] = read[p]]
    BY <1>1, <1>5 DEF Random
  <2>2. CASE Wanted(p) /\ \E k \in DOMAIN List(p) : SendMessage(p, k)
    BY <1>1, <1>2, <2>1, <2>2
  <2>3. CASE /\ Finish(p, "raised")
             /\ UNCHANGED <<queue, lost, serverUp, commandLine, message, count, typed, sent>>
    BY <1>1, <1>2, <2>1, <2>3
  <2>4. CASE ~Wanted(p) /\ Done(p)
    BY <1>1, <1>2, <2>1, <2>4
  <2> QED
    BY <1>5, <2>2, <2>3, <2>4 DEF Random
<1>6. CASE Manual(p)
  <2>1. /\ Args(p).mode = "manual" /\ read' = [read EXCEPT ![p] = read[p] + 1]
        /\ read[p] + 1 \in Nat /\ read' \in [Publisher -> Nat]
    BY <1>1, <1>6 DEF Manual
  <2> DEFINE line == typed[p][read[p] + 1]
  <2>2. CASE line \in Choices(p) /\ SendMessage(p, line + 1)
    <3>1. line + 1 \in DOMAIN List(p)
      <4> HIDE DEF line
      <4> QED
        BY <1>3, <2>2 DEF Choices
    <3> QED
      BY <1>2, <2>1, <2>2, <3>1
  <2>3. CASE Done(p)
    BY <1>2, <2>1, <2>3
  <2>4. CASE /\ Finish(p, "raised")
             /\ UNCHANGED <<queue, lost, serverUp, commandLine, message, count, typed, sent>>
    BY <1>2, <2>1, <2>4
  <2>5. CASE UNCHANGED <<kernel, stage, commandLine, message, count, typed, sent>>
    <3>1. stage' = [stage EXCEPT ![p] = "loop"]
      BY <1>1, <1>2, <2>5
    <3> QED
      BY <1>2, <2>1, <2>5, <3>1
  <2> QED
    BY <1>6, <2>2, <2>3, <2>4, <2>5 DEF Manual
<1> QED
  BY <1>4, <1>5, <1>6

\* A round of a sending loop keeps the invariant: it sends a message or ends.
LEMMA LoopsKeep ==
  ASSUME PInv, NEW p \in Publisher, AllOnce(p) \/ Random(p) \/ Manual(p),
         UNCHANGED <<udp_recv, log>>
  PROVE  PInv'
<1>1. stage[p] = "loop" /\ read' \in [Publisher -> Nat]
  BY LoopsSplit
<1>2. CASE \E k \in DOMAIN List(p) :
             SendMessage(p, k) /\ (Args(p).mode = "all_once" => k = message[p] + 1)
  BY <1>1, <1>2, SendKeeps
<1>3. CASE /\ UNCHANGED <<queue, lost, serverUp, commandLine, message, count, typed, sent>>
           /\ \E how \in {"loop", "done", "raised"}, r \in Nat :
                /\ stage' = [stage EXCEPT ![p] = how]
                /\ how = "loop" => bound' = bound
                /\ how # "loop" => bound' = [bound EXCEPT ![p] = Unbound]
                /\ read' = [read EXCEPT ![p] = r]
  <2>1. PICK how \in {"loop", "done", "raised"}, r \in Nat :
          /\ stage' = [stage EXCEPT ![p] = how]
          /\ how = "loop" => bound' = bound
          /\ how # "loop" => bound' = [bound EXCEPT ![p] = Unbound]
          /\ read' = [read EXCEPT ![p] = r]
    BY <1>3
  <2> QED
    BY <1>1, <1>3, <2>1, TurnKeeps
<1> QED
  BY <1>2, <1>3, LoopsSplit
-----------------------------------------------------------------------------
\* The server takes a datagram: what it makes of it has the types it should.
LEMMA TakeOutcome ==
  ASSUME PInv, Take
  PROVE  \E text \in Text, topic \in Topic \cup {NoTopic} :
           /\ queue # <<>> /\ Head(queue) \in Datagram
           /\ queue' = Tail(queue)
           /\ log' = Append(log, [datagram |-> Head(queue), topic |-> topic, text |-> text])
           /\ udp_recv' \in Buffer
           /\ LET datagram == Head(queue).payload.datagram
              IN IF Readable(datagram.rest)
                 THEN topic = datagram.topic /\ text # NoText /\ Denotes(text, datagram.rest)
                 ELSE text = NoText
<1> DEFINE datagram == Head(queue).payload.datagram
<1>1. queue # <<>> /\ queue \in Seq(Datagram) /\ Head(queue) \in Datagram
  BY DEF Take, PInv, TypeOK, DatagramsTypeOK
<1>2. /\ datagram.topic \in Topic /\ datagram.rest \in Seq(Byte)
      /\ Len(datagram.rest) < BufferLength
  BY <1>1, DatagramFitsAssumption DEF Datagram
<1>3. /\ udp_recv' = Received(Cleared(udp_recv), datagram)
      /\ log' = Append(log, [datagram |-> Head(queue), topic |-> udp_recv'.topic,
                             text |-> ManageUdp(udp_recv', Len(datagram.rest))])
      /\ queue' = Tail(queue)
  BY DEF Take
<1> HIDE DEF datagram
<1>4. /\ udp_recv' \in Buffer
      /\ \A i \in 1 .. BufferLength : udp_recv'.rest[i] = ByteAt(datagram.rest, i)
      /\ datagram.rest # <<>> => udp_recv'.topic = datagram.topic
  BY <1>2, <1>3, BufferHolds
<1>5. udp_recv'.topic \in Topic \cup {NoTopic}
  BY <1>4 DEF Buffer
<1> DEFINE text == ManageUdp(udp_recv', Len(datagram.rest))
<1>6. /\ text \in Text
      /\ Readable(datagram.rest) => text # NoText /\ Denotes(text, datagram.rest)
      /\ ~Readable(datagram.rest) => text = NoText
  <2> DEFINE buffer == udp_recv'
  <2>1. buffer \in Buffer /\ \A i \in 1 .. BufferLength : buffer.rest[i] = ByteAt(datagram.rest, i)
    BY <1>4
  <2>2. text = ManageUdp(buffer, Len(datagram.rest))
    OBVIOUS
  <2> HIDE DEF buffer, text
  <2> QED
    BY <1>2, <2>1, <2>2, TextDenotes
<1> HIDE DEF text
<1>7. Readable(datagram.rest) => udp_recv'.topic = datagram.topic
  BY <1>4 DEF Readable
<1> QED
  BY <1>1, <1>3, <1>4, <1>5, <1>6, <1>7 DEF datagram, text

\* What the server does with the queue keeps the invariant.
LEMMA ServerKeeps ==
  ASSUME PInv, Take \/ ServerStops
  PROVE  PInv'
<1>1. UNCHANGED <<bound, lost, publisher>>
  BY DEF Take, ServerStops
<1>2. Bookkeeping'
  BY <1>1, BookLocal DEF PInv, Bookkeeping, publisher
<1>3. PublisherTypeOK' /\ bound' = bound /\ lost' = lost
  BY <1>1 DEF PInv, TypeOK, PublisherTypeOK, publisher
<1>4. CASE Take
  <2>1. PICK text \in Text, topic \in Topic \cup {NoTopic} :
          /\ queue # <<>> /\ Head(queue) \in Datagram
          /\ queue' = Tail(queue)
          /\ log' = Append(log, [datagram |-> Head(queue), topic |-> topic, text |-> text])
          /\ udp_recv' \in Buffer
    BY <1>4, TakeOutcome
  <2>2. queue' \in Seq(Datagram)
    BY <2>1 DEF PInv, TypeOK, DatagramsTypeOK
  <2>3. log' \in Seq([datagram : Datagram, topic : Topic \cup {NoTopic}, text : Text])
    <3> DEFINE Entry == [datagram : Datagram, topic : Topic \cup {NoTopic}, text : Text]
               e == [datagram |-> Head(queue), topic |-> topic, text |-> text]
    <3>1. e \in Entry /\ log \in Seq(Entry) /\ log' = Append(log, e)
      BY <2>1 DEF PInv, TypeOK
    <3> HIDE DEF Entry, e
    <3>2. log' \in Seq(Entry)
      BY <3>1, AppendProperties
    <3> QED
      BY <3>2 DEF Entry
  <2>4. serverUp' = serverUp
    BY <1>4 DEF Take
  <2> QED
    BY <1>2, <1>3, <2>1, <2>2, <2>3, <2>4 DEF PInv, TypeOK, DatagramsTypeOK
<1>5. CASE ServerStops
  BY <1>2, <1>3, <1>5 DEF ServerStops, PInv, TypeOK, DatagramsTypeOK
<1> QED
  BY <1>4, <1>5

-----------------------------------------------------------------------------
\* Every step keeps the invariant.
LEMMA NextKeeps ==
  ASSUME PInv, [Next]_vars
  PROVE  PInv'
<1>1. ASSUME NEW p \in Publisher, UNCHANGED <<udp_recv, log>>,
             PublisherStep(p) \/ Type(p) \/ Interrupt(p)
      PROVE  PInv'
  BY <1>1, QuietKeeps, LoopsKeep, TypeKeeps DEF PublisherStep
<1>2. CASE Take \/ ServerStops
  BY <1>2, ServerKeeps
<1>3. CASE UNCHANGED vars
  <2> USE <1>3 DEF vars, kernel, publisher
  <2>1. TypeOK'
    BY DEF PInv, TypeOK, DatagramsTypeOK, PublisherTypeOK
  <2>2. Bookkeeping'
    BY BookLocal DEF PInv, Bookkeeping
  <2> QED
    BY <2>1, <2>2 DEF PInv
<1> QED
  BY <1>1, <1>2, <1>3 DEF Next

\* The state has its type, and what the loops go by is right, in every
\* behaviour.
THEOREM PublishingInvariant == Spec => []PInv
  BY InitCorrect, NextKeeps, PTL DEF Spec

\* Every variable keeps its type: no command line that parse_args accepts
\* brings a publisher where an argument is not what its default promises.
THEOREM TypeCorrect == Spec => []TypeOK
  BY PublishingInvariant, PTL DEF PInv

\* The counters of the loops agree with what was sent.
THEOREM BooksAreRight == Spec => []Bookkeeping
  BY PublishingInvariant, PTL DEF PInv
-----------------------------------------------------------------------------
\* A step of the system, as the promises below see it: which publisher moved
\* and what it did, or what the server did.
LEMMA StepCases ==
  ASSUME PInv, [Next]_vars
  PROVE  \/ \E p \in Publisher : \E k \in DOMAIN List(p) :
              /\ stage[p] = "loop" /\ SendMessage(p, k) /\ UNCHANGED <<udp_recv, log>>
              /\ Args(p).mode = "all_once" => k = message[p] + 1
              /\ Args(p).mode = "random" => Wanted(p)
         \/ /\ UNCHANGED <<queue, lost, commandLine, sent, udp_recv, log>>
            /\ \E p \in Publisher, how \in {"parse", "bind", "loop", "sleep"} \cup Ended :
                 /\ stage[p] \notin Ended
                 /\ stage' = [stage EXCEPT ![p] = how]
                 /\ how = "done" =>
                      /\ stage[p] = "loop"
                      /\ \/ Args(p).mode = "all_once" /\ message[p] = Len(List(p))
                         \/ Args(p).mode = "random" /\ ~Wanted(p)
                         \/ Args(p).mode = "manual"
         \/ Take /\ UNCHANGED <<lost, commandLine, sent, stage>>
         \/ UNCHANGED <<queue, lost, commandLine, sent, stage, udp_recv, log>>
<1> USE DEF kernel, publisher, vars
<1>1. ASSUME NEW p \in Publisher, UNCHANGED <<udp_recv, log>>,
             AllOnce(p) \/ Random(p) \/ Manual(p)
      PROVE  \/ \E k \in DOMAIN List(p) :
                  /\ stage[p] = "loop" /\ SendMessage(p, k)
                  /\ Args(p).mode = "all_once" => k = message[p] + 1
                  /\ Args(p).mode = "random" => Wanted(p)
             \/ /\ UNCHANGED <<queue, lost, commandLine, sent>>
                /\ \E how \in {"parse", "bind", "loop", "sleep"} \cup Ended :
                     /\ stage[p] \notin Ended
                     /\ stage' = [stage EXCEPT ![p] = how]
                     /\ how = "done" =>
                          /\ stage[p] = "loop"
                          /\ \/ Args(p).mode = "all_once" /\ message[p] = Len(List(p))
                             \/ Args(p).mode = "random" /\ ~Wanted(p)
                             \/ Args(p).mode = "manual"
  <2>1. stage[p] = "loop" /\ stage[p] \notin Ended
    BY <1>1, LoopsSplit DEF Ended
  <2>2. {"loop", "done", "raised"} \subseteq {"parse", "bind", "loop", "sleep"} \cup Ended
    BY DEF Ended
  <2> QED
    BY <1>1, <2>1, <2>2, LoopsSplit
<1>2. ASSUME NEW p \in Publisher, UNCHANGED <<udp_recv, log>>,
             \/ Parse(p) \/ Refuse(p) \/ Bind(p) \/ BindRaises(p)
             \/ MenuRaises(p) \/ Wake(p) \/ Interrupt(p)
      PROVE  /\ UNCHANGED <<queue, lost, commandLine, sent>>
             /\ \E how \in {"parse", "bind", "loop", "sleep"} \cup Ended :
                  /\ stage[p] \notin Ended
                  /\ stage' = [stage EXCEPT ![p] = how] /\ how # "done"
  BY <1>2 DEF Parse, Refuse, Bind, BindRaises, MenuRaises, Wake,
       Interrupt, Finish, Looping, Ended
<1>3. ASSUME NEW p \in Publisher, Type(p)
      PROVE  UNCHANGED <<queue, lost, commandLine, sent, stage>>
  BY <1>3 DEF Type
<1>4. CASE Take \/ ServerStops
  BY <1>4 DEF Take, ServerStops
<1>5. CASE UNCHANGED vars
  BY <1>5
<1>6. CASE \E p \in Publisher :
             (PublisherStep(p) \/ Type(p) \/ Interrupt(p)) /\ UNCHANGED <<udp_recv, log>>
  <2>1. PICK p \in Publisher :
          (PublisherStep(p) \/ Type(p) \/ Interrupt(p)) /\ UNCHANGED <<udp_recv, log>>
    BY <1>6
  <2>2. CASE AllOnce(p) \/ Random(p) \/ Manual(p)
    BY <1>1, <2>1, <2>2
  <2>3. CASE \/ Parse(p) \/ Refuse(p) \/ Bind(p) \/ BindRaises(p)
             \/ MenuRaises(p) \/ Wake(p) \/ Interrupt(p)
    BY <1>2, <2>1, <2>3
  <2>4. CASE Type(p)
    BY <1>3, <2>1, <2>4
  <2> QED
    BY <2>1, <2>2, <2>3, <2>4 DEF PublisherStep
<1> QED
  BY <1>4, <1>5, <1>6 DEF Next

\* A publisher that goes on after a datagram, or ends well, has met nothing
\* wrong, and one that raises has sent at most one datagram since.
THEOREM FailuresFinal == Spec => []FailuresAreFinal
<1>1. Init => FailuresAreFinal
  BY DEF Init, PublisherInit, FailuresAreFinal
<1>2. ASSUME PInv, PInv', FailuresAreFinal, [Next]_vars
      PROVE  FailuresAreFinal'
  <2>0. commandLine' = commandLine
    BY <1>2, StepCases, SendOutcomes
  <2>2. \A q \in Publisher : List(q)' = List(q) /\ Args(q)' = Args(q)
    BY <2>0 DEF List, Args
  <2> SUFFICES ASSUME NEW q \in Publisher, NEW i \in DOMAIN sent'[q]
               PROVE  /\ List(q)[sent'[q][i]].sendable
                      /\ \/ Sound(q, sent'[q][i])
                         \/ i = Len(sent'[q]) /\ stage'[q] = "raised"
    <3>1. \A q \in Publisher : \A k : (Sound(q, k) = (List(q)'[k].described /\ Args(q)'.delay >= 0))
      BY <2>2 DEF Sound
    <3> QED
      BY <2>2, <3>1 DEF FailuresAreFinal, Sound
  <2>1. /\ \A j \in DOMAIN sent[q] :
             /\ List(q)[sent[q][j]].sendable
             /\ \/ Sound(q, sent[q][j])
                \/ j = Len(sent[q]) /\ stage[q] = "raised"
        /\ sent \in [Publisher -> Seq(Nat)]
        /\ stage \in [Publisher -> {"parse", "bind", "loop", "sleep"} \cup Ended]
    BY <1>2 DEF FailuresAreFinal, PInv, TypeOK, PublisherTypeOK
  <2>3. CASE UNCHANGED <<commandLine, sent>> /\ (stage[q] = "raised" => stage'[q] = "raised")
    BY <2>1, <2>3
  <2>4. ASSUME NEW p \in Publisher, NEW k \in DOMAIN List(p),
               stage[p] = "loop", SendMessage(p, k)
        PROVE  /\ List(q)[sent'[q][i]].sendable
               /\ \/ Sound(q, sent'[q][i])
                  \/ i = Len(sent'[q]) /\ stage'[q] = "raised"
    <3>1. commandLine' = commandLine
      BY <2>4, SendOutcomes
    <3>2. CASE UNCHANGED <<queue, lost, sent>> /\ stage' = [stage EXCEPT ![p] = "raised"]
      <4>1. stage[q] = "raised" => stage'[q] = "raised"
        BY <2>1, <3>2
      <4> QED
        BY <2>3, <3>1, <3>2, <4>1
    <3>3. CASE /\ List(p)[k].sendable
               /\ sent' = [sent EXCEPT ![p] = Append(sent[p], k)]
               /\ \/ Sound(p, k) /\ stage' = [stage EXCEPT ![p] = "sleep"]
                  \/ stage' = [stage EXCEPT ![p] = "raised"]
      <4>1. CASE q # p
        <5>1. sent'[q] = sent[q] /\ stage'[q] = stage[q]
          BY <2>1, <3>3, <4>1
        <5> QED
          BY <2>1, <5>1
      <4>2. CASE q = p
        <5>1. /\ sent[p] \in Seq(Nat) /\ sent'[p] = Append(sent[p], k)
              /\ stage'[p] = "raised" \/ Sound(p, k)
          BY <2>1, <3>3
        <5>2. \/ i \in DOMAIN sent[p] /\ sent'[p][i] = sent[p][i]
              \/ i = Len(sent'[p]) /\ sent'[p][i] = k
          BY <4>2, <5>1
        <5> QED
          BY <2>1, <2>4, <3>3, <4>2, <5>1, <5>2
      <4> QED
        BY <4>1, <4>2
    <3> QED
      BY <2>4, <3>2, <3>3, SendOutcomes
  <2>5. ASSUME NEW p \in Publisher, NEW how, stage[p] \notin Ended,
               stage' = [stage EXCEPT ![p] = how]
        PROVE  stage[q] = "raised" => stage'[q] = "raised"
    BY <2>1, <2>5 DEF Ended
  <2> QED
    BY <1>2, <2>3, <2>4, <2>5, StepCases
<1> QED
  BY <1>1, <1>2, PublishingInvariant, PTL DEF Spec
-----------------------------------------------------------------------------
(***************************************************************************)
(* A user is obeyed.                                                       *)
(***************************************************************************)

\* Whoever has raised may lack the last; more lines change nothing.
LEMMA ObeysMoreLines ==
  ASSUME NEW s \in Seq(Nat), NEW t \in Seq(Line), NEW n \in Nat, NEW c,
         Obeys(s, t, n, c, FALSE) 
  PROVE  \A b \in BOOLEAN : Obeys(s, t, n, c, b) /\ \A l \in Line : Obeys(s, Append(t, l), n, c, b)
<1>1. PICK at \in [DOMAIN s -> 1 .. n] :
        /\ \A i, j \in DOMAIN s : i < j => at[i] < at[j]
        /\ \A i \in DOMAIN s : s[i] = t[at[i]] + 1
        /\ {at[i] : i \in DOMAIN s} = {j \in 1 .. n : t[j] \in c}
  BY DEF Obeys
<1>2. n <= Len(t) /\ Len(t) \in Nat
  BY DEF Obeys
<1>3. TAKE b \in BOOLEAN
<1>4. Obeys(s, t, n, c, b)
  BY <1>1, <1>2 DEF Obeys
<1>5. ASSUME NEW l \in Line PROVE Obeys(s, Append(t, l), n, c, b)
  <2> DEFINE u == Append(t, l)
  <2>1. Len(u) = Len(t) + 1 /\ \A i \in 1 .. Len(t) : u[i] = t[i]
    BY AppendProperties
  <2> HIDE DEF u
  <2>2. \A j \in 1 .. n : u[j] = t[j]
    BY <1>2, <2>1
  <2>3. n <= Len(u)
    BY <1>2, <2>1
  <2>4. \A i \in DOMAIN s : s[i] = u[at[i]] + 1
    BY <1>1, <2>2
  <2>5. {j \in 1 .. n : t[j] \in c} = {j \in 1 .. n : u[j] \in c}
    BY <2>2
  <2> QED
    BY <1>1, <2>3, <2>4, <2>5 DEF Obeys, u
<1> QED
  BY <1>4, <1>5

\* A line is read that chooses nothing, or is not sent.
LEMMA ObeysUnsent ==
  ASSUME NEW s \in Seq(Nat), NEW t \in Seq(Line), NEW n \in Nat, NEW c, NEW b \in BOOLEAN,
         Obeys(s, t, n, c, FALSE), n < Len(t), t[n + 1] \notin c \/ b
  PROVE  Obeys(s, t, n + 1, c, b)
<1>1. PICK at \in [DOMAIN s -> 1 .. n] :
        /\ \A i, j \in DOMAIN s : i < j => at[i] < at[j]
        /\ \A i \in DOMAIN s : s[i] = t[at[i]] + 1
        /\ {at[i] : i \in DOMAIN s} = {j \in 1 .. n : t[j] \in c}
  BY DEF Obeys
<1> DEFINE served == {at[i] : i \in DOMAIN s}
           chosen == {j \in 1 .. n + 1 : t[j] \in c}
<1>2. n + 1 <= Len(t)
  OBVIOUS
<1>3. at \in [DOMAIN s -> 1 .. n + 1]
  BY <1>1
<1>4. served = chosen \ {n + 1}
  <2>1. {j \in 1 .. n : t[j] \in c} = chosen \ {n + 1}
    OBVIOUS
  <2> QED
    BY <1>1, <2>1
<1>5. t[n + 1] \notin c => served = chosen
  BY <1>4
<1> QED
  BY <1>1, <1>2, <1>3, <1>4, <1>5 DEF Obeys

\* A line is read that chooses something, and that is sent.
LEMMA ObeysSent ==
  ASSUME NEW s \in Seq(Nat), NEW t \in Seq(Line), NEW n \in Nat, NEW c, NEW b \in BOOLEAN,
         Obeys(s, t, n, c, FALSE), n < Len(t), t[n + 1] \in c,
         NEW k \in Nat, k = t[n + 1] + 1
  PROVE  Obeys(Append(s, k), t, n + 1, c, b)
<1>1. PICK at \in [DOMAIN s -> 1 .. n] :
        /\ \A i, j \in DOMAIN s : i < j => at[i] < at[j]
        /\ \A i \in DOMAIN s : s[i] = t[at[i]] + 1
        /\ {at[i] : i \in DOMAIN s} = {j \in 1 .. n : t[j] \in c}
  BY DEF Obeys
<1>2. PICK N \in Nat : N = Len(s) /\ DOMAIN s = 1 .. N
  OBVIOUS
<1>3. PICK M \in Nat : M = N + 1
  OBVIOUS
<1>4. PICK m \in Nat : m = n + 1
  OBVIOUS
<1> DEFINE u == Append(s, k)
           to == [i \in 1 .. M |-> IF i = M THEN m ELSE at[i]]
<1>5. DOMAIN u = 1 .. M /\ u[M] = k /\ \A i \in 1 .. N : u[i] = s[i]
  BY <1>2, <1>3, AppendProperties
<1> HIDE DEF u
<1>6. to \in [1 .. M -> 1 .. m]
  BY <1>1, <1>2, <1>3, <1>4
<1>7. /\ to[M] = m /\ M \in 1 .. M
      /\ \A i \in 1 .. N : to[i] = at[i] /\ at[i] \in 1 .. n /\ i \in 1 .. M
  BY <1>1, <1>2, <1>3
<1> HIDE DEF to
<1>8. \A i \in 1 .. M : i = M \/ i \in 1 .. N
  BY <1>3
<1>9. ASSUME NEW i \in 1 .. M, NEW j \in 1 .. M, i < j PROVE to[i] < to[j]
  <2>1. i \in 1 .. N
    BY <1>3, <1>9
  <2>2. CASE j = M
    BY <1>4, <1>7, <2>1, <2>2
  <2>3. CASE j \in 1 .. N
    BY <1>1, <1>2, <1>7, <1>9, <2>1, <2>3
  <2> QED
    BY <1>8, <2>2, <2>3
<1>10. \A i \in 1 .. M : u[i] = t[to[i]] + 1
  BY <1>1, <1>2, <1>4, <1>5, <1>7, <1>8
<1>11. {to[i] : i \in 1 .. M} = {j \in 1 .. m : t[j] \in c}
  <2>1. {to[i] : i \in 1 .. M} = {m} \cup {at[i] : i \in 1 .. N}
    BY <1>3, <1>7, <1>8
  <2>2. {j \in 1 .. m : t[j] \in c} = {m} \cup {j \in 1 .. n : t[j] \in c}
    <3>1. 1 .. m = {m} \cup 1 .. n
      BY <1>4
    <3> QED
      BY <1>4, <3>1
  <2> QED
    BY <1>1, <1>2, <2>1, <2>2
<1>12. m <= Len(t)
  BY <1>4
<1>13. Obeys(u, t, m, c, b)
  <2>1. /\ to \in [DOMAIN u -> 1 .. m]
        /\ \A i, j \in DOMAIN u : i < j => to[i] < to[j]
        /\ \A i \in DOMAIN u : u[i] = t[to[i]] + 1
        /\ {to[i] : i \in DOMAIN u} = {j \in 1 .. m : t[j] \in c}
    BY <1>5, <1>6, <1>9, <1>10, <1>11
  <2> QED
    BY <1>12, <2>1, Zenon DEF Obeys
<1> QED
  BY <1>4, <1>13 DEF u

\* A turn of run_manual.
LEMMA ManualTurn ==
  ASSUME PInv, NEW p \in Publisher, Manual(p)
  PROVE  /\ stage[p] = "loop" /\ read[p] < Len(typed[p])
         /\ UNCHANGED <<commandLine, typed>> /\ read' = [read EXCEPT ![p] = read[p] + 1]
         /\ \E how \in {"loop", "sleep", "done", "raised"} :
              /\ stage' = [stage EXCEPT ![p] = how]
              /\ \/ /\ sent' = sent
                    /\ typed[p][read[p] + 1] \notin Choices(p) \/ how = "raised"
                 \/ /\ typed[p][read[p] + 1] \in Choices(p)
                    /\ sent' = [sent EXCEPT ![p] = Append(@, typed[p][read[p] + 1] + 1)]
<1> DEFINE line == typed[p][read[p] + 1]
<1>1. /\ stage[p] = "loop" /\ read[p] < Len(typed[p])
      /\ read' = [read EXCEPT ![p] = read[p] + 1]
  BY DEF Manual, Looping
<1>2. stage = [stage EXCEPT ![p] = "loop"]
  BY <1>1 DEF PInv, TypeOK, PublisherTypeOK
<1>3. Choices(p) \subseteq Int
  BY DEF Choices
<1>4. CASE line = Exit /\ Done(p)
  BY <1>1, <1>3, <1>4, LineAssumption DEF Done, Finish
<1>5. CASE /\ Finish(p, "raised")
           /\ UNCHANGED <<queue, lost, serverUp, commandLine, message, count, typed, sent>>
  BY <1>1, <1>5 DEF Finish
<1>6. CASE line \in Choices(p) /\ SendMessage(p, line + 1)
  <2> HIDE DEF line
  <2>1. UNCHANGED <<commandLine, typed>>
    BY <1>6, SendOutcomes
  <2>2. \/ sent' = sent /\ stage' = [stage EXCEPT ![p] = "raised"]
        \/ /\ sent' = [sent EXCEPT ![p] = Append(@, line + 1)]
           /\ \E how \in {"sleep", "raised"} : stage' = [stage EXCEPT ![p] = how]
    BY <1>6, SendOutcomes
  <2> QED
    BY <1>1, <1>6, <2>1, <2>2 DEF line
<1>7. CASE line \in Int \ Choices(p) /\ UNCHANGED <<kernel, stage, commandLine, message, count, typed, sent>>
  BY <1>1, <1>2, <1>7
<1> QED
  BY <1>4, <1>5, <1>6, <1>7 DEF Manual

\* All the other steps.
LEMMA OthersRead ==
  ASSUME PInv, [Next]_vars, NEW p \in Publisher, ~Manual(p), Args(p).mode = "manual"
  PROVE  /\ sent'[p] = sent[p] /\ read'[p] = read[p]
         /\ typed'[p] = typed[p] \/ \E line \in Line : typed'[p] = Append(typed[p], line)
         /\ stage[p] = "raised" => stage'[p] = stage[p] /\ typed'[p] = typed[p]
<1>1. /\ sent \in [Publisher -> Seq(Nat)] /\ read \in [Publisher -> Nat]
      /\ typed \in [Publisher -> Seq(Line)]
      /\ stage \in [Publisher -> {"parse", "bind", "loop", "sleep"} \cup Ended]
  BY DEF PInv, TypeOK, PublisherTypeOK
<1> USE DEF kernel, publisher, vars
<1>2. CASE UNCHANGED vars \/ Take \/ ServerStops
  BY <1>2 DEF Take, ServerStops
<1>3. ASSUME NEW q \in Publisher, Type(q)
      PROVE  /\ sent'[p] = sent[p] /\ read'[p] = read[p] /\ stage'[p] = stage[p]
             /\ typed'[p] = typed[p] \/ \E line \in Line : typed'[p] = Append(typed[p], line)
             /\ stage[p] = "raised" => typed'[p] = typed[p]
  <2>1. UNCHANGED <<sent, read, stage>> /\ stage[q] # "raised"
    BY <1>3 DEF Type, Ended
  <2>2. PICK line \in Line : typed' = [typed EXCEPT ![q] = Append(@, line)]
    BY <1>3 DEF Type
  <2>3. typed'[p] = IF p = q THEN Append(typed[p], line) ELSE typed[p]
    BY <1>1, <2>2
  <2> QED
    BY <2>1, <2>3
<1>4. ASSUME NEW q \in Publisher,
             \/ Parse(q) \/ Refuse(q) \/ Bind(q) \/ BindRaises(q)
             \/ MenuRaises(q) \/ Wake(q) \/ Interrupt(q)
      PROVE  /\ UNCHANGED <<sent, read, typed>> /\ (stage'[p] = stage[p] \/ stage[p] # "raised")
  <2>1. UNCHANGED <<sent, read, typed>>
    BY <1>4 DEF Parse, Refuse, Bind, BindRaises, MenuRaises, Wake, Interrupt
  <2>2. /\ stage[q] # "raised"
        /\ \E how : stage' = [stage EXCEPT ![q] = how]
    BY <1>4 DEF Parse, Refuse, Bind, BindRaises, MenuRaises, Wake,
       Interrupt, Finish, Looping, Ended
  <2>3. stage'[p] = stage[p] \/ p = q
    BY <1>1, <2>2
  <2> QED
    BY <2>1, <2>2, <2>3
<1>5. ASSUME NEW q \in Publisher, AllOnce(q) \/ Random(q) \/ Manual(q)
      PROVE  /\ p # q /\ sent'[p] = sent[p] /\ read'[p] = read[p] /\ typed' = typed
             /\ stage'[p] = stage[p]
  <2>1. p # q
    BY <1>5 DEF AllOnce, Random, Looping
  <2>2. read'[p] = read[p]
    BY <1>1, <1>5, <2>1 DEF AllOnce, Random, Manual
  <2>3. CASE \E k : SendMessage(q, k)
    <3>1. PICK k : SendMessage(q, k)
      BY <2>3
    <3>2. /\ typed' = typed
          /\ sent' = sent \/ sent' = [sent EXCEPT ![q] = Append(@, k)]
          /\ \E how : stage' = [stage EXCEPT ![q] = how]
      BY <3>1, SendOutcomes
    <3> QED
      BY <1>1, <2>1, <2>2, <3>2
  <2>4. CASE UNCHANGED <<typed, sent>> /\ \E how : stage' = [stage EXCEPT ![q] = how]
    BY <1>1, <2>1, <2>2, <2>4
  <2> QED
    BY <1>5, <2>3, <2>4, LoopsSplit
<1> QED
  BY <1>2, <1>3, <1>4, <1>5 DEF Next, PublisherStep

\* In manual mode what was chosen is sent, each time and in the order chosen,
\* whatever was typed in between or ahead.
THEOREM UserIsObeyed == Spec => []ManualObeys
<1>1. Init => ManualObeys
  <2> SUFFICES ASSUME Init, NEW p \in Publisher
               PROVE  Obeys(sent[p], typed[p], read[p], 0 .. Len(List(p)) - 1, stage[p] = "raised")
    BY DEF ManualObeys
  <2>1. sent[p] = <<>> /\ typed[p] = <<>> /\ read[p] = 0
    BY DEF Init, PublisherInit
  <2> DEFINE at == [i \in DOMAIN <<>> |-> 0]
  <2>2. /\ DOMAIN <<>> = {} /\ Len(<<>>) = 0 /\ 0 <= 0
        /\ at \in [DOMAIN <<>> -> 1 .. 0] /\ {at[i] : i \in DOMAIN <<>>} = {}
    OBVIOUS
  <2>3. \A c, b : Obeys(<<>>, <<>>, 0, c, b)
    <3> HIDE DEF at
    <3>1. \A c : {j \in 1 .. 0 : <<>>[j] \in c} = {}
      OBVIOUS
    <3> QED
      BY <2>2, <3>1 DEF Obeys
  <2> QED
    BY <2>1, <2>3
<1>2. ASSUME PInv, ManualObeys, [Next]_vars
      PROVE  ManualObeys'
  <2>1. commandLine' = commandLine
    BY <1>2, StepCases, SendOutcomes
  <2> SUFFICES ASSUME NEW p \in Publisher, Args(p).mode = "manual"
               PROVE  Obeys(sent'[p], typed'[p], read'[p], Choices(p), stage'[p] = "raised")
    BY <2>1 DEF ManualObeys, List, Args, Choices
  <2>2. /\ sent \in [Publisher -> Seq(Nat)] /\ read \in [Publisher -> Nat]
        /\ typed \in [Publisher -> Seq(Line)]
        /\ stage \in [Publisher -> {"parse", "bind", "loop", "sleep"} \cup Ended]
    BY <1>2 DEF PInv, TypeOK, PublisherTypeOK
  <2>3. Obeys(sent[p], typed[p], read[p], Choices(p), stage[p] = "raised")
    BY <1>2 DEF ManualObeys, Choices
  <2>4. CASE Manual(p)
    <3>1. /\ stage[p] = "loop" /\ read[p] < Len(typed[p])
          /\ typed' = typed /\ read' = [read EXCEPT ![p] = read[p] + 1]
      BY <1>2, <2>4, ManualTurn
    <3>2. PICK how \in {"loop", "sleep", "done", "raised"} :
            /\ stage' = [stage EXCEPT ![p] = how]
            /\ \/ /\ sent' = sent
                  /\ typed[p][read[p] + 1] \notin Choices(p) \/ how = "raised"
               \/ /\ typed[p][read[p] + 1] \in Choices(p)
                  /\ sent' = [sent EXCEPT ![p] = Append(@, typed[p][read[p] + 1] + 1)]
      BY <1>2, <2>4, ManualTurn
    <3>3. /\ typed'[p] = typed[p] /\ read'[p] = read[p] + 1 /\ stage'[p] = how
          /\ sent[p] \in Seq(Nat) /\ typed[p] \in Seq(Line) /\ read[p] \in Nat
      BY <2>2, <3>1, <3>2
    <3>4. Obeys(sent[p], typed[p], read[p], Choices(p), FALSE)
      BY <2>3, <3>1 DEF Obeys
    <3>5. CASE sent' = sent /\ (typed[p][read[p] + 1] \notin Choices(p) \/ how = "raised")
      BY <3>1, <3>3, <3>4, <3>5, ObeysUnsent
    <3>6. CASE /\ typed[p][read[p] + 1] \in Choices(p)
               /\ sent' = [sent EXCEPT ![p] = Append(@, typed[p][read[p] + 1] + 1)]
      <4>1. PICK k \in Nat : k = typed[p][read[p] + 1] + 1
        BY <3>6 DEF Choices
      <4>2. sent'[p] = Append(sent[p], k)
        BY <2>2, <3>6, <4>1
      <4>3. Obeys(Append(sent[p], k), typed[p], read[p] + 1, Choices(p), stage'[p] = "raised")
        BY <3>1, <3>3, <3>4, <3>6, <4>1, ObeysSent
      <4> QED
        BY <3>3, <4>2, <4>3
    <3> QED
      BY <3>2, <3>5, <3>6
  <2>5. CASE ~Manual(p)
    <3>1. /\ sent'[p] = sent[p] /\ read'[p] = read[p]
          /\ typed'[p] = typed[p] \/ \E line \in Line : typed'[p] = Append(typed[p], line)
          /\ stage[p] = "raised" => stage'[p] = stage[p] /\ typed'[p] = typed[p]
      BY <1>2, <2>5, OthersRead
    <3>2. CASE stage[p] # "raised"
      <4>1. Obeys(sent[p], typed[p], read[p], Choices(p), FALSE)
        BY <2>3, <3>2 DEF Obeys
      <4>2. sent[p] \in Seq(Nat) /\ typed[p] \in Seq(Line) /\ read[p] \in Nat
        BY <2>2
      <4>3. PICK b \in BOOLEAN : b = (stage'[p] = "raised")
        OBVIOUS
      <4>4. /\ Obeys(sent[p], typed[p], read[p], Choices(p), b)
            /\ \A l \in Line : Obeys(sent[p], Append(typed[p], l), read[p], Choices(p), b)
        BY <4>1, <4>2, ObeysMoreLines
      <4>5. Obeys(sent'[p], typed'[p], read'[p], Choices(p), b)
        BY <3>1, <4>4
      <4> QED
        BY <4>3, <4>5, Zenon
    <3>3. CASE stage[p] = "raised"
      BY <2>3, <3>1, <3>3
    <3> QED
      BY <3>2, <3>3
  <2> QED
    BY <2>4, <2>5
<1> QED
  BY <1>1, <1>2, PublishingInvariant, PTL DEF Spec
-----------------------------------------------------------------------------
(***************************************************************************)
(* Publishers implement Workload.                                          *)
(***************************************************************************)

\* A job is what the accepted command line asks for.
LEMMA JobType ==
  ASSUME PublisherTypeOK, NEW p \in Publisher
  PROVE  /\ JobOf(p) \in [mode : Mode, length : Nat, count : Int \cup {Forever}] \cup {NoJob}
         /\ Accepted(commandLine[p]) =>
              /\ JobOf(p) # NoJob
              /\ JobOf(p).mode = Args(p).mode /\ JobOf(p).length = Len(List(p))
              /\ JobOf(p).count = IF Args(p).count = NotGiven THEN Forever ELSE Args(p).count
              /\ Args(p).mode \in Mode /\ List(p) \in Seq(Payload)
              /\ Args(p).count \in Int \cup {NotGiven}
<1>1. CASE Accepted(commandLine[p])
  <2>1. commandLine[p] \in CommandLine
    BY DEF PublisherTypeOK
  <2>2. /\ Args(p).mode \in Mode /\ List(p) \in Seq(Payload)
        /\ Args(p).count \in Int \cup {NotGiven}
    BY <1>1, <2>1, AcceptedArgs DEF Args, List
  <2> DEFINE n == IF Args(p).count = NotGiven THEN Forever ELSE Args(p).count
  <2>3. n \in Int \cup {Forever} /\ Len(List(p)) \in Nat
    BY <2>2
  <2>4. JobOf(p) = [mode |-> Args(p).mode, length |-> Len(List(p)), count |-> n]
    BY <1>1 DEF JobOf
  <2> HIDE DEF n
  <2>5. /\ JobOf(p) \in [mode : Mode, length : Nat, count : Int \cup {Forever}]
        /\ JobOf(p).mode = Args(p).mode /\ JobOf(p).length = Len(List(p))
        /\ JobOf(p).count = n
    BY <2>2, <2>3, <2>4
  <2> QED
    BY <2>2, <2>5, JobAssumption DEF n
<1>2. CASE ~Accepted(commandLine[p])
  BY <1>2 DEF JobOf
<1> QED
  BY <1>1, <1>2

\* At the beginning each publisher's workload is at its beginning.
LEMMA WorkloadInit ==
  ASSUME Init, PInv
  PROVE  W!Init
<1>1. [p \in Publisher |-> JobOf(p)] \in [Publisher -> W!Job \cup {NoJob}]
  BY JobType DEF PInv, TypeOK, W!Job, Mode
<1>2. sent = [p \in Publisher |-> <<>>]
  BY DEF Init, PublisherInit
<1>3. \A p \in Publisher : StatusOf(p) = "running"
  BY DEF Init, PublisherInit, StatusOf, Ended
<1> QED
  BY <1>1, <1>2, <1>3 DEF W!Init

\* Each step of a publisher is one step of its workload, or none.
LEMMA WorkloadStep ==
  ASSUME PInv, PInv', [Next]_vars
  PROVE  [W!Next]_(W!vars)
<1> DEFINE job == [p \in Publisher |-> JobOf(p)]
           status == [p \in Publisher |-> StatusOf(p)]
<1>1. /\ stage \in [Publisher -> {"parse", "bind", "loop", "sleep"} \cup Ended]
      /\ sent \in [Publisher -> Seq(Nat)] /\ count \in [Publisher -> Nat]
      /\ PublisherTypeOK
  BY DEF PInv, TypeOK, PublisherTypeOK
<1>2. commandLine' = commandLine => job' = job
  BY DEF JobOf, Args, List
<1>3. stage' = stage => status' = status
  BY DEF StatusOf
<1>4. ASSUME NEW p \in Publisher, NEW how \in {"parse", "bind", "loop", "sleep"} \cup Ended,
             stage[p] \notin Ended, stage' = [stage EXCEPT ![p] = how]
      PROVE  /\ status[p] = "running"
             /\ \E s \in {"running", "done", "failed"} :
                  /\ status' = [status EXCEPT ![p] = s]
                  /\ s = "running" <=> how \notin Ended
                  /\ s = "done" <=> how = "done"
  <2> DEFINE s == IF how \notin Ended THEN "running"
                  ELSE IF how = "done" THEN "done" ELSE "failed"
  <2>1. status[p] = "running"
    BY <1>4 DEF StatusOf
  <2>2. \A q \in Publisher : StatusOf(q)' = IF q = p THEN s ELSE StatusOf(q)
    BY <1>1, <1>4 DEF StatusOf
  <2>3. status' = [status EXCEPT ![p] = s]
    BY <2>2
  <2> QED
    BY <2>1, <2>3 DEF Ended
<1>5. ASSUME NEW p \in Publisher, stage[p] = "loop"
      PROVE  /\ Accepted(commandLine[p]) /\ BookOf(p)
             /\ job[p] # NoJob /\ job[p].mode = Args(p).mode /\ job[p].length = Len(List(p))
             /\ job[p].count = IF Args(p).count = NotGiven THEN Forever ELSE Args(p).count
             /\ Args(p).mode \in Mode /\ List(p) \in Seq(Payload)
             /\ Args(p).count \in Int \cup {NotGiven}
             /\ Args(p).mode = "all_once" => message[p] = Len(sent[p])
             /\ Args(p).mode = "random" => count[p] = Len(sent[p])
             /\ Len(sent[p]) \in Nat
  <2>1. BookOf(p)
    BY DEF PInv, Bookkeeping
  <2>2. Accepted(commandLine[p])
    BY <1>5, <2>1 DEF BookOf
  <2>3. Len(sent[p]) \in Nat
    BY <1>1
  <2> QED
    BY <1>1, <1>5, <2>1, <2>2, <2>3, JobType DEF BookOf
<1>6. ASSUME NEW p \in Publisher, NEW how \in {"parse", "bind", "loop", "sleep"} \cup Ended,
             stage[p] \notin Ended, stage' = [stage EXCEPT ![p] = how],
             UNCHANGED <<commandLine, sent>>,
             how = "done" =>
               /\ stage[p] = "loop"
               /\ \/ Args(p).mode = "all_once" /\ message[p] = Len(List(p))
                  \/ Args(p).mode = "random" /\ ~Wanted(p)
                  \/ Args(p).mode = "manual"
      PROVE  [W!Next]_(W!vars)
  <2>1. PICK s \in {"running", "done", "failed"} :
          /\ status' = [status EXCEPT ![p] = s]
          /\ s = "running" <=> how \notin Ended
          /\ s = "done" <=> how = "done"
    BY <1>4, <1>6
  <2>2. job' = job /\ status[p] = "running"
    BY <1>2, <1>4, <1>6
  <2>3. CASE s = "running"
    <3>1. status' = status
      BY <2>1, <2>2, <2>3
    <3> QED
      BY <1>6, <2>2, <3>1 DEF W!vars
  <2>4. CASE s = "failed"
    <3>1. W!End(p)
      BY <1>6, <2>1, <2>2, <2>4 DEF W!End
    <3> QED
      BY <3>1 DEF W!Next
  <2>5. CASE s = "done"
    <3>1. stage[p] = "loop"
      BY <1>6, <2>1, <2>5
    <3>2. Args(p).mode = "random" /\ ~Wanted(p) =>
            Args(p).count # NotGiven /\ Args(p).count \in Int /\ count[p] >= Args(p).count
      BY <1>1, <1>5, <3>1 DEF Wanted
    <3>3. W!Complete(p)
      <4> HIDE DEF job
      <4> DEFINE j == job[p]
      <4>1. /\ j # NoJob /\ j.mode = Args(p).mode /\ j.length = Len(List(p))
            /\ j.count = IF Args(p).count = NotGiven THEN Forever ELSE Args(p).count
        BY <1>5, <3>1
      <4>2. Args(p).mode = "random" /\ ~Wanted(p) => j.count # Forever /\ Len(sent[p]) >= j.count
        BY <1>5, <3>1, <3>2, <4>1, JobAssumption
      <4>3. Args(p).mode = "all_once" /\ message[p] = Len(List(p)) => Len(sent[p]) = j.length
        BY <1>5, <3>1, <4>1
      <4> HIDE DEF j
      <4>4. \/ j.mode = "all_once" /\ Len(sent[p]) = j.length
            \/ j.mode = "manual"
            \/ j.mode = "random" /\ j.count # Forever /\ Len(sent[p]) >= j.count
        BY <1>6, <2>1, <2>5, <4>1, <4>2, <4>3
      <4> QED
        BY <4>1, <4>4 DEF W!Complete, j, job
    <3>4. W!End(p)
      BY <1>6, <2>1, <2>2, <2>5, <3>3 DEF W!End
    <3> QED
      BY <3>4 DEF W!Next
  <2> QED
    BY <2>3, <2>4, <2>5
<1>7. ASSUME NEW p \in Publisher, NEW k \in DOMAIN List(p), stage[p] = "loop",
             SendMessage(p, k),
             Args(p).mode = "all_once" => k = message[p] + 1,
             Args(p).mode = "random" => Wanted(p)
      PROVE  [W!Next]_(W!vars)
  <2>1. commandLine' = commandLine /\ job' = job
    BY <1>2, <1>7, SendOutcomes
  <2>2. "loop" \notin Ended /\ "raised" \in Ended /\ "sleep" \notin Ended
    BY DEF Ended
  <2>3. CASE UNCHANGED <<queue, lost, sent>> /\ stage' = [stage EXCEPT ![p] = "raised"]
    BY <1>6, <1>7, <2>1, <2>2, <2>3
  <2>4. CASE /\ sent' = [sent EXCEPT ![p] = Append(sent[p], k)]
             /\ \/ stage' = [stage EXCEPT ![p] = "sleep"]
                \/ stage' = [stage EXCEPT ![p] = "raised"]
    <3>1. PICK how \in {"sleep", "raised"} : stage' = [stage EXCEPT ![p] = how]
      BY <2>4
    <3>2. status[p] = "running"
          /\ \E s \in {"running", "failed"} : status' = [status EXCEPT ![p] = s]
      <4>1. how \in {"parse", "bind", "loop", "sleep"} \cup Ended /\ how # "done"
        BY <2>2, <3>1
      <4>2. stage[p] \notin Ended
        BY <1>7, <2>2
      <4>3. /\ status[p] = "running"
            /\ \E s \in {"running", "done", "failed"} :
                 /\ status' = [status EXCEPT ![p] = s]
                 /\ s = "done" <=> how = "done"
        BY <1>4, <3>1, <4>1, <4>2
      <4> HIDE DEF status
      <4> QED
        BY <4>1, <4>3
    <3> HIDE DEF job
    <3> DEFINE j == job[p]
    <3>3. /\ j # NoJob /\ j.mode = Args(p).mode /\ j.length = Len(List(p))
          /\ j.count = IF Args(p).count = NotGiven THEN Forever ELSE Args(p).count
          /\ Args(p).mode \in {"all_once", "manual", "random"}
          /\ k \in 1 .. j.length
      BY <1>5, <1>7 DEF Mode
    <3>4. Args(p).mode = "random" => j.count = Forever \/ Len(sent[p]) < j.count
      BY <1>5, <1>7, <3>3 DEF Wanted
    <3>5. Args(p).mode = "all_once" => k = Len(sent[p]) + 1
      BY <1>5, <1>7
    <3> HIDE DEF j
    <3>6. /\ k \in 1 .. j.length
          /\ \/ j.mode = "all_once" /\ k = Len(sent[p]) + 1
             \/ j.mode = "manual"
             \/ j.mode = "random" /\ (j.count = Forever \/ Len(sent[p]) < j.count)
      BY <3>3, <3>4, <3>5
    <3>7. W!May(p, k)
      BY <3>6 DEF W!May, j, job
    <3>8. k \in 1 .. job[p].length /\ job[p] # NoJob
      BY <3>3 DEF j
    <3>9. W!Publish(p)
      BY <1>1, <2>1, <2>4, <3>2, <3>7, <3>8 DEF W!Publish, job
    <3> QED
      BY <3>9 DEF W!Next
  <2> QED
    BY <1>7, <2>3, <2>4, SendOutcomes
<1>8. CASE UNCHANGED <<commandLine, sent, stage>>
  BY <1>2, <1>3, <1>8 DEF W!vars
<1> HIDE DEF job, status
<1> QED
  BY <1>6, <1>7, <1>8, StepCases

\* Publishers keep their promise: the payloads that the mode allows, and all
\* of them if they end in good order, for every command line and whatever
\* users, other publishers and the server do.
THEOREM WorkloadImplemented == Spec => ImplementsWorkload
<1>1. Init => W!Init
  BY InitCorrect, WorkloadInit
<1>2. PInv /\ PInv' /\ [Next]_vars => [W!Next]_(W!vars)
  BY WorkloadStep
<1> QED
  BY <1>1, <1>2, PublishingInvariant, PTL DEF Spec, W!Spec, ImplementsWorkload
-----------------------------------------------------------------------------
(***************************************************************************)
(* From the publishers to the notifications.                               *)
(***************************************************************************)

\* A notification says what its datagram says, for every datagram that fits
\* the buffer and whatever came before it: memset and manageUdp leave nothing
\* of one datagram to the next.
THEOREM AnnouncementsFaithful == Spec => []AnnouncesWhatWasSent
<1>1. Init => AnnouncesWhatWasSent
  BY DEF Init, AnnouncesWhatWasSent
<1>2. ASSUME PInv, AnnouncesWhatWasSent, [Next]_vars
      PROVE  AnnouncesWhatWasSent'
  <2>1. CASE log' = log
    BY <1>2, <2>1 DEF AnnouncesWhatWasSent
  <2>2. CASE Take
    <3>1. PICK text \in Text, topic \in Topic \cup {NoTopic} :
            /\ queue # <<>> /\ Head(queue) \in Datagram
            /\ log' = Append(log, [datagram |-> Head(queue), topic |-> topic, text |-> text])
            /\ LET datagram == Head(queue).payload.datagram
               IN IF Readable(datagram.rest)
                  THEN topic = datagram.topic /\ text # NoText /\ Denotes(text, datagram.rest)
                  ELSE text = NoText
      BY <1>2, <2>2, TakeOutcome
    <3> DEFINE e == [datagram |-> Head(queue), topic |-> topic, text |-> text]
               Right(x) == LET datagram == x.datagram.payload.datagram
                           IN IF Readable(datagram.rest)
                              THEN /\ x.topic = datagram.topic
                                   /\ x.text # NoText /\ Denotes(x.text, datagram.rest)
                              ELSE x.text = NoText
    <3>2. Right(e)
      BY <3>1
    <3>3. \A i \in DOMAIN log : Right(log[i])
      BY <1>2 DEF AnnouncesWhatWasSent
    <3>4. log' = Append(log, e) /\ log \in Seq([datagram : Datagram, topic : Topic \cup {NoTopic}, text : Text])
      BY <1>2, <3>1 DEF PInv, TypeOK
    <3> HIDE DEF e
    <3>5. \A i \in DOMAIN log' : (i \in DOMAIN log /\ log'[i] = log[i]) \/ log'[i] = e
      BY <3>4
    <3>6. \A i \in DOMAIN log' : Right(log'[i])
      <4> HIDE DEF Right
      <4> QED
        BY <3>2, <3>3, <3>5
    <3> QED
      BY <3>6 DEF AnnouncesWhatWasSent
  <2> QED
    BY <1>2, <2>1, <2>2, StepCases
<1> QED
  BY <1>1, <1>2, PublishingInvariant, PTL DEF Spec

\* What has arrived, in the order of arrival, is a sequence: what was taken
\* and then what is queued.
Entry == [datagram : Datagram, topic : Topic \cup {NoTopic}, text : Text]

\* The datagrams of the log, and behind them the queue, place by place.
LEMMA JoinedIs ==
  ASSUME NEW l \in Seq(Entry), NEW q \in Seq(Datagram)
  PROVE  /\ Joined(l, q) \in Seq(Datagram) /\ Len(Joined(l, q)) = Len(l) + Len(q)
         /\ Len(l) \in Nat /\ Len(q) \in Nat
         /\ \A i \in 1 .. Len(l) : Joined(l, q)[i] = l[i].datagram
         /\ \A i \in 1 .. Len(q) : Joined(l, q)[Len(l) + i] = q[i]
<1> DEFINE m == Len(l)  n == Len(q)
           joined == Joined(l, q)
<1>1. m \in Nat /\ n \in Nat
  OBVIOUS
<1>2. \A i \in 1 .. m : l[i].datagram \in Datagram
  <2>1. \A i \in 1 .. m : l[i] \in Entry
    OBVIOUS
  <2> QED
    BY <2>1 DEF Entry
<1>3. \A i \in 1 .. n : q[i] \in Datagram
  OBVIOUS
<1>4. joined = [i \in 1 .. m + n |-> IF i <= m THEN l[i].datagram ELSE q[i - m]]
  BY DEF Joined
<1> HIDE DEF m, n, joined
<1>5. joined \in [1 .. m + n -> Datagram]
  <2>1. ASSUME NEW i \in 1 .. m + n
        PROVE  joined[i] \in Datagram
    <3>1. CASE i <= m
      BY <1>1, <1>2, <1>4, <3>1
    <3>2. CASE ~(i <= m)
      <4>1. i - m \in 1 .. n
        BY <1>1, <3>2
      <4> QED
        BY <1>3, <1>4, <3>2, <4>1
    <3> QED
      BY <3>1, <3>2
  <2> QED
    BY <1>4, <2>1
<1>6. /\ \A i \in 1 .. m : joined[i] = l[i].datagram
      /\ \A i \in 1 .. n : joined[m + i] = q[i]
  <2>1. \A i \in 1 .. m : i \in 1 .. m + n /\ i <= m
    BY <1>1
  <2>2. ASSUME NEW i \in 1 .. n
        PROVE  joined[m + i] = q[i]
    <3>1. m + i \in 1 .. m + n /\ ~(m + i <= m) /\ (m + i) - m = i
      BY <1>1
    <3>2. joined[m + i] = q[(m + i) - m]
      BY <1>4, <3>1
    <3> QED
      BY <3>1, <3>2
  <2>3. \A i \in 1 .. m : joined[i] = l[i].datagram
    BY <1>4, <2>1
  <2> QED
    BY <2>2, <2>3
<1>7. m + n \in Nat
  BY <1>1
<1>8. joined \in Seq(Datagram) /\ Len(joined) = m + n
  BY <1>5, <1>7
<1> QED
  BY <1>1, <1>6, <1>8 DEF m, n, joined

\* Taking a datagram moves it from one part of Arrived to the other.
LEMMA TakeKeepsArrived ==
  ASSUME TypeOK, TypeOK', queue # <<>>, queue' = Tail(queue),
         NEW e, log' = Append(log, e), e.datagram = Head(queue)
  PROVE  Arrived' = Arrived /\ Len(log') = Len(log) + 1
<1> DEFINE m == Len(log)  n == Len(queue)
<1>0. /\ queue \in Seq(Datagram) /\ queue' \in Seq(Datagram)
      /\ log \in Seq(Entry) /\ log' \in Seq(Entry)
  BY DEF TypeOK, DatagramsTypeOK, Entry
<1>2. /\ Len(log') = m + 1 /\ Len(queue') = n - 1 /\ m \in Nat /\ n \in Nat /\ n >= 1
      /\ \A i \in 1 .. m : log'[i] = log[i]
      /\ log'[m + 1] = e
      /\ \A i \in 1 .. n - 1 : queue'[i] = queue[i + 1]
      /\ queue[1] = Head(queue)
  BY <1>0
<1>3. /\ Arrived \in Seq(Datagram) /\ Len(Arrived) = m + n
      /\ \A i \in 1 .. m : Arrived[i] = log[i].datagram
      /\ \A i \in 1 .. n : Arrived[m + i] = queue[i]
  BY <1>0, JoinedIs DEF Arrived
<1>4. /\ Arrived' \in Seq(Datagram) /\ Len(Arrived') = Len(log') + Len(queue')
      /\ \A i \in 1 .. Len(log') : Arrived'[i] = log'[i].datagram
      /\ \A i \in 1 .. Len(queue') : Arrived'[Len(log') + i] = queue'[i]
  BY <1>0, JoinedIs DEF Arrived
<1> HIDE DEF m, n
<1>5. ASSUME NEW i \in 1 .. m + n
      PROVE  Arrived'[i] = Arrived[i]
  <2>1. CASE i \in 1 .. m
    <3>1. i \in 1 .. Len(log')
      BY <1>2, <2>1
    <3> QED
      BY <1>2, <1>3, <1>4, <2>1, <3>1
  <2>2. CASE i = m + 1
    <3>1. i \in 1 .. Len(log') /\ 1 \in 1 .. n
      BY <1>2, <2>2
    <3>2. Arrived'[i] = e.datagram
      BY <1>2, <1>4, <2>2, <3>1
    <3> QED
      BY <1>2, <1>3, <2>2, <3>1, <3>2
  <2>3. CASE i \in m + 2 .. m + n
    <3>1. PICK j \in 1 .. n - 1 : i = (m + 1) + j
      <4>1. i \in Int /\ m \in Int /\ n \in Int /\ m + 2 <= i /\ i <= m + n
        BY <1>2, <2>3
      <4>2. i - (m + 1) \in 1 .. n - 1 /\ i = (m + 1) + (i - (m + 1))
        BY SMT, <4>1
      <4> QED
        BY <4>2
    <3>4. j + 1 \in 1 .. n /\ i = m + (j + 1)
      BY SMT, <1>2, <3>1
    <3>2. Arrived'[i] = queue'[j]
      BY <1>2, <1>4, <3>1
    <3>3. Arrived[i] = queue[j + 1]
      BY <1>3, <3>4
    <3> QED
      BY <1>2, <3>1, <3>2, <3>3
  <2> QED
    BY <1>2, <2>1, <2>2, <2>3
<1>6. Len(Arrived') = Len(Arrived)
  BY <1>2, <1>3, <1>4
<1>7. DOMAIN Arrived = 1 .. m + n /\ DOMAIN Arrived' = 1 .. m + n
  BY <1>2, <1>3, <1>4, <1>6
<1>8. Arrived' = Arrived
  BY <1>3, <1>4, <1>5, <1>6
<1> QED
  BY <1>2, <1>8 DEF m

\* A datagram that reaches the server arrives last.
LEMMA SendExtendsArrived ==
  ASSUME TypeOK, TypeOK', NEW d \in Datagram, queue' = Append(queue, d), log' = log
  PROVE  Arrived' = Append(Arrived, d)
<1> DEFINE m == Len(log)  n == Len(queue)
<1>0. /\ queue \in Seq(Datagram) /\ queue' \in Seq(Datagram)
      /\ log \in Seq(Entry) /\ log' \in Seq(Entry)
  BY DEF TypeOK, DatagramsTypeOK, Entry
<1>2. /\ Len(log') = m /\ Len(queue') = n + 1 /\ m \in Nat /\ n \in Nat
      /\ \A i \in 1 .. n : queue'[i] = queue[i]
      /\ queue'[n + 1] = d
  BY <1>0
<1>3. /\ Arrived \in Seq(Datagram) /\ Len(Arrived) = m + n
      /\ \A i \in 1 .. m : Arrived[i] = log[i].datagram
      /\ \A i \in 1 .. n : Arrived[m + i] = queue[i]
  BY <1>0, JoinedIs DEF Arrived
<1>4. /\ Arrived' \in Seq(Datagram) /\ Len(Arrived') = Len(log') + Len(queue')
      /\ \A i \in 1 .. Len(log') : Arrived'[i] = log'[i].datagram
      /\ \A i \in 1 .. Len(queue') : Arrived'[Len(log') + i] = queue'[i]
  BY <1>0, JoinedIs DEF Arrived
<1> HIDE DEF m, n
<1> DEFINE longer == Append(Arrived, d)
<1>5. /\ longer \in Seq(Datagram) /\ Len(longer) = (m + n) + 1
      /\ \A i \in 1 .. m + n : longer[i] = Arrived[i]
      /\ longer[(m + n) + 1] = d
  BY <1>3
<1> HIDE DEF longer
<1>6. ASSUME NEW i \in 1 .. (m + n) + 1
      PROVE  Arrived'[i] = longer[i]
  <2>1. CASE i \in 1 .. m
    <3>1. i \in 1 .. Len(log') /\ i \in 1 .. m + n
      BY <1>2, <2>1
    <3> QED
      <4>1. Arrived'[i] = log'[i].datagram
        BY <1>4, <3>1
      <4>2. Arrived[i] = log[i].datagram
        BY <1>3, <2>1
      <4>3. longer[i] = Arrived[i]
        BY <1>5, <3>1
      <4> QED
        BY <4>1, <4>2, <4>3
  <2>2. CASE i \in m + 1 .. m + n
    <3> DEFINE j == i - m
    <3>1. j \in 1 .. n /\ j \in 1 .. n + 1 /\ i = m + j /\ i \in 1 .. m + n
      BY <1>2, <2>2
    <3> HIDE DEF j
    <3>2. Arrived'[i] = queue'[j] /\ queue'[j] = queue[j]
      BY <1>2, <1>4, <3>1
    <3>3. Arrived[i] = queue[j] /\ longer[i] = Arrived[i]
      BY <1>3, <1>5, <3>1
    <3> QED
      BY <3>2, <3>3
  <2>3. CASE i = (m + n) + 1
    <3>1. i = m + (n + 1) /\ n + 1 \in 1 .. n + 1
      BY <1>2, <2>3
    <3>2. Arrived'[i] = queue'[n + 1]
      BY <1>2, <1>4, <3>1
    <3> QED
      BY <1>2, <1>5, <2>3, <3>2
  <2> QED
    BY <1>2, <2>1, <2>2, <2>3
<1>7. Len(Arrived') = (m + n) + 1
  BY <1>2, <1>4
<1>8. Arrived' = longer
  BY <1>2, <1>4, <1>5, <1>6, <1>7
<1> QED
  BY <1>8 DEF longer
\* Nothing is counted twice and nothing gets lost between the two sides.
Conserved(p, s, list, a, l) ==
  /\ \A n \in DOMAIN s : <<p, n>> \in l <=> ~(\E i \in Positions(p, a) : a[i].nth = n)
  /\ \A i, j \in Positions(p, a) : i < j => a[i].nth < a[j].nth
  /\ \A i \in Positions(p, a) :
       a[i].nth \in DOMAIN s /\ a[i].payload = list[s[a[i].nth]]

ConservedFor(p) == Conserved(p, sent[p], List(p), Arrived, lost)

\* A datagram that p sends, and that is lost or arrives last.
LEMMA SendConserves ==
  ASSUME NEW p \in Publisher, NEW s \in Seq(Nat), NEW k \in Nat, NEW list,
         NEW a \in Seq(Datagram), NEW a2, NEW l \in SUBSET (Publisher \X Nat), NEW l2,
         NEW d \in Datagram, d.by = p, d.nth = Len(s) + 1, d.payload = list[k],
         \A e \in l : e[1] = p => e[2] \in DOMAIN s,
         Conserved(p, s, list, a, l),
         \/ a2 = a /\ l2 = l \cup {<<p, Len(s) + 1>>}
         \/ a2 = Append(a, d) /\ l2 = l
  PROVE  Conserved(p, Append(s, k), list, a2, l2)
<1> DEFINE s2 == Append(s, k)  z == Len(s) + 1  m == Len(a)
<1>1. /\ Len(s) \in Nat /\ DOMAIN s = 1 .. Len(s) /\ DOMAIN s2 = 1 .. z
      /\ \A n \in DOMAIN s : s2[n] = s[n] /\ n \in DOMAIN s2 /\ n # z /\ n < z
      /\ s2[z] = k /\ z \in DOMAIN s2 /\ z \notin DOMAIN s
      /\ \A n \in DOMAIN s2 : n \in DOMAIN s \/ n = z
  OBVIOUS
<1>2. m \in Nat /\ DOMAIN a = 1 .. m
  OBVIOUS
<1> USE DEF Conserved
<1>3. <<p, z>> \notin l
  BY <1>1
<1>4. \A i \in Positions(p, a) : a[i].nth # z
  BY <1>1
<1> HIDE DEF s2, z, m
<1>5. CASE a2 = a /\ l2 = l \cup {<<p, z>>}
  <2>1. \A n \in DOMAIN s : <<p, n>> \in l2 <=> <<p, n>> \in l
    BY <1>1, <1>5
  <2>2. \A n \in DOMAIN s2 :
          <<p, n>> \in l2 <=> ~(\E i \in Positions(p, a2) : a2[i].nth = n)
    BY <1>1, <1>4, <1>5, <2>1
  <2>3. \A i \in Positions(p, a2) :
          a2[i].nth \in DOMAIN s2 /\ a2[i].payload = list[s2[a2[i].nth]]
    BY <1>1, <1>5
  <2> QED
    BY <1>5, <2>2, <2>3 DEF s2
<1>6. CASE a2 = Append(a, d) /\ l2 = l
  <2>1. /\ DOMAIN a2 = 1 .. m + 1 /\ a2[m + 1] = d
        /\ \A i \in 1 .. m : a2[i] = a[i]
    BY <1>6 DEF m
  <2>2. /\ Positions(p, a2) = Positions(p, a) \cup {m + 1}
        /\ Positions(p, a) \subseteq 1 .. m
    BY <1>2, <2>1 DEF Positions
  <2>3. \A i \in Positions(p, a) : a2[i] = a[i]
    BY <2>1, <2>2
  <2>4. a2[m + 1].nth = z /\ a2[m + 1].payload = list[k]
    BY <2>1 DEF z
  <2>5. ASSUME NEW n \in DOMAIN s2
        PROVE  <<p, n>> \in l2 <=> ~(\E i \in Positions(p, a2) : a2[i].nth = n)
    <3>1. CASE n = z
      BY <1>3, <1>6, <2>2, <2>4, <3>1
    <3>2. CASE n \in DOMAIN s
      <4>1. (\E i \in Positions(p, a2) : a2[i].nth = n)
              <=> (\E i \in Positions(p, a) : a[i].nth = n)
        BY <1>1, <2>2, <2>3, <2>4, <3>2
      <4> QED
        BY <1>6, <3>2, <4>1
    <3> QED
      BY <1>1, <3>1, <3>2
  <2>6. ASSUME NEW i \in Positions(p, a2), NEW j \in Positions(p, a2), i < j
        PROVE  a2[i].nth < a2[j].nth
    <3>1. i \in 1 .. m
      BY <1>2, <2>2, <2>6
    <3>2. i \in Positions(p, a)
      BY <1>2, <2>2, <3>1
    <3>3. CASE j \in Positions(p, a)
      BY <2>3, <2>6, <3>2, <3>3
    <3>4. CASE j = m + 1
      BY <1>1, <2>3, <2>4, <3>2, <3>4
    <3> QED
      BY <2>2, <3>3, <3>4
  <2>7. ASSUME NEW i \in Positions(p, a2)
        PROVE  a2[i].nth \in DOMAIN s2 /\ a2[i].payload = list[s2[a2[i].nth]]
    <3>1. CASE i = m + 1
      BY <1>1, <2>4, <3>1
    <3>2. CASE i \in Positions(p, a)
      <4> DEFINE n == a[i].nth
      <4>1. n \in DOMAIN s /\ a[i].payload = list[s[n]]
        BY <3>2
      <4>2. s2[n] = s[n] /\ n \in DOMAIN s2
        BY <1>1, <4>1
      <4>3. a2[i] = a[i]
        BY <2>3, <3>2
      <4> QED
        BY <4>1, <4>2, <4>3
    <3> QED
      BY <2>2, <3>1, <3>2
  <2> QED
    BY <2>5, <2>6, <2>7 DEF s2
<1> QED
  BY <1>5, <1>6 DEF z

\* ... is nothing to another publisher.
LEMMA SendElsewhere ==
  ASSUME NEW p \in Publisher, NEW q \in Publisher, q # p,
         NEW a \in Seq(Datagram), NEW d \in Datagram, d.by = p
  PROVE  /\ Positions(q, Append(a, d)) = Positions(q, a)
         /\ \A i \in Positions(q, a) : Append(a, d)[i] = a[i]
<1> DEFINE a2 == Append(a, d)  m == Len(a)
<1>1. /\ m \in Nat /\ DOMAIN a = 1 .. m /\ DOMAIN a2 = 1 .. m + 1 /\ a2[m + 1] = d
      /\ \A i \in 1 .. m : a2[i] = a[i]
  OBVIOUS
<1> HIDE DEF a2, m
<1>2. Positions(q, a2) = Positions(q, a) /\ Positions(q, a) \subseteq 1 .. m
  BY <1>1 DEF Positions
<1>3. \A i \in Positions(q, a) : a2[i] = a[i]
  BY <1>1, <1>2
<1> QED
  BY <1>2, <1>3 DEF a2
\* A publisher to which nothing happened has its datagrams where they were.
LEMMA ConservedLocal ==
  ASSUME NEW q \in Publisher, ConservedFor(q), commandLine' = commandLine,
         sent'[q] = sent[q], Positions(q, Arrived)' = Positions(q, Arrived),
         \A i \in Positions(q, Arrived) : Arrived'[i] = Arrived[i],
         \A n : <<q, n>> \in lost' <=> <<q, n>> \in lost
  PROVE  ConservedFor(q)'
<1>1. List(q)' = List(q)
  BY DEF List, Args
<1> QED
  BY <1>1 DEF ConservedFor, Conserved, Positions

\* No datagram is lost between sendto and the main loop without the kernel
\* having lost it, none arrives twice or changed, and those of one publisher
\* arrive in the order it sent them.
THEOREM NothingVanishes == Spec => []Conservation
<1>1. Init => Conservation
  <2> SUFFICES ASSUME Init PROVE Conservation
    OBVIOUS
  <2>1. Arrived = <<>> /\ \A p \in Publisher : Positions(p, Arrived) = {}
    BY DEF Init, DatagramsInit, Arrived, Joined, Positions
  <2> QED
    BY <2>1 DEF Conservation, Init, PublisherInit
<1>2. ASSUME PInv, PInv', Conservation, [Next]_vars
      PROVE  Conservation'
  <2>1. \A q \in Publisher : ConservedFor(q)
    BY <1>2 DEF Conservation, ConservedFor, Conserved
  <2> SUFFICES \A q \in Publisher : ConservedFor(q)'
    BY DEF Conservation, ConservedFor, Conserved
  <2>2. /\ queue \in Seq(Datagram) /\ log \in Seq(Entry) /\ Arrived \in Seq(Datagram)
        /\ sent \in [Publisher -> Seq(Nat)] /\ DatagramsTypeOK
    BY <1>2, JoinedIs DEF PInv, TypeOK, DatagramsTypeOK, PublisherTypeOK, Arrived, Entry
  <2>3. CASE UNCHANGED <<queue, lost, commandLine, sent, log>>
    <3>1. Arrived' = Arrived
      BY <2>3 DEF Arrived
    <3>2. \A q \in Publisher : Positions(q, Arrived)' = Positions(q, Arrived)
      BY <3>1 DEF Positions
    <3> QED
      BY <2>1, <2>3, <3>1, <3>2, ConservedLocal
  <2>4. CASE Take /\ UNCHANGED <<lost, commandLine, sent>>
    <3>1. PICK text \in Text, topic \in Topic \cup {NoTopic} :
            /\ queue # <<>> /\ queue' = Tail(queue)
            /\ log' = Append(log, [datagram |-> Head(queue), topic |-> topic, text |-> text])
      BY <1>2, <2>4, TakeOutcome
    <3>2. Arrived' = Arrived
      <4> DEFINE e == [datagram |-> Head(queue), topic |-> topic, text |-> text]
      <4>1. log' = Append(log, e) /\ e.datagram = Head(queue)
        BY <3>1
      <4> HIDE DEF e
      <4> QED
        BY <1>2, <3>1, <4>1, TakeKeepsArrived DEF PInv
    <3>3. \A q \in Publisher : Positions(q, Arrived)' = Positions(q, Arrived)
      BY <3>2 DEF Positions
    <3> QED
      BY <2>1, <2>4, <3>2, <3>3, ConservedLocal
  <2>5. ASSUME NEW p \in Publisher, NEW k \in DOMAIN List(p), stage[p] = "loop",
               SendMessage(p, k), UNCHANGED <<udp_recv, log>>
        PROVE  \A q \in Publisher : ConservedFor(q)'
    <3> DEFINE d == [by |-> p, nth |-> Len(sent[p]) + 1, from |-> bound[p].port,
                     payload |-> List(p)[k]]
    <3>1. commandLine' = commandLine
      BY <2>5, SendOutcomes
    <3>2. CASE UNCHANGED <<queue, lost, sent>>
      BY <2>3, <2>5, <3>1, <3>2
    <3>3. CASE /\ sent' = [sent EXCEPT ![p] = Append(sent[p], k)]
               /\ Transmit(d, Args(p).server_ip, Args(p).server_port)
      <4>1. BookOf(p) /\ bound[p] # Unbound
        BY <1>2, <2>5 DEF PInv, Bookkeeping, BookOf
      <4>2. /\ List(p) \in Seq(Payload) /\ k \in Nat /\ bound[p].port \in Nat
            /\ sent[p] \in Seq(Nat) /\ Len(sent[p]) \in Nat
        <5>1. Accepted(commandLine[p]) /\ commandLine[p] \in CommandLine
          BY <1>2, <2>5, <4>1 DEF BookOf, PInv, TypeOK, PublisherTypeOK
        <5>2. List(p) \in Seq(Payload)
          BY <5>1, AcceptedArgs DEF List, Args
        <5>3. bound[p] \in [address : Local, port : Nat]
          BY <2>2, <4>1 DEF DatagramsTypeOK
        <5> QED
          BY <2>2, <2>5, <5>2, <5>3
      <4>3. List(p)[k] \in Payload
        BY <2>5, <4>2
      <4>4. d \in Datagram /\ d.by = p /\ d.nth = Len(sent[p]) + 1 /\ d.payload = List(p)[k]
        BY <4>2, <4>3 DEF Datagram
      <4> HIDE DEF d
      <4>5. \/ queue' = Append(queue, d) /\ lost' = lost
            \/ queue' = queue /\ lost' = lost \cup {<<p, Len(sent[p]) + 1>>}
        BY <2>2, <3>3, <4>4, TransmitOutcomes
      <4>6. \/ Arrived' = Append(Arrived, d) /\ lost' = lost
            \/ Arrived' = Arrived /\ lost' = lost \cup {<<p, Len(sent[p]) + 1>>}
        <5>1. CASE queue' = Append(queue, d) /\ lost' = lost
          BY <1>2, <2>5, <4>4, <5>1, SendExtendsArrived DEF PInv
        <5>2. CASE queue' = queue /\ lost' = lost \cup {<<p, Len(sent[p]) + 1>>}
          BY <2>5, <5>2 DEF Arrived
        <5> QED
          BY <4>5, <5>1, <5>2
      <4>7. ConservedFor(p)'
        <5>1. /\ \A e \in lost : e[1] = p => e[2] \in DOMAIN sent[p]
              /\ lost \in SUBSET (Publisher \X Nat)
          BY <2>2, <4>1 DEF BookOf, DatagramsTypeOK
        <5>2. ConservedFor(p)
          BY <2>1
        <5>3. List(p)' = List(p) /\ sent'[p] = Append(sent[p], k)
          BY <2>2, <3>1, <3>3 DEF List, Args
        <5> DEFINE a == Arrived  a2 == Arrived'  l == lost  l2 == lost'  s == sent[p]
                   list == List(p)
        <5>4. Conserved(p, Append(s, k), list, a2, l2)
          <6>1. /\ s \in Seq(Nat) /\ k \in Nat /\ a \in Seq(Datagram)
                /\ l \in SUBSET (Publisher \X Nat)
                /\ d.by = p /\ d.nth = Len(s) + 1 /\ d.payload = list[k]
                /\ \A e \in l : e[1] = p => e[2] \in DOMAIN s
                /\ Conserved(p, s, list, a, l)
            BY <2>2, <4>2, <4>4, <5>1, <5>2 DEF ConservedFor
          <6>2. \/ a2 = a /\ l2 = l \cup {<<p, Len(s) + 1>>}
                \/ a2 = Append(a, d) /\ l2 = l
            BY <4>6
          <6> HIDE DEF a, a2, l, l2, s, list
          <6> QED
            BY <4>4, <6>1, <6>2, SendConserves
        <5> QED
          BY <5>3, <5>4 DEF ConservedFor, Conserved, Positions
      <4>8. ASSUME NEW q \in Publisher, q # p
            PROVE  ConservedFor(q)'
        <5>1. sent'[q] = sent[q]
          BY <2>2, <3>3, <4>8
        <5>2. \A n : <<q, n>> \in lost' <=> <<q, n>> \in lost
          BY <4>6, <4>8
        <5>3. /\ Positions(q, Arrived)' = Positions(q, Arrived)
              /\ \A i \in Positions(q, Arrived) : Arrived'[i] = Arrived[i]
          <6>1. Positions(q, Arrived)' = Positions(q, Arrived')
            BY DEF Positions
          <6>2. CASE Arrived' = Arrived
            BY <6>1, <6>2
          <6>3. CASE Arrived' = Append(Arrived, d)
            BY <2>2, <4>4, <4>8, <6>1, <6>3, SendElsewhere
          <6> QED
            BY <4>6, <6>2, <6>3
        <5> QED
          BY <2>1, <3>1, <5>1, <5>2, <5>3, ConservedLocal
      <4> QED
        BY <4>7, <4>8
    <3> QED
      BY <2>5, <3>2, <3>3, SendOutcomes
  <2> QED
    BY <1>2, <2>3, <2>4, <2>5, StepCases
<1> QED
  BY <1>1, <1>2, PublishingInvariant, PTL DEF Spec
-----------------------------------------------------------------------------
(***************************************************************************)
(* The server's UDP branch implements Arrivals.                            *)
(***************************************************************************)

\* What the main loop is told, datagram by datagram, was settled on arrival.
SettledOnArrival ==
  Announced = [i \in 1 .. Len(Arrived) |-> ItemOf(Arrived[i].payload)]

\* What the server announces of each datagram is settled when it arrives.
LEMMA AnnouncedIs == TypeOK /\ AnnouncesWhatWasSent => SettledOnArrival
<1> SUFFICES ASSUME TypeOK, AnnouncesWhatWasSent PROVE SettledOnArrival
  OBVIOUS
<1> DEFINE m == Len(log)  n == Len(queue)
<1>1. log \in Seq(Entry) /\ queue \in Seq(Datagram)
  BY DEF TypeOK, DatagramsTypeOK, Entry
<1>2. /\ Len(Arrived) = m + n /\ m \in Nat /\ n \in Nat
      /\ \A i \in 1 .. m : Arrived[i] = log[i].datagram
      /\ \A i \in 1 .. n : Arrived[m + i] = queue[i]
  BY <1>1, JoinedIs DEF Arrived
<1>3. Announced = [i \in 1 .. m + n |->
                     IF i > m THEN ItemOf(queue[i - m].payload)
                     ELSE IF log[i].text = NoText THEN Malformed ELSE log[i].topic]
  BY DEF Announced
<1>4. DOMAIN log = 1 .. m
  BY <1>1
<1> HIDE DEF m, n
<1>5. ASSUME NEW i \in 1 .. m + n
      PROVE  Announced[i] = ItemOf(Arrived[i].payload)
  <2>1. CASE i > m
    <3>1. PICK j \in 1 .. n : i = m + j /\ i - m = j
      <4>1. i - m \in 1 .. n /\ i = m + (i - m)
        BY <1>2, <2>1
      <4> QED
        BY <4>1
    <3>2. Announced[i] = ItemOf(queue[j].payload)
      BY <1>3, <2>1, <3>1
    <3> QED
      BY <1>2, <3>1, <3>2
  <2>2. CASE ~(i > m)
    <3>1. i \in 1 .. m
      BY <1>2, <2>2
    <3>2. Announced[i] = IF log[i].text = NoText THEN Malformed ELSE log[i].topic
      BY <1>3, <2>2
    <3>3. IF Readable(log[i].datagram.payload.datagram.rest)
          THEN log[i].topic = log[i].datagram.payload.datagram.topic /\ log[i].text # NoText
          ELSE log[i].text = NoText
      BY <1>4, <3>1 DEF AnnouncesWhatWasSent
    <3>4. Arrived[i] = log[i].datagram
      BY <1>2, <3>1
    <3> QED
      BY <3>2, <3>3, <3>4 DEF ItemOf
  <2> QED
    BY <2>1, <2>2
<1> QED
  BY <1>2, <1>3, <1>5 DEF SettledOnArrival

\* Each step adds one arrival, takes one, or does neither.
LEMMA ArrivalsStep ==
  ASSUME PInv, PInv', SettledOnArrival, SettledOnArrival', [Next]_vars
  PROVE  [A!Next]_<<Announced, Len(log)>>
<1>1. /\ queue \in Seq(Datagram) /\ log \in Seq(Entry) /\ Arrived \in Seq(Datagram)
      /\ Len(Arrived) = Len(log) + Len(queue) /\ Len(log) \in Nat /\ Len(queue) \in Nat
      /\ DatagramsTypeOK /\ PublisherTypeOK
  BY JoinedIs DEF PInv, TypeOK, DatagramsTypeOK, Arrived, Entry
<1>2. CASE UNCHANGED <<queue, log>>
  BY <1>2 DEF Announced
<1>3. CASE Take
  <2>1. PICK text \in Text, topic \in Topic \cup {NoTopic} :
          /\ queue # <<>> /\ queue' = Tail(queue)
          /\ log' = Append(log, [datagram |-> Head(queue), topic |-> topic, text |-> text])
    BY <1>3, TakeOutcome
  <2>2. Arrived' = Arrived /\ Len(log') = Len(log) + 1
    <3> DEFINE e == [datagram |-> Head(queue), topic |-> topic, text |-> text]
    <3>1. log' = Append(log, e) /\ e.datagram = Head(queue)
      BY <2>1
    <3> HIDE DEF e
    <3> QED
      BY <2>1, <3>1, TakeKeepsArrived DEF PInv
  <2>3. Announced' = Announced
    BY <2>2 DEF SettledOnArrival
  <2>4. Len(Announced) = Len(Arrived)
    BY <1>1 DEF SettledOnArrival
  <2>5. Len(log) < Len(Announced)
    <3>1. Len(queue) > 0
      BY <1>1, <2>1
    <3> QED
      BY <1>1, <2>4, <3>1
  <2>6. A!Take
    BY <2>2, <2>3, <2>5 DEF A!Take
  <2> QED
    BY <2>6 DEF A!Next
<1>4. ASSUME NEW p \in Publisher, NEW k \in DOMAIN List(p), stage[p] = "loop",
             SendMessage(p, k), UNCHANGED <<udp_recv, log>>
      PROVE  [A!Next]_<<Announced, Len(log)>>
  <2> DEFINE d == [by |-> p, nth |-> Len(sent[p]) + 1, from |-> bound[p].port,
                   payload |-> List(p)[k]]
  <2>1. CASE queue' = queue
    BY <1>2, <1>4, <2>1
  <2>2. CASE Transmit(d, Args(p).server_ip, Args(p).server_port)
    <3>1. BookOf(p) /\ bound[p] # Unbound
      BY <1>4 DEF PInv, Bookkeeping, BookOf
    <3>2. Accepted(commandLine[p]) /\ commandLine[p] \in CommandLine
      BY <1>1, <1>4, <3>1 DEF BookOf, PublisherTypeOK
    <3>3. List(p) \in Seq(Payload)
      BY <3>2, AcceptedArgs DEF List, Args
    <3>4. bound[p] \in [address : Local, port : Nat] /\ Len(sent[p]) \in Nat
      BY <1>1, <3>1 DEF DatagramsTypeOK, PublisherTypeOK
    <3>5. List(p)[k] \in Payload
      BY <1>4, <3>3
    <3>6. d \in Datagram
      BY <3>4, <3>5 DEF Datagram
    <3> HIDE DEF d
    <3>7. queue' = Append(queue, d) \/ queue' = queue
      BY <1>1, <2>2, <3>6, TransmitOutcomes
    <3>8. CASE queue' = Append(queue, d)
      <4>1. Arrived' = Append(Arrived, d)
        BY <1>4, <3>6, <3>8, SendExtendsArrived DEF PInv
      <4> DEFINE a == Arrived  item == ItemOf(d.payload)
                 f == [i \in 1 .. Len(a) |-> ItemOf(a[i].payload)]
      <4>2. item \in Topic \cup {Malformed}
        <5>1. d.payload \in Payload
          BY <3>6 DEF Datagram
        <5> QED
          BY <5>1, DatagramFitsAssumption DEF ItemOf
      <4>3. [i \in 1 .. Len(Append(a, d)) |-> ItemOf(Append(a, d)[i].payload)] = Append(f, item)
        <5>1. a \in Seq(Datagram)
          BY <1>1
        <5> HIDE DEF a
        <5>2. /\ Len(Append(a, d)) = Len(a) + 1 /\ Len(a) \in Nat
              /\ \A i \in 1 .. Len(a) : Append(a, d)[i] = a[i]
              /\ Append(a, d)[Len(a) + 1] = d
          BY <3>6, <5>1, AppendProperties
        <5>3. f \in Seq(Topic \cup {Malformed}) /\ Len(f) = Len(a)
          <6>1. \A i \in 1 .. Len(a) : ItemOf(a[i].payload) \in Topic \cup {Malformed}
            <7>1. \A i \in 1 .. Len(a) : a[i] \in Datagram
              BY <5>1
            <7>2. \A i \in 1 .. Len(a) : a[i].payload \in Payload
              BY <7>1 DEF Datagram
            <7> QED
              BY <7>2, DatagramFitsAssumption DEF ItemOf
          <6> QED
            BY <5>2, <6>1
        <5> DEFINE g == [i \in 1 .. Len(Append(a, d)) |-> ItemOf(Append(a, d)[i].payload)]
        <5>4. /\ Append(f, item) \in Seq(Topic \cup {Malformed})
              /\ Len(Append(f, item)) = Len(a) + 1
              /\ \A i \in 1 .. Len(a) : Append(f, item)[i] = ItemOf(a[i].payload)
              /\ Append(f, item)[Len(a) + 1] = item
          <6>1. \A i \in 1 .. Len(a) : f[i] = ItemOf(a[i].payload)
            OBVIOUS
          <6> HIDE DEF f, item
          <6> QED
            BY <4>2, <5>2, <5>3, <6>1, AppendProperties
        <5>5. DOMAIN Append(f, item) = 1 .. Len(a) + 1
          BY <5>4
        <5>6. \A i \in 1 .. Len(a) + 1 : Append(f, item)[i] = ItemOf(Append(a, d)[i].payload)
          <6>1. \A i \in 1 .. Len(a) + 1 : i \in 1 .. Len(a) \/ i = Len(a) + 1
            BY <5>2
          <6> HIDE DEF f
          <6> QED
            BY <5>2, <5>4, <6>1
        <5> DEFINE h == Append(f, item)
        <5>7. h = [i \in DOMAIN h |-> h[i]]
          <6>1. h \in Seq(Topic \cup {Malformed})
            BY <5>4
          <6> HIDE DEF h
          <6> QED
            BY <6>1
        <5>8. DOMAIN h = 1 .. Len(Append(a, d))
          BY <5>2, <5>5
        <5>9. \A i \in 1 .. Len(Append(a, d)) : h[i] = ItemOf(Append(a, d)[i].payload)
          BY <5>2, <5>6
        <5>10. [i \in 1 .. Len(Append(a, d)) |-> ItemOf(Append(a, d)[i].payload)] = h
          <6> HIDE DEF f, item, h
          <6> QED
            BY <5>7, <5>8, <5>9
        <5> QED
          BY <5>10
      <4>4. Announced' = Append(Announced, item)
        BY <4>1, <4>3 DEF SettledOnArrival
      <4>5. A!Arrive
        BY <1>4, <4>2, <4>4 DEF A!Arrive
      <4> QED
        BY <4>5 DEF A!Next
    <3> QED
      BY <2>1, <3>7, <3>8
  <2> QED
    BY <1>4, <2>1, <2>2, SendOutcomes
<1> QED
  BY <1>2, <1>3, <1>4, StepCases

\* To the main loop, publishers, kernel and buffer are a queue of topics and
\* droppable datagrams, taken one by one in the order of arrival: what the
\* modules about the main loop take for granted.
THEOREM ArrivalsImplemented == Spec => ImplementsArrivals
<1>1. Init => A!Init
  BY DEF Init, DatagramsInit, A!Init, Announced
<1>2. /\ PInv /\ PInv' /\ SettledOnArrival /\ SettledOnArrival' /\ [Next]_vars
           => [A!Next]_<<Announced, Len(log)>>
      /\ PInv /\ AnnouncesWhatWasSent => SettledOnArrival
  BY ArrivalsStep, AnnouncedIs DEF PInv
<1> QED
  BY <1>1, <1>2, PublishingInvariant, AnnouncementsFaithful, PTL
     DEF Spec, A!Spec, ImplementsArrivals
==============================================================================
