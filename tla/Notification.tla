---------------------------- MODULE Notification -----------------------------
(***************************************************************************)
(* From the bytes of a datagram to the text of a notification: the buffer  *)
(* of the server's UDP branch and manageUdp, in server.cpp.                *)
(*                                                                         *)
(* A datagram is a topic, its first 50 bytes, and the rest: the type and   *)
(* the contents.  Its rest is empty if it is too short to have a type.  A  *)
(* number's text is a sign, its digits, and how many of them are decimals. *)
(***************************************************************************)
EXTENDS Naturals, Sequences

CONSTANTS Topic, NoTopic, BufferLength, NoText

ASSUME BufferAssumption == BufferLength \in Nat /\ BufferLength >= 7

ASSUME NoTextAssumption ==
  /\ NoText \notin [kind : {"INT", "SHORT_REAL", "FLOAT"}, minus : BOOLEAN,
                    digits : Nat, decimals : Nat]
  /\ NoText \notin [kind : {"STRING"}, chars : Seq(Nat)]

Byte == 0 .. 255

Buffer == [topic : Topic \cup {NoTopic}, rest : [1 .. BufferLength -> Byte]]

Text == [kind : {"INT", "SHORT_REAL", "FLOAT"}, minus : BOOLEAN,
         digits : Nat, decimals : Nat]
        \cup [kind : {"STRING"}, chars : Seq(Byte)] \cup {NoText}

\* memset.  (Mutant: the buffer is as the last datagram left it.)
Cleared_Not(buffer) == buffer
Cleared(buffer) == [topic |-> NoTopic, rest |-> [i \in 1 .. BufferLength |-> 0]]

\* recvfrom overwrites as much of the buffer as the datagram has.
Received(buffer, datagram) ==
  [topic |-> IF datagram.rest = <<>> THEN buffer.topic ELSE datagram.topic,
   rest  |-> [i \in 1 .. BufferLength |->
                IF i <= Len(datagram.rest) THEN datagram.rest[i] ELSE buffer.rest[i]]]

\* Big-endian integers; the text of a signed number; a C string.
Short(b, i) == 256 * b[i] + b[i + 1]
Long(b, i) == 65536 * Short(b, i) + Short(b, i + 2)

Numeral(kind, minus, digits, decimals) ==
  [kind |-> kind, minus |-> minus, digits |-> digits, decimals |-> decimals]

CString(b, i) ==
  LET end == {j \in i .. BufferLength : b[j] = 0 /\ \A k \in i .. j - 1 : b[k] # 0}
  IN [kind |-> "STRING",
      chars |-> [k \in 1 .. (CHOOSE j \in end : TRUE) - i |-> b[i + k - 1]]]

\* manageUdp, on a buffer that holds a datagram of that many bytes after the
\* topic.  to_string gives a SHORT_REAL six decimals.  (Mutant: the sign of
\* an INT is not checked.)
ManageUdp_AnySign(buffer, size) ==
  LET b == buffer.rest IN
  IF size = 0 THEN NoText
  ELSE IF b[1] = 0 THEN
    Numeral("INT", b[2] = 1 /\ Long(b, 3) # 0, Long(b, 3), 0)
  ELSE IF b[1] = 1 THEN Numeral("SHORT_REAL", FALSE, Short(b, 2) * 10000, 6)
  ELSE IF b[1] = 2 /\ b[2] \in {0, 1} THEN Numeral("FLOAT", b[2] = 1, Long(b, 3), b[7])
  ELSE IF b[1] = 3 THEN CString(b, 2)
  ELSE NoText

ManageUdp(buffer, size) ==
  LET b == buffer.rest IN
  IF size = 0 THEN NoText
  ELSE IF b[1] = 0 /\ b[2] \in {0, 1} THEN
    Numeral("INT", b[2] = 1 /\ Long(b, 3) # 0, Long(b, 3), 0)
  ELSE IF b[1] = 1 THEN Numeral("SHORT_REAL", FALSE, Short(b, 2) * 10000, 6)
  ELSE IF b[1] = 2 /\ b[2] \in {0, 1} THEN Numeral("FLOAT", b[2] = 1, Long(b, 3), b[7])
  ELSE IF b[1] = 3 THEN CString(b, 2)
  ELSE NoText

-----------------------------------------------------------------------------
\* What the rest of a datagram says, missing bytes being zero.
ByteAt(rest, i) == IF i <= Len(rest) THEN rest[i] ELSE 0

Readable(rest) ==
  /\ rest # <<>> /\ rest[1] \in 0 .. 3
  /\ (rest[1] \in {0, 2} => ByteAt(rest, 2) \in {0, 1})

Numerator(rest) ==
  IF rest[1] = 1 THEN 256 * ByteAt(rest, 2) + ByteAt(rest, 3)
  ELSE 16777216 * ByteAt(rest, 3) + 65536 * ByteAt(rest, 4)
       + 256 * ByteAt(rest, 5) + ByteAt(rest, 6)

Denotes(text, rest) ==
  /\ rest[1] = 0 => /\ text.kind = "INT" /\ text.decimals = 0
                    /\ text.digits = Numerator(rest)
                    /\ text.minus = (ByteAt(rest, 2) = 1 /\ Numerator(rest) # 0)
  /\ rest[1] = 1 => /\ text.kind = "SHORT_REAL" /\ text.decimals = 6 /\ ~text.minus
                    /\ text.digits * 100 = Numerator(rest) * 1000000
  /\ rest[1] = 2 => /\ text.kind = "FLOAT" /\ text.decimals = ByteAt(rest, 7)
                    /\ text.digits = Numerator(rest)
                    /\ text.minus = (ByteAt(rest, 2) = 1)
  /\ rest[1] = 3 => /\ text.kind = "STRING"
                    /\ \A i \in DOMAIN text.chars :
                         text.chars[i] = ByteAt(rest, i + 1) /\ text.chars[i] # 0
                    /\ ByteAt(rest, Len(text.chars) + 2) = 0
==============================================================================
