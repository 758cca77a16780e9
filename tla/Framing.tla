-------------------------------- MODULE Framing -------------------------------
(***************************************************************************)
(* Messages on the wire, internal/protocol/message.go: one side calls      *)
(* WriteMessage, or sends bytes of its own making, and may stop anywhere;  *)
(* the other calls ReadMessage until it returns an error.                  *)
(*                                                                         *)
(* input holds every byte that has arrived and pos what io.ReadFull has    *)
(* taken.  ReadFull returns only when it has all it asked for or an error, *)
(* so it takes its bytes in one step.                                      *)
(***************************************************************************)
EXTENDS Integers, Sequences

CONSTANTS Base,            \* the number of values of a byte: 256
          MaxMessageSize,  \* 1024
          ValidTypes,      \* the types for which IsValid holds: 1 .. 5
          Outboxes,        \* what the writing side may want to send
          MaxStream        \* bound: bytes of a raw stream

HeaderSize == 3
LengthSize == 2
Byte == 0 .. Base - 1
Message == [Type : Byte, Payload : Seq(Byte)]

ASSUME FramingAssumption ==
  /\ Base \in Nat \ {0} /\ MaxMessageSize \in HeaderSize .. Base * Base - 1
  /\ ValidTypes \subseteq Byte /\ Outboxes \subseteq Seq(Message) /\ MaxStream \in Nat

VARIABLES peer,      \* who writes: "writer" or "raw"
          outbox,    \* the messages still to be written
          written,   \* those that were written whole
          closed,    \* the writing side has closed the connection
          input,     \* every byte that has arrived
          pos,       \* how many of them the reader has taken
          pc,        \* the reader: length, body or done
          remaining, \* ReadMessage's variable
          parsed,    \* pos after the last whole message
          received,  \* the messages that ReadMessage has returned
          result     \* the error that it returned in the end

writing == <<peer, outbox, written, closed, input>>
reading == <<pos, pc, remaining, parsed, received, result>>
vars == <<writing, reading>>

(***************************************************************************)
(* Encoding and decoding.                                                  *)
(***************************************************************************)
Size(m) == HeaderSize + Len(m.Payload)

Validate(m) ==
  IF m.Type \notin ValidTypes THEN "ErrInvalidMessageType"
  ELSE IF Size(m) > MaxMessageSize THEN "ErrMessageTooLarge" ELSE "nil"

\* Mutant: little-endian.
PutUint16_Little(n) == <<n % Base, n \div Base>>

PutUint16(n) == <<n \div Base, n % Base>>
Uint16(b) == b[1] * Base + b[2]

\* The wire format.  Marshal is Validate, then this; uint16 cuts the size.
Encode(m) == PutUint16(Size(m) % (Base * Base)) \o <<m.Type>> \o m.Payload

\* Mutant: a buffer longer than its length field is accepted.
UnmarshalMessage_Longer(data) ==
  IF Len(data) < HeaderSize \/ Uint16(data) > Len(data) \/ Uint16(data) > MaxMessageSize
  THEN << >>
  ELSE <<[Type |-> data[3], Payload |-> SubSeq(data, HeaderSize + 1, Uint16(data))]>>

\* UnmarshalMessage: the message, or nothing.
UnmarshalMessage(data) ==
  IF Len(data) < HeaderSize \/ Uint16(data) # Len(data) \/ Uint16(data) > MaxMessageSize
  THEN << >>
  ELSE <<[Type |-> data[3], Payload |-> SubSeq(data, HeaderSize + 1, Len(data))]>>

-------------------------------------------------------------------------------
Init ==
  /\ \/ peer = "writer" /\ outbox \in Outboxes
     \/ peer = "raw" /\ outbox = << >>
  /\ written = << >> /\ closed = FALSE /\ input = << >>
  /\ pos = 0 /\ pc = "length" /\ remaining = 0
  /\ parsed = 0 /\ received = << >> /\ result = "none"

\* WriteMessage returns nil.
WriteMessage ==
  /\ ~closed /\ outbox # << >> /\ Validate(Head(outbox)) = "nil"
  /\ input' = input \o Encode(Head(outbox))
  /\ written' = Append(written, Head(outbox))
  /\ outbox' = Tail(outbox)
  /\ UNCHANGED <<peer, closed, reading>>

\* WriteMessage fails: in Marshal, or in the Write, of which any part but the
\* last byte may have been sent.  Its callers then close the connection.
WriteFails ==
  /\ ~closed /\ outbox # << >>
  /\ IF Validate(Head(outbox)) # "nil" THEN UNCHANGED input
     ELSE \E k \in 0 .. Size(Head(outbox)) - 1 :
            input' = input \o SubSeq(Encode(Head(outbox)), 1, k)
  /\ closed' = TRUE
  /\ UNCHANGED <<peer, outbox, written, reading>>

\* A peer that does not use WriteMessage.
WriteByte(b) ==
  /\ peer = "raw" /\ ~closed /\ Len(input) < MaxStream
  /\ input' = Append(input, b)
  /\ UNCHANGED <<peer, outbox, written, closed, reading>>

Close ==
  /\ ~closed /\ outbox = << >>
  /\ closed' = TRUE
  /\ UNCHANGED <<peer, outbox, written, input, reading>>

(***************************************************************************)
(* ReadMessage.                                                            *)
(***************************************************************************)
Unread == Len(input) - pos

Fail(err) ==
  /\ pc' = "done" /\ result' = err
  /\ UNCHANGED <<remaining, parsed, received>>

\* Mutant: no upper limit.
ReadLength_NoMax ==
  /\ pc = "length" /\ Unread >= LengthSize
  /\ pos' = pos + LengthSize
  /\ LET length == Uint16(SubSeq(input, pos + 1, pos + LengthSize))
     IN  IF length < HeaderSize THEN Fail("ErrMessageTooShort")
         ELSE /\ remaining' = length - LengthSize /\ pc' = "body"
              /\ UNCHANGED <<parsed, received, result>>
  /\ UNCHANGED writing

\* The length field is read and checked.
ReadLength ==
  /\ pc = "length" /\ Unread >= LengthSize
  /\ pos' = pos + LengthSize
  /\ LET length == Uint16(SubSeq(input, pos + 1, pos + LengthSize))
     IN  IF length < HeaderSize THEN Fail("ErrMessageTooShort")
         ELSE IF length > MaxMessageSize THEN Fail("ErrMessageTooLarge")
         ELSE /\ remaining' = length - LengthSize /\ pc' = "body"
              /\ UNCHANGED <<parsed, received, result>>
  /\ UNCHANGED writing

\* Type and payload are read, and the caller calls ReadMessage again.
ReadBody ==
  /\ pc = "body" /\ Unread >= remaining
  /\ pos' = pos + remaining
  /\ parsed' = pos + remaining
  /\ received' = Append(received,
       [Type |-> input[pos + 1], Payload |-> SubSeq(input, pos + 2, pos + remaining)])
  /\ pc' = "length"
  /\ UNCHANGED <<remaining, result, writing>>

\* Mutants: the end of the stream inside a message is a plain EOF; a short
\* body is waited for although nothing more can come.
ReadEnds_AlwaysEOF ==
  /\ closed
  /\ \/ pc = "length" /\ Unread < LengthSize
     \/ pc = "body" /\ Unread < remaining
  /\ pos' = Len(input)
  /\ Fail("EOF")
  /\ UNCHANGED writing

ReadEnds_WaitsForBody ==
  /\ closed /\ pc = "length" /\ Unread < LengthSize
  /\ pos' = Len(input)
  /\ Fail(IF Unread = 0 THEN "EOF" ELSE "ErrUnexpectedEOF")
  /\ UNCHANGED writing

\* The stream ends: before a message, within its length field, or after it.
ReadEnds ==
  /\ closed
  /\ \/ pc = "length" /\ Unread < LengthSize
        /\ Fail(IF Unread = 0 THEN "EOF" ELSE "ErrUnexpectedEOF")
     \/ pc = "body" /\ Unread < remaining /\ Fail("ErrUnexpectedEOF")
  /\ pos' = Len(input)
  /\ UNCHANGED writing

\* A read deadline, or any other error of the connection, wrapped.
ReadFails ==
  /\ pc # "done"
  /\ \E k \in pos .. Len(input) : pos' = k
  /\ Fail("wrapped")
  /\ UNCHANGED writing

Write == WriteMessage \/ WriteFails \/ (\E b \in Byte : WriteByte(b)) \/ Close
Read == ReadLength \/ ReadBody \/ ReadEnds
Next == Write \/ Read \/ ReadFails

Spec == Init /\ [][Next]_vars

\* The reading goroutine runs when it can; the writing side closes in the end
\* (main and the handlers close every connection).
FairSpec == Spec /\ WF_vars(Read) /\ WF_vars(Close \/ WriteMessage \/ WriteFails)

-------------------------------------------------------------------------------
Errors == {"EOF", "ErrUnexpectedEOF", "ErrMessageTooShort", "ErrMessageTooLarge",
           "wrapped"}

\* Type invariant.
TypeOK ==
  /\ peer \in {"writer", "raw"} /\ closed \in BOOLEAN
  /\ outbox \in Seq(Message) /\ written \in Seq(Message)
  /\ input \in Seq(Byte) /\ {pos, parsed} \subseteq 0 .. Len(input)
  /\ pc \in {"length", "body", "done"} /\ remaining \in Nat
  /\ received \in Seq(Message)
  /\ result \in Errors \cup {"none"} /\ (result = "none" <=> pc # "done")

\* The length checks let through what they should and no more: what
\* ReadMessage allocates for a body is never empty (it takes the type from
\* buf[0]) and never more than MaxMessageSize asks for, whatever the peer sends,
\* and no message of one's own WriteMessage is refused, the largest included.
LengthChecks ==
  /\ pc = "body" => remaining \in 1 .. MaxMessageSize - LengthSize
  /\ peer = "writer" => result \notin {"ErrMessageTooShort", "ErrMessageTooLarge"}

\* The encodings of messages, one after the other.
Stream(ms) ==
  LET upTo[n \in 0 .. Len(ms)] ==
        IF n = 0 THEN << >> ELSE upTo[n - 1] \o Encode(ms[n])
  IN  upTo[Len(ms)]

\* Nothing is skipped, repeated or made up: the bytes up to the end of the
\* last message are exactly the encodings of the messages returned, for every
\* peer; what WriteMessage sent whole is what is read, in its order.
Accounted ==
  /\ SubSeq(input, 1, parsed) = Stream(received)
  /\ peer = "writer" =>
       /\ Len(received) <= Len(written)
       /\ \A i \in 1 .. Len(received) : received[i] = written[i]

\* io.EOF, which handleReadError takes for a clean end and turns into nil, is
\* returned only between messages and when every message that was written whole
\* has been read: a connection lost inside a message is never taken for it.
CleanEOF ==
  result = "EOF" =>
    /\ parsed = Len(input)
    /\ peer = "writer" => received = written

\* The two decoders agree: UnmarshalMessage accepts a buffer just when
\* ReadMessage, given it as a stream, returns one message and then io.EOF.
DecodersAgree ==
  pc = "done" /\ closed /\ result # "wrapped" =>
    IF UnmarshalMessage(input) = << >> THEN ~(Len(received) = 1 /\ result = "EOF")
    ELSE received = UnmarshalMessage(input) /\ result = "EOF"

\* A reader without a deadline comes back when the stream has ended, wherever
\* it ended.
ReaderReturns == <>(pc = "done")

===============================================================================
