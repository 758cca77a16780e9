----------------------------- MODULE FramingProofs ----------------------------
(***************************************************************************)
(* Proofs about Framing, for bytes of any number of values, any limit on   *)
(* the size that the length field can express, and messages, streams and   *)
(* outboxes of any length.                                                 *)
(***************************************************************************)
EXTENDS Framing, SequenceTheorems, TLAPS

\* Two bytes hold a number below Base * Base.
LEMMA TwoBytes ==
  ASSUME NEW n \in Nat, n < Base * Base
  PROVE  /\ n \div Base \in Byte /\ n % Base \in Byte
         /\ (n \div Base) * Base + (n % Base) = n
<1>0. Base \in Nat \ {0}
  BY FramingAssumption
<1> DEFINE q == n \div Base
           r == n % Base
<1>1. q \in Nat /\ r \in 0 .. Base - 1 /\ n = Base * q + r
  BY <1>0
<1>3. q * Base + r = n
  BY <1>0, <1>1
<1>2. q < Base
  <2> HIDE DEF q, r
  <2>1. SUFFICES ASSUME q >= Base PROVE FALSE
    BY <1>0, <1>1
  <2>2. Base * q >= Base * Base
    BY <2>1, <1>0, <1>1
  <2> QED
    BY <2>2, <1>0, <1>1
<1> HIDE DEF q, r
<1>4. q \in Byte /\ r \in Byte
  BY <1>0, <1>1, <1>2 DEF Byte
<1> QED
  BY <1>3, <1>4 DEF q, r

\* A number below the modulus is its own remainder.
LEMMA SmallMod ==
  ASSUME NEW b \in Nat, NEW n \in Nat, n < b
  PROVE  n % b = n
<1> DEFINE q == n \div b
           r == n % b
<1>1. q \in Nat /\ r \in 0 .. b - 1 /\ n = b * q + r
  OBVIOUS
<1>2. q = 0
  <2> HIDE DEF q, r
  <2> SUFFICES ASSUME q >= 1 PROVE FALSE
    BY <1>1
  <2>1. b * q >= b
    BY <1>1
  <2> QED
    BY <1>1, <2>1
<1> HIDE DEF q, r
<1>3. r = n
  BY <1>1, <1>2
<1> QED
  BY <1>3 DEF r

\* The encoding of a message, byte by byte.
LEMMA EncodeBytes ==
  ASSUME NEW m \in Message, Size(m) <= MaxMessageSize
  PROVE  /\ Size(m) \in Nat /\ Size(m) >= HeaderSize
         /\ Encode(m) \in Seq(Byte) /\ Len(Encode(m)) = Size(m)
         /\ Encode(m)[1] * Base + Encode(m)[2] = Size(m)
         /\ Encode(m)[3] = m.Type
         /\ \A j \in 1 .. Len(m.Payload) : Encode(m)[HeaderSize + j] = m.Payload[j]
<1>1. /\ m.Type \in Byte /\ m.Payload \in Seq(Byte) /\ Len(m.Payload) \in Nat
      /\ Size(m) = 3 + Len(m.Payload) /\ Size(m) \in Nat
  BY DEF Message, Size, HeaderSize
<1>2. Base * Base \in Nat /\ MaxMessageSize \in Nat /\ MaxMessageSize < Base * Base
  BY FramingAssumption DEF HeaderSize
<1>3. Size(m) < Base * Base
  BY <1>1, <1>2
<1>4. Size(m) % (Base * Base) = Size(m)
  <2> DEFINE B == Base * Base
             n == Size(m)
  <2>1. B \in Nat /\ n \in Nat /\ n < B
    BY <1>1, <1>2, <1>3
  <2> HIDE DEF B, n
  <2>2. n % B = n
    BY <2>1, SmallMod
  <2> QED
    BY <2>2 DEF B, n
<1> DEFINE q == Size(m) \div Base
           r == Size(m) % Base
<1>5. q \in Byte /\ r \in Byte /\ q * Base + r = Size(m)
  <2> DEFINE n == Size(m)
  <2>1. n \in Nat /\ n < Base * Base
    BY <1>1, <1>3
  <2> HIDE DEF n
  <2>2. n \div Base \in Byte /\ n % Base \in Byte /\ (n \div Base) * Base + (n % Base) = n
    BY <2>1, TwoBytes
  <2> QED
    BY <2>2 DEF n
<1>6. Encode(m) = <<q, r>> \o <<m.Type>> \o m.Payload
  BY <1>4 DEF Encode, PutUint16
<1> HIDE DEF q, r
<1>7. /\ Encode(m) \in Seq(Byte) /\ Len(Encode(m)) = 3 + Len(m.Payload)
      /\ Encode(m)[1] = q /\ Encode(m)[2] = r /\ Encode(m)[3] = m.Type
      /\ \A j \in 1 .. Len(m.Payload) : Encode(m)[3 + j] = m.Payload[j]
  <2> DEFINE a == <<q, r>>
             b == <<m.Type>>
             h == a \o b
  <2>1. /\ a \in Seq(Byte) /\ Len(a) = 2 /\ a[1] = q /\ a[2] = r
        /\ b \in Seq(Byte) /\ Len(b) = 1 /\ b[1] = m.Type
    BY <1>1, <1>5
  <2>2. Encode(m) = h \o m.Payload
    BY <1>6
  <2> HIDE DEF a, b
  <2>3. h \in Seq(Byte) /\ Len(h) = 3 /\ h[1] = q /\ h[2] = r /\ h[3] = m.Type
    <3>1. /\ h \in Seq(Byte) /\ Len(h) = Len(a) + Len(b)
          /\ \A i \in 1 .. Len(a) + Len(b) :
               h[i] = IF i <= Len(a) THEN a[i] ELSE b[i - Len(a)]
      BY <2>1, ConcatProperties, Zenon
    <3> HIDE DEF h
    <3>2. 1 \in 1 .. 3 /\ 2 \in 1 .. 3 /\ 3 \in 1 .. 3
      OBVIOUS
    <3>3. h[1] = a[1] /\ h[2] = a[2] /\ h[3] = b[1]
      BY <2>1, <3>1, <3>2
    <3> QED
      BY <2>1, <3>1, <3>3
  <2> HIDE DEF h
  <2> QED
    <3> DEFINE c == h \o m.Payload
    <3>1. /\ c \in Seq(Byte) /\ Len(c) = Len(h) + Len(m.Payload)
          /\ \A i \in 1 .. Len(h) + Len(m.Payload) :
               c[i] = IF i <= Len(h) THEN h[i] ELSE m.Payload[i - Len(h)]
      BY <1>1, <2>3, ConcatProperties, Zenon
    <3> HIDE DEF c
    <3>2. \A j \in 1 .. Len(m.Payload) : c[3 + j] = m.Payload[j]
      BY <1>1, <2>3, <3>1
    <3>3. c[1] = h[1] /\ c[2] = h[2] /\ c[3] = h[3]
      BY <1>1, <2>3, <3>1
    <3> QED
      BY <1>1, <2>2, <2>3, <3>1, <3>2, <3>3 DEF c
<1> QED
  BY <1>1, <1>5, <1>7 DEF HeaderSize

(***************************************************************************)
(* The inductive invariant.                                                *)
(***************************************************************************)
\* The length field that stands at position p.
Field(in, p) == in[p + 1] * Base + in[p + 2]

\* The bytes of in after position p begin with the whole of m.
Holds(in, p, m) ==
  /\ Size(m) \in HeaderSize .. MaxMessageSize /\ p + Size(m) <= Len(in)
  /\ Field(in, p) = Size(m) /\ in[p + 3] = m.Type
  /\ \A j \in 1 .. Len(m.Payload) : in[p + 3 + j] = m.Payload[j]

\* What holds for every peer: where the reader is within a message.
Local ==
  /\ parsed <= pos
  /\ pc = "length" => pos = parsed
  /\ pc = "body" =>
       /\ pos = parsed + LengthSize /\ remaining \in 1 .. MaxMessageSize - LengthSize
       /\ remaining + LengthSize = Field(input, parsed)
  /\ result = "EOF" => closed /\ parsed = Len(input)
  /\ peer = "raw" => outbox = << >>

\* Message i of WriteMessage stands after position e[i]; the stream ends with
\* the last of them, or within a message whose Write failed.
Layout(e) ==
  /\ e \in [1 .. Len(written) + 1 -> Nat] /\ e[1] = 0
  /\ \A i \in 1 .. Len(written) :
       e[i + 1] = e[i] + Size(written[i]) /\ Holds(input, e[i], written[i])
  /\ e[Len(written) + 1] <= Len(input)
  /\ ~closed => Len(input) = e[Len(written) + 1]
  /\ e[Len(written) + 1] + LengthSize <= Len(input) =>
       /\ Field(input, e[Len(written) + 1]) \in HeaderSize .. MaxMessageSize
       /\ Len(input) < e[Len(written) + 1] + Field(input, e[Len(written) + 1])

\* The reader has the first messages and stands before the next one.
Reader(e) ==
  /\ Len(received) <= Len(written)
  /\ \A i \in 1 .. Len(received) : received[i] = written[i]
  /\ parsed = e[Len(received) + 1]
  /\ result \notin {"ErrMessageTooShort", "ErrMessageTooLarge"}
  /\ result = "EOF" => Len(received) = Len(written)

FInv ==
  /\ TypeOK /\ Local
  /\ peer = "writer" => \E e : Layout(e) /\ Reader(e)

\* The constants.
LEMMA Constants ==
  /\ Base \in Nat \ {0} /\ MaxMessageSize \in Nat /\ MaxMessageSize >= 3
  /\ HeaderSize = 3 /\ LengthSize = 2
BY FramingAssumption DEF HeaderSize, LengthSize

\* A length field is a number.
LEMMA FieldType ==
  ASSUME NEW in \in Seq(Byte), NEW p \in Nat, p + 2 <= Len(in)
  PROVE  Field(in, p) \in Nat
<1>1. in[p + 1] \in Byte /\ in[p + 2] \in Byte
  OBVIOUS
<1> DEFINE x == in[p + 1]
           y == in[p + 2]
<1>2. Base \in Nat /\ x \in Nat /\ y \in Nat
  BY <1>1, Constants DEF Byte
<1> HIDE DEF x, y
<1>3. x * Base + y \in Nat
  BY <1>2
<1> QED
  BY <1>3 DEF Field, x, y

\* What ReadMessage decodes from its two-byte buffer.
LEMMA FieldRead ==
  ASSUME NEW in \in Seq(Byte), NEW p \in Nat, p + LengthSize <= Len(in)
  PROVE  Uint16(SubSeq(in, p + 1, p + LengthSize)) = Field(in, p)
<1>0. p + 2 <= Len(in)
  BY Constants
<1>1. SubSeq(in, p + 1, p + 2)[1] = in[p + 1]
  BY <1>0
<1>2. SubSeq(in, p + 1, p + 2)[2] = in[p + 2]
  BY <1>0
<1> QED
  BY <1>1, <1>2, Constants DEF Field, Uint16

\* The invariant holds at the start.
LEMMA InitFInv == Init => FInv
<1> SUFFICES ASSUME Init PROVE FInv
  OBVIOUS
<1>1. outbox \in Seq(Message)
  <2>1. CASE outbox \in Outboxes
    BY <2>1, FramingAssumption
  <2>2. CASE outbox = << >>
    BY <2>2
  <2> QED
    BY <2>1, <2>2 DEF Init
<1>2. TypeOK
  <2>1. << >> \in Seq(Message) /\ << >> \in Seq(Byte) /\ Len(<< >>) = 0
    OBVIOUS
  <2>2. peer \in {"writer", "raw"} /\ closed \in BOOLEAN
    BY Zenon DEF Init
  <2> QED
    BY <1>1, <2>1, <2>2 DEF Init, TypeOK
<1>3. Local
  BY Constants DEF Init, Local
<1> DEFINE e == [i \in {1} |-> 0]
<1>4. Layout(e)
  BY Constants DEF Init, Layout
<1>5. Reader(e)
  BY DEF Init, Reader
<1> QED
  BY <1>2, <1>3, <1>4, <1>5 DEF FInv

(***************************************************************************)
(* The writing side.                                                       *)
(***************************************************************************)
\* More bytes leave the whole messages and the length fields as they were.
LEMMA Grown ==
  ASSUME NEW in \in Seq(Byte), NEW more \in Seq(Byte), NEW p \in Nat
  PROVE  /\ p + LengthSize <= Len(in) => Field(in \o more, p) = Field(in, p)
         /\ \A m \in Message : Holds(in, p, m) => Holds(in \o more, p, m)
<1> DEFINE t == in \o more
<1>1. /\ t \in Seq(Byte) /\ Len(t) = Len(in) + Len(more)
      /\ Len(more) \in Nat /\ Len(in) \in Nat
      /\ \A i \in 1 .. Len(in) : t[i] = in[i]
  OBVIOUS
<1> HIDE DEF t
<1>2. p + LengthSize <= Len(in) => Field(t, p) = Field(in, p)
  BY <1>1, Constants DEF Field
<1>3. ASSUME NEW m \in Message, Holds(in, p, m)
      PROVE  Holds(t, p, m)
  <2>1. Size(m) = 3 + Len(m.Payload) /\ Len(m.Payload) \in Nat
    BY Constants DEF Size, Message
  <2>2. Size(m) \in HeaderSize .. MaxMessageSize /\ p + Size(m) <= Len(in)
    BY <1>3 DEF Holds
  <2> DEFINE k == Len(m.Payload)
  <2>a. k \in Nat /\ p + 3 + k <= Len(in)
    <3>1. p + Size(m) <= Len(in) /\ Size(m) = 3 + k /\ k \in Nat
      BY <2>1, <2>2
    <3> HIDE DEF k
    <3> QED
      BY <1>1, <3>1
  <2> HIDE DEF k
  <2>3. Field(t, p) = Field(in, p) /\ t[p + 3] = in[p + 3]
    BY <1>1, <1>2, <2>a, Constants
  <2>4. \A j \in 1 .. k : t[p + 3 + j] = in[p + 3 + j]
    BY <1>1, <2>a, SMTT(30)
  <2> QED
    BY <1>1, <1>3, <2>1, <2>2, <2>3, <2>4, Constants, SMTT(30) DEF Holds, k
<1> QED
  BY <1>2, <1>3 DEF t

\* A message that is written is at the end of the stream.
LEMMA Added ==
  ASSUME NEW in \in Seq(Byte), NEW m \in Message, Size(m) <= MaxMessageSize
  PROVE  /\ Holds(in \o Encode(m), Len(in), m) /\ in \o Encode(m) \in Seq(Byte)
         /\ Len(in \o Encode(m)) = Len(in) + Size(m)
<1> DEFINE c == Encode(m)
           t == in \o c
           z == Len(in)
<1>1. /\ Size(m) \in Nat /\ Size(m) >= 3 /\ c \in Seq(Byte) /\ Len(c) = Size(m)
      /\ c[1] * Base + c[2] = Size(m) /\ c[3] = m.Type
      /\ \A j \in 1 .. Len(m.Payload) : c[3 + j] = m.Payload[j]
      /\ Size(m) = 3 + Len(m.Payload) /\ Len(m.Payload) \in Nat
  BY EncodeBytes, Constants DEF Size, Message
<1> HIDE DEF c
<1>2. /\ t \in Seq(Byte) /\ Len(t) = z + Len(c) /\ z \in Nat
      /\ \A i \in 1 .. Len(c) : t[z + i] = c[i]
  <2>1. /\ t \in Seq(Byte) /\ Len(t) = Len(in) + Len(c)
        /\ \A i \in 1 .. Len(in) + Len(c) :
             t[i] = IF i <= Len(in) THEN in[i] ELSE c[i - Len(in)]
    BY <1>1, ConcatProperties, Zenon
  <2>2. Len(in) \in Nat /\ Len(c) \in Nat
    BY <1>1
  <2> HIDE DEF t
  <2> QED
    BY <2>1, <2>2
<1> HIDE DEF t, z
<1>3. t[z + 1] = c[1] /\ t[z + 2] = c[2] /\ t[z + 3] = c[3]
  BY <1>1, <1>2, SMTT(30)
<1>4. \A j \in 1 .. Len(m.Payload) : t[z + 3 + j] = m.Payload[j]
  <2> TAKE j \in 1 .. Len(m.Payload)
  <2>1. 3 + j \in 1 .. Len(c) /\ z + (3 + j) = z + 3 + j
    BY <1>1, <1>2
  <2> QED
    BY <1>1, <1>2, <2>1
<1>5. Field(t, z) = Size(m)
  BY <1>1, <1>3 DEF Field
<1>6. Holds(t, z, m)
  BY <1>1, <1>2, <1>3, <1>4, <1>5, Constants DEF Holds
<1> QED
  BY <1>1, <1>2, <1>6 DEF t, z, c

\* The stream has grown and the reader has not moved.
Grew ==
  /\ input' \in Seq(Byte) /\ Len(input') >= Len(input)
  /\ \A p \in Nat : p + LengthSize <= Len(input) => Field(input', p) = Field(input, p)
  /\ ~closed /\ UNCHANGED <<peer, reading>>

\* Then the reader's part of the invariant holds as before.
LEMMA GrewLocal ==
  ASSUME TypeOK, Local, Grew, outbox' \in Seq(Message), written' \in Seq(Message),
         closed' \in BOOLEAN, outbox = << >> => outbox' = << >>
  PROVE  TypeOK' /\ Local'
<1>1. /\ Len(input) \in Nat /\ Len(input') \in Nat /\ Len(input') >= Len(input)
      /\ pos \in Nat /\ pos <= Len(input) /\ parsed \in Nat /\ parsed <= Len(input)
      /\ pos' = pos /\ parsed' = parsed /\ pc' = pc /\ remaining' = remaining
      /\ received' = received /\ result' = result /\ peer' = peer
  BY DEF TypeOK, Grew, reading
<1>2. TypeOK'
  BY <1>1 DEF TypeOK, Grew
<1>3. pc = "body" => Field(input', parsed) = Field(input, parsed)
  BY <1>1 DEF Local, Grew
<1>4. Local'
  BY <1>1, <1>3 DEF Local, Grew
<1> QED
  BY <1>2, <1>4

\* WriteMessage returns nil.
LEMMA WriteMessageStep ==
  ASSUME FInv, WriteMessage
  PROVE  FInv'
<1> DEFINE m == Head(outbox)
           n == Len(written)
<1>1. /\ m \in Message /\ Tail(outbox) \in Seq(Message) /\ peer = "writer" /\ peer' = peer
      /\ input \in Seq(Byte) /\ Len(input) \in Nat
      /\ written \in Seq(Message) /\ received \in Seq(Message) /\ n \in Nat
      /\ Len(received) \in Nat
  BY DEF FInv, TypeOK, Local, WriteMessage
<1>2. Size(m) <= MaxMessageSize /\ Size(m) \in Nat
  BY <1>1, Constants DEF WriteMessage, Validate, Size, Message
<1>3. input' = input \o Encode(m) /\ written' = Append(written, m) /\ outbox' = Tail(outbox)
  BY DEF WriteMessage
<1>4. /\ Holds(input', Len(input), m) /\ input' \in Seq(Byte)
      /\ Len(input') = Len(input) + Size(m)
  BY <1>1, <1>2, <1>3, Added
<1>5. \A p \in Nat :
        /\ p + LengthSize <= Len(input) => Field(input', p) = Field(input, p)
        /\ \A w \in Message : Holds(input, p, w) => Holds(input', p, w)
  <2>1. Encode(m) \in Seq(Byte)
    BY <1>1, <1>2, EncodeBytes
  <2> QED
    BY <1>1, <1>3, <2>1, Grown
<1> HIDE DEF m
<1>6. Grew
  BY <1>1, <1>2, <1>4, <1>5 DEF Grew, WriteMessage
<1>7. TypeOK' /\ Local'
  <2>1. written' \in Seq(Message) /\ outbox' \in Seq(Message) /\ closed' \in BOOLEAN
    BY <1>1, <1>3 DEF WriteMessage, FInv, TypeOK
  <2> QED
    BY <1>6, <2>1, GrewLocal DEF FInv, WriteMessage
<1>8. PICK e : Layout(e) /\ Reader(e)
  BY <1>1 DEF FInv
<1>9. /\ Len(written') = n + 1 /\ written'[n + 1] = m
      /\ \A i \in 1 .. n : written'[i] = written[i] /\ written[i] \in Message
  BY <1>1, <1>3
<1>10. /\ e \in [1 .. n + 1 -> Nat] /\ e[1] = 0 /\ e[n + 1] = Len(input)
       /\ \A i \in 1 .. n : e[i + 1] = e[i] + Size(written[i]) /\ Holds(input, e[i], written[i])
  BY <1>8 DEF Layout, WriteMessage
<1>11. PICK f : /\ f \in [1 .. n + 2 -> Nat] /\ f[n + 2] = Len(input') /\ f[1] = 0
                /\ \A i \in 1 .. n + 1 : f[i] = e[i]
  <2> DEFINE g == [i \in 1 .. n + 2 |-> IF i <= n + 1 THEN e[i] ELSE Len(input')]
  <2>1. /\ g \in [1 .. n + 2 -> Nat] /\ g[n + 2] = Len(input') /\ g[1] = 0
        /\ \A i \in 1 .. n + 1 : g[i] = e[i]
    BY <1>1, <1>4, <1>10
  <2> HIDE DEF g
  <2> QED
    BY <2>1
<1> HIDE DEF n
<1>0. n \in Nat
  BY <1>1 DEF n
<1>12. Layout(f)'
  <2>1. ASSUME NEW i \in 1 .. n
        PROVE  f[i + 1] = f[i] + Size(written'[i]) /\ Holds(input', f[i], written'[i])
    <3>0. i \in 1 .. n + 1 /\ i + 1 \in 1 .. n + 1
      BY <1>0
    <3>1. /\ f[i + 1] = e[i + 1] /\ f[i] = e[i] /\ e[i] \in Nat
          /\ written'[i] = written[i] /\ written[i] \in Message
      BY <3>0, <1>9, <1>10, <1>11
    <3> QED
      BY <1>5, <1>10, <3>1
  <2>2. f[n + 2] = f[n + 1] + Size(written'[n + 1]) /\ Holds(input', f[n + 1], written'[n + 1])
    BY <1>1, <1>4, <1>9, <1>10, <1>11
  <2>3. \A i \in 1 .. Len(written') :
          f[i + 1] = f[i] + Size(written'[i]) /\ Holds(input', f[i], written'[i])
    <3> SUFFICES ASSUME NEW i \in 1 .. n + 1
                 PROVE  f[i + 1] = f[i] + Size(written'[i]) /\ Holds(input', f[i], written'[i])
      BY <1>9
    <3>1. CASE i = n + 1
      <4>1. i + 1 = n + 2
        BY <1>1, <3>1
      <4> QED
        BY <2>2, <3>1, <4>1
    <3>2. CASE i \in 1 .. n
      BY <2>1, <3>2
    <3> QED
      BY <1>1, <3>1, <3>2 DEF n
  <2>4. Len(written') + 1 = n + 2
    BY <1>1, <1>9
  <2>5. Len(input') \in Nat
    BY <1>4
  <2> QED
    BY <1>11, <2>3, <2>4, <2>5, Constants DEF Layout
<1>13. Reader(f)'
  <2>1. /\ received' = received /\ parsed' = parsed /\ result' = result
        /\ result # "EOF"
    BY DEF WriteMessage, reading, FInv, Local
  <2>2. Len(received) <= n /\ \A i \in 1 .. Len(received) : received[i] = written[i]
    BY <1>8 DEF Reader, n
  <2>3. parsed = f[Len(received) + 1]
    BY <1>1, <1>8, <1>11, <2>2 DEF Reader
  <2>4. \A i \in 1 .. Len(received) : received[i] = written'[i]
    BY <1>1, <1>9, <2>2
  <2> QED
    BY <1>1, <1>8, <1>9, <2>1, <2>2, <2>3, <2>4 DEF Reader
<1> QED
  BY <1>7, <1>12, <1>13 DEF FInv

\* WriteMessage fails, having sent a part of the message or nothing.
LEMMA WriteFailsStep ==
  ASSUME FInv, WriteFails
  PROVE  FInv'
<1> DEFINE m == Head(outbox)
           n == Len(written)
<1>1. /\ m \in Message /\ peer = "writer" /\ input \in Seq(Byte) /\ Len(input) \in Nat
      /\ UNCHANGED <<peer, outbox, written, reading>> /\ closed' = TRUE /\ ~closed
      /\ outbox \in Seq(Message) /\ written \in Seq(Message) /\ n \in Nat
  BY DEF FInv, TypeOK, Local, WriteFails
<1>2. PICK e : Layout(e) /\ Reader(e)
  BY <1>1 DEF FInv
<1>3. result # "EOF"
  BY <1>1 DEF FInv, Local
<1>4. Reader(e)'
  BY <1>1, <1>2, <1>3 DEF Reader, reading
<1>5. CASE UNCHANGED input
  <2>1. Grew
    BY <1>1, <1>5 DEF Grew
  <2>2. TypeOK' /\ Local'
    BY <1>1, <2>1, GrewLocal DEF FInv
  <2>3. Layout(e)'
    BY <1>1, <1>2, <1>5 DEF Layout
  <2> QED
    BY <1>4, <2>2, <2>3 DEF FInv
<1>6. ASSUME NEW k \in 0 .. Size(m) - 1, Size(m) <= MaxMessageSize,
             input' = input \o SubSeq(Encode(m), 1, k)
      PROVE  FInv'
  <2> DEFINE c == Encode(m)
             b == SubSeq(c, 1, k)
             z == Len(input)
  <2>1. /\ Size(m) \in Nat /\ Size(m) >= 3 /\ c \in Seq(Byte) /\ Len(c) = Size(m)
        /\ c[1] * Base + c[2] = Size(m)
    BY <1>1, <1>6, EncodeBytes, Constants
  <2> HIDE DEF c, m
  <2>2. /\ k \in Nat /\ k < Size(m) /\ b \in Seq(Byte) /\ Len(b) = k
        /\ \A i \in 1 .. k : b[i] = c[i]
    BY <1>6, <2>1
  <2>3. /\ input' \in Seq(Byte) /\ Len(input') = z + k /\ z \in Nat
        /\ \A i \in 1 .. k : input'[z + i] = b[i]
    <3>0. input' = input \o b
      BY <1>6 DEF c
    <3> HIDE DEF b
    <3>1. /\ input' \in Seq(Byte) /\ Len(input') = z + Len(b)
          /\ \A i \in 1 .. z + Len(b) :
               input'[i] = IF i <= z THEN input[i] ELSE b[i - z]
      BY <3>0, <1>1, <2>2, ConcatProperties, Zenon
    <3> QED
      BY <1>1, <2>2, <3>1
  <2>4. \A p \in Nat :
          /\ p + LengthSize <= Len(input) => Field(input', p) = Field(input, p)
          /\ \A w \in Message : Holds(input, p, w) => Holds(input', p, w)
    BY <1>1, <1>6, <2>2, Grown, Zenon DEF c
  <2>5. TypeOK' /\ Local'
    <3>1. Grew
      BY <1>1, <2>2, <2>3, <2>4 DEF Grew
    <3> QED
      BY <1>1, <3>1, GrewLocal DEF FInv
  <2>6. /\ e \in [1 .. n + 1 -> Nat] /\ e[1] = 0 /\ e[n + 1] = z
        /\ \A i \in 1 .. n : e[i + 1] = e[i] + Size(written[i]) /\ Holds(input, e[i], written[i])
    BY <1>1, <1>2 DEF Layout
  <2>7. ASSUME NEW i \in 1 .. n
        PROVE  e[i + 1] = e[i] + Size(written[i]) /\ Holds(input', e[i], written[i])
    <3>0. i \in 1 .. n + 1
      BY <1>1
    <3>a. e[i] \in Nat
      BY <2>6, <3>0
    <3>b. written[i] \in Message
      BY <1>1
    <3>1. e[i] \in Nat /\ written[i] \in Message
      BY <3>a, <3>b
    <3> QED
      BY <2>4, <2>6, <3>1
  <2> HIDE DEF b, z
  <2>8. z + LengthSize <= Len(input') =>
          /\ Field(input', z) \in HeaderSize .. MaxMessageSize
          /\ Len(input') < z + Field(input', z)
    <3> SUFFICES ASSUME z + LengthSize <= Len(input')
                 PROVE  /\ Field(input', z) \in HeaderSize .. MaxMessageSize
                        /\ Len(input') < z + Field(input', z)
      OBVIOUS
    <3>1. k >= 2
      BY <2>2, <2>3, Constants
    <3>2. input'[z + 1] = c[1] /\ input'[z + 2] = c[2]
      BY <2>2, <2>3, <3>1
    <3>3. Field(input', z) = Size(m)
      BY <2>1, <3>2 DEF Field
    <3> QED
      BY <1>6, <2>1, <2>2, <2>3, <3>3, Constants DEF m
  <2>9. Layout(e)'
    <3>1. written' = written /\ closed' = TRUE /\ Len(input') >= z
      BY <1>1, <2>2, <2>3
    <3> HIDE DEF n
    <3> QED
      BY <2>6, <2>7, <2>8, <3>1 DEF Layout, n
  <2> QED
    BY <1>4, <2>5, <2>9 DEF FInv
<1>7. Size(m) \in Nat /\ (Validate(m) = "nil" => Size(m) <= MaxMessageSize)
  BY <1>1, Constants DEF Validate, Size, Message
<1>8. \/ UNCHANGED input
      \/ /\ Validate(m) = "nil"
         /\ \E k \in 0 .. Size(m) - 1 : input' = input \o SubSeq(Encode(m), 1, k)
  BY Zenon DEF WriteFails
<1> HIDE DEF m
<1> QED
  BY <1>5, <1>6, <1>7, <1>8, Zenon

\* A byte of the peer's own making, and the end of the stream.
LEMMA WriteByteStep ==
  ASSUME FInv, \/ \E b \in Byte : WriteByte(b)
               \/ Close
  PROVE  FInv'
<1>1. CASE Close
  <2>1. Grew
    BY <1>1 DEF Grew, Close, FInv, TypeOK
  <2>2. TypeOK' /\ Local'
    BY <1>1, <2>1, GrewLocal DEF FInv, TypeOK, Close
  <2>3. ASSUME NEW e, Layout(e), Reader(e)
        PROVE  Layout(e)' /\ Reader(e)'
    BY <1>1, <2>3 DEF Layout, Reader, Close, reading
  <2> QED
    BY <1>1, <2>2, <2>3 DEF FInv, Close
<1>2. ASSUME NEW b \in Byte, WriteByte(b)
      PROVE  FInv'
  <2>1. input \in Seq(Byte) /\ Len(input) \in Nat /\ input' = Append(input, b) /\ peer = "raw"
    BY <1>2 DEF FInv, TypeOK, WriteByte
  <2>2. /\ input' \in Seq(Byte) /\ Len(input') = Len(input) + 1
        /\ \A i \in 1 .. Len(input) : input'[i] = input[i]
    BY <2>1
  <2>3. Grew
    BY <1>2, <2>1, <2>2, Constants DEF Grew, WriteByte, Field
  <2>4. TypeOK' /\ Local'
    BY <1>2, <2>3, GrewLocal DEF FInv, TypeOK, WriteByte
  <2> QED
    BY <1>2, <2>1, <2>4 DEF FInv, WriteByte
<1> QED
  BY <1>1, <1>2

(***************************************************************************)
(* The reading side.                                                       *)
(***************************************************************************)
\* What stands where the reader is: a whole message, or the rest of one whose
\* Write failed.
LEMMA Ahead ==
  ASSUME TypeOK, NEW e, Layout(e), Reader(e), parsed + LengthSize <= Len(input)
  PROVE  /\ Field(input, parsed) \in HeaderSize .. MaxMessageSize
         /\ \/ Len(input) < parsed + Field(input, parsed) /\ Len(received) = Len(written)
            \/ /\ Len(received) < Len(written)
               /\ Holds(input, parsed, written[Len(received) + 1])
               /\ e[Len(received) + 2] = parsed + Field(input, parsed)
<1> DEFINE n == Len(received) + 1
<1>1. /\ Len(received) \in Nat /\ Len(written) \in Nat /\ Len(received) <= Len(written)
      /\ parsed = e[n] /\ n \in Nat /\ n >= 1
  BY DEF TypeOK, Reader
<1>2. CASE Len(received) = Len(written)
  BY <1>1, <1>2 DEF Layout
<1>3. CASE Len(received) < Len(written)
  <2>1. n \in 1 .. Len(written) /\ n + 1 = Len(received) + 2
    BY <1>1, <1>3
  <2> HIDE DEF n
  <2>2. Holds(input, e[n], written[n]) /\ e[n + 1] = e[n] + Size(written[n])
    BY <2>1 DEF Layout
  <2>3. Field(input, e[n]) = Size(written[n]) /\ Size(written[n]) \in HeaderSize .. MaxMessageSize
    BY <2>2 DEF Holds
  <2> QED
    BY <1>1, <1>3, <2>1, <2>2, <2>3 DEF n
<1> QED
  BY <1>1, <1>2, <1>3

\* The reader moves and the stream does not.
LEMMA LayoutStays ==
  ASSUME UNCHANGED writing, NEW e, Layout(e)
  PROVE  Layout(e)'
BY DEF Layout, writing

\* The reading side returns an error that is not one of the length checks'.
LEMMA ReadStopsStep ==
  ASSUME FInv, ReadEnds \/ ReadFails
  PROVE  FInv'
<1>1. /\ pc # "done" /\ pc' = "done" /\ UNCHANGED <<remaining, parsed, received, writing>>
      /\ \/ /\ result' = "EOF" /\ closed /\ pc = "length" /\ Len(input) - pos = 0
            /\ pos' = Len(input)
         \/ result' \in {"ErrUnexpectedEOF", "wrapped"}
      /\ pos' \in pos .. Len(input)
  <2>1. pos \in Nat /\ Len(input) \in Nat /\ pos <= Len(input)
    BY DEF FInv, TypeOK
  <2>2. CASE ReadFails
    BY <2>2 DEF ReadFails, Fail
  <2>3. CASE ReadEnds
    BY <2>1, <2>3 DEF ReadEnds, Fail, Unread
  <2> QED
    BY <2>2, <2>3
<1>2. /\ pos \in Nat /\ parsed \in Nat /\ Len(input) \in Nat /\ pos <= Len(input)
      /\ pos' \in Nat /\ pos' >= pos /\ pos' <= Len(input) /\ parsed <= pos
  BY <1>1 DEF FInv, TypeOK, Local
<1>3. TypeOK'
  BY <1>1, <1>2 DEF FInv, TypeOK, writing, Errors
<1>4. result' = "EOF" => closed /\ parsed = Len(input)
  BY <1>1, <1>2 DEF FInv, Local
<1>5. Local'
  BY <1>1, <1>2, <1>4 DEF FInv, Local, writing
<1>6. ASSUME NEW e, Layout(e), Reader(e)
      PROVE  Layout(e)' /\ Reader(e)'
  <2>1. result' = "EOF" => Len(received) = Len(written)
    <3> SUFFICES ASSUME result' = "EOF", Len(received) # Len(written) PROVE FALSE
      OBVIOUS
    <3> DEFINE n == Len(received) + 1
    <3>1. n \in 1 .. Len(written) /\ parsed = e[n]
      BY <1>6 DEF FInv, TypeOK, Reader
    <3> HIDE DEF n
    <3>2. Holds(input, parsed, written[n])
      BY <1>6, <3>1 DEF Layout
    <3>3. Size(written[n]) \in HeaderSize .. MaxMessageSize
          /\ parsed + Size(written[n]) <= Len(input)
      BY <3>2 DEF Holds
    <3> QED
      BY <1>2, <1>4, <3>3, Constants
  <2>2. Reader(e)'
    BY <1>1, <1>6, <2>1 DEF Reader, writing
  <2> QED
    BY <1>1, <1>6, <2>2, LayoutStays
<1> QED
  BY <1>1, <1>3, <1>5, <1>6 DEF FInv, writing

\* The length field is read and checked.
LEMMA ReadLengthStep ==
  ASSUME FInv, ReadLength
  PROVE  FInv'
<1> DEFINE x == Field(input, pos)
<1>1. /\ input \in Seq(Byte) /\ pos \in Nat /\ Len(input) \in Nat /\ pos + 2 <= Len(input)
      /\ pc = "length" /\ pos = parsed /\ pos' = pos + 2 /\ UNCHANGED writing
      /\ result = "none"
  BY Constants DEF FInv, TypeOK, Local, ReadLength, Unread
<1>2. Uint16(SubSeq(input, pos + 1, pos + LengthSize)) = x /\ x \in Nat
  BY <1>1, FieldRead, FieldType, Constants
<1> HIDE DEF x
<1>3. \/ x < 3 /\ Fail("ErrMessageTooShort")
      \/ x > MaxMessageSize /\ Fail("ErrMessageTooLarge")
      \/ /\ x \in 3 .. MaxMessageSize /\ remaining' = x - 2 /\ pc' = "body"
         /\ UNCHANGED <<parsed, received, result>>
  BY <1>2, Constants DEF ReadLength
<1>4. UNCHANGED <<parsed, received>> /\ result' # "EOF"
  BY <1>1, <1>3 DEF Fail
<1>5. TypeOK'
  <2>1. pc' \in {"length", "body", "done"} /\ remaining' \in Nat
        /\ result' \in Errors \cup {"none"} /\ (result' = "none" <=> pc' # "done")
    BY <1>1, <1>2, <1>3, Constants DEF Fail, FInv, TypeOK, Errors
  <2> QED
    BY <1>1, <1>4, <2>1 DEF FInv, TypeOK, writing
<1>6. Local'
  BY <1>1, <1>2, <1>3, <1>4, Constants DEF Fail, FInv, Local, writing, x
<1>7. ASSUME NEW e, Layout(e), Reader(e)
      PROVE  Layout(e)' /\ Reader(e)'
  <2>1. x \in 3 .. MaxMessageSize
    BY <1>1, <1>7, Ahead, Constants DEF FInv, x
  <2>2. result' = "none"
    BY <1>1, <1>2, <1>3, <2>1, Constants
  <2>3. Reader(e)'
    BY <1>1, <1>4, <1>7, <2>2, Zenon DEF Reader, writing
  <2> QED
    BY <1>1, <1>7, <2>3, LayoutStays
<1> QED
  BY <1>1, <1>5, <1>6, <1>7 DEF FInv, writing

\* A part of a stream.
LEMMA Part ==
  ASSUME NEW in \in Seq(Byte), NEW m \in Nat, NEW n \in Nat, m >= 1, n <= Len(in), m <= n + 1
  PROVE  /\ SubSeq(in, m, n) \in Seq(Byte) /\ Len(SubSeq(in, m, n)) = n - m + 1
         /\ \A j \in 1 .. n - m + 1 : SubSeq(in, m, n)[j] = in[m + j - 1]
<1>1. SubSeq(in, m, n) \in Seq(Byte)
  OBVIOUS
<1>2. Len(SubSeq(in, m, n)) = n - m + 1
  OBVIOUS
<1>3. ASSUME NEW j \in 1 .. n - m + 1 PROVE SubSeq(in, m, n)[j] = in[m + j - 1]
  OBVIOUS
<1> QED
  BY <1>1, <1>2, <1>3, Zenon

\* The payload of a body of k bytes that starts after the length field at p.
LEMMA BodyBytes ==
  ASSUME NEW in \in Seq(Byte), NEW p \in Nat, NEW k \in Nat, k >= 1, p + 2 + k <= Len(in)
  PROVE  LET b == SubSeq(in, p + 4, p + 2 + k) IN
         /\ b \in Seq(Byte) /\ Len(b) = k - 1
         /\ \A j \in 1 .. k - 1 : b[j] = in[p + 3 + j]
<1> DEFINE m == p + 4
           n == p + 2 + k
           b == SubSeq(in, m, n)
<1>1. /\ m \in Nat /\ n \in Nat /\ m >= 1 /\ n <= Len(in) /\ m <= n + 1
      /\ n - m + 1 = k - 1
      /\ \A j \in 1 .. k - 1 : m + j - 1 = p + 3 + j
  OBVIOUS
<1> HIDE DEF m, n
<1>2. /\ b \in Seq(Byte) /\ Len(b) = n - m + 1
      /\ \A j \in 1 .. n - m + 1 : b[j] = in[m + j - 1]
  BY <1>1, Part, Zenon
<1> HIDE DEF b
<1>3. b \in Seq(Byte) /\ Len(b) = k - 1 /\ \A j \in 1 .. k - 1 : b[j] = in[p + 3 + j]
  BY <1>1, <1>2, Zenon
<1> QED
  BY <1>3, Zenon DEF b, m, n

\* One message stands at a position.
LEMMA SameHeld ==
  ASSUME NEW in, NEW p, NEW m \in Message, NEW w \in Message, Holds(in, p, m), Holds(in, p, w)
  PROVE  m = w
<1>1. /\ m = [Type |-> m.Type, Payload |-> m.Payload] /\ m.Payload \in Seq(Byte)
      /\ w = [Type |-> w.Type, Payload |-> w.Payload] /\ w.Payload \in Seq(Byte)
      /\ Size(m) = 3 + Len(m.Payload) /\ Size(w) = 3 + Len(w.Payload)
      /\ Len(m.Payload) \in Nat /\ Len(w.Payload) \in Nat
  BY Constants DEF Message, Size
<1>2. m.Type = w.Type /\ Size(m) = Size(w)
  BY DEF Holds
<1>3. Len(m.Payload) = Len(w.Payload)
  BY <1>1, <1>2
<1>4. \A j \in 1 .. Len(m.Payload) : m.Payload[j] = w.Payload[j]
  BY <1>3 DEF Holds
<1>5. m.Payload = w.Payload
  BY <1>1, <1>3, <1>4, SeqEqual
<1> QED
  BY <1>1, <1>2, <1>5, Zenon

\* Type and payload are read: what is returned is the message that stands after
\* the last one.
LEMMA ReadBodyGets ==
  ASSUME FInv, ReadBody
  PROVE  \E got \in Message :
           /\ Holds(input, parsed, got) /\ received' = Append(received, got)
           /\ pos' = parsed + Size(got) /\ parsed' = parsed + Size(got)
           /\ pc' = "length" /\ result = "none" /\ UNCHANGED <<result, writing>>
           /\ remaining' \in Nat
<1> DEFINE p == parsed
           b == SubSeq(input, pos + 2, pos + remaining)
           got == [Type |-> input[pos + 1], Payload |-> b]
<1>1. /\ input \in Seq(Byte) /\ Len(input) \in Nat /\ p \in Nat
      /\ pos = p + 2 /\ remaining \in Nat /\ remaining >= 1
      /\ remaining <= MaxMessageSize - 2
      /\ remaining + 2 = Field(input, p) /\ p + 2 + remaining <= Len(input)
      /\ pc' = "length" /\ result = "none" /\ UNCHANGED <<remaining, result, writing>>
      /\ pos' = pos + remaining /\ parsed' = pos + remaining
      /\ received' = Append(received, got)
  <2>1. /\ pos \in Nat /\ p \in Nat /\ Len(input) \in Nat
        /\ Len(input) - pos >= remaining /\ pos = p + 2
    BY Constants DEF FInv, TypeOK, Local, ReadBody, Unread
  <2> QED
    BY <2>1, Constants DEF FInv, TypeOK, Local, ReadBody
<1>2. /\ b \in Seq(Byte) /\ Len(b) = remaining - 1 /\ input[pos + 1] \in Byte
      /\ \A j \in 1 .. remaining - 1 : b[j] = input[p + 3 + j]
  <2>1. input[p + 3] \in Byte /\ pos + 1 = p + 3 /\ pos + 2 = p + 4 /\ pos + remaining = p + 2 + remaining
    BY <1>1
  <2>2. b = SubSeq(input, p + 4, p + 2 + remaining)
    BY <2>1, Zenon
  <2> HIDE DEF b
  <2> QED
    BY <1>1, <2>1, <2>2, BodyBytes, Zenon
<1> HIDE DEF b
<1>7. pos + 1 = p + 3
  BY <1>1
<1>3. got \in Message /\ got.Payload = b /\ got.Type = input[p + 3]
  BY <1>2, <1>7 DEF Message
<1> HIDE DEF got
<1>4. Size(got) = remaining + 2
  BY <1>1, <1>2, <1>3, Constants DEF Size
<1>5. Holds(input, p, got)
  <2>1. Size(got) \in HeaderSize .. MaxMessageSize /\ p + Size(got) <= Len(input)
        /\ Field(input, p) = Size(got)
    BY <1>1, <1>4, Constants
  <2>2. \A j \in 1 .. Len(b) : input[p + 3 + j] = b[j]
    BY <1>2
  <2> QED
    BY <1>3, <2>1, <2>2 DEF Holds
<1>6. pos' = p + Size(got) /\ parsed' = p + Size(got)
  BY <1>1, <1>4
<1> QED
  BY <1>1, <1>3, <1>5, <1>6, Zenon

\* What comes out is the message that went in.
LEMMA ReadBodyStep ==
  ASSUME FInv, ReadBody
  PROVE  FInv'
<1> DEFINE p == parsed
<1>1. PICK got \in Message :
        /\ Holds(input, p, got) /\ received' = Append(received, got)
        /\ pos' = p + Size(got) /\ parsed' = p + Size(got)
        /\ pc' = "length" /\ result = "none" /\ UNCHANGED <<result, writing>>
        /\ remaining' \in Nat
  BY ReadBodyGets
<1>2. /\ input \in Seq(Byte) /\ Len(input) \in Nat /\ p \in Nat
      /\ received \in Seq(Message) /\ Len(received) \in Nat
  BY DEF FInv, TypeOK
<1>3. /\ Size(got) \in Nat /\ Size(got) >= 3 /\ p + Size(got) <= Len(input)
      /\ Field(input, p) = Size(got)
  BY <1>1, Constants DEF Holds
<1>4. /\ received' \in Seq(Message) /\ Len(received') = Len(received) + 1
      /\ received'[Len(received) + 1] = got
      /\ \A i \in 1 .. Len(received) : received'[i] = received[i]
  BY <1>1, <1>2
<1>5. TypeOK'
  <2>1. pos' \in 0 .. Len(input) /\ parsed' \in 0 .. Len(input)
    BY <1>1, <1>2, <1>3
  <2> QED
    BY <1>1, <1>4, <2>1 DEF FInv, TypeOK, writing
<1>6. Local'
  BY <1>1, <1>2, <1>3 DEF FInv, Local, writing
<1>7. ASSUME NEW e, Layout(e), Reader(e)
      PROVE  Layout(e)' /\ Reader(e)'
  <2> DEFINE n == Len(received) + 1
             w == written[n]
  <2>1. /\ Len(received) < Len(written) /\ Holds(input, p, w)
        /\ e[Len(received) + 2] = p + Field(input, p)
    <3>1. p + LengthSize <= Len(input)
      BY <1>2, <1>3, Constants
    <3>2. \/ Len(input) < p + Field(input, p)
          \/ /\ Len(received) < Len(written) /\ Holds(input, p, w)
             /\ e[Len(received) + 2] = p + Field(input, p)
      BY <1>7, <3>1, Ahead DEF FInv
    <3> QED
      BY <1>2, <1>3, <3>2
  <2>2. n \in 1 .. Len(written) /\ Len(written) \in Nat /\ w \in Message
    BY <1>2, <2>1 DEF FInv, TypeOK
  <2> HIDE DEF w
  <2>3. got = w
    BY <1>1, <2>1, <2>2, SameHeld
  <2>4. Reader(e)'
    <3>1. \A i \in 1 .. Len(received') : received'[i] = written[i]
      <4> SUFFICES ASSUME NEW i \in 1 .. n PROVE received'[i] = written[i]
        BY <1>4
      <4>1. CASE i = n
        BY <1>4, <2>3, <4>1 DEF w
      <4>2. CASE i \in 1 .. Len(received)
        BY <1>4, <1>7, <4>2 DEF Reader
      <4> QED
        BY <1>2, <4>1, <4>2
    <3>2. parsed' = e[Len(received') + 1]
      <4>1. parsed' = p + Field(input, p) /\ Len(received') + 1 = Len(received) + 2
        BY <1>1, <1>2, <1>3, <1>4
      <4> QED
        BY <2>1, <4>1
    <3>3. Len(received') <= Len(written) /\ written' = written /\ result' = "none"
      BY <1>1, <1>2, <1>4, <2>1, <2>2 DEF writing
    <3> QED
      BY <3>1, <3>2, <3>3 DEF Reader
  <2> QED
    BY <1>1, <1>7, <2>4, LayoutStays
<1> QED
  BY <1>1, <1>5, <1>6, <1>7 DEF FInv, writing

\* Every step preserves the invariant.
LEMMA NextFInv == FInv /\ [Next]_vars => FInv'
<1> SUFFICES ASSUME FInv, [Next]_vars PROVE FInv'
  OBVIOUS
<1>1. CASE UNCHANGED vars
  <2>1. UNCHANGED writing /\ UNCHANGED reading
    BY <1>1 DEF vars
  <2>2. TypeOK' /\ Local' /\ peer' = peer
    BY <2>1 DEF FInv, TypeOK, Local, writing, reading
  <2>3. ASSUME NEW e, Layout(e), Reader(e)
        PROVE  Layout(e)' /\ Reader(e)'
    BY <2>1, <2>3 DEF Layout, Reader, writing, reading
  <2> QED
    BY <2>2, <2>3 DEF FInv
<1>2. CASE Write
  BY <1>2, WriteMessageStep, WriteFailsStep, WriteByteStep DEF Write
<1>3. CASE Read
  BY <1>3, ReadLengthStep, ReadBodyStep, ReadStopsStep DEF Read
<1>4. CASE ReadFails
  BY <1>4, ReadStopsStep
<1> QED
  BY <1>1, <1>2, <1>3, <1>4 DEF Next

\* Where every message stands in the stream, and where the reader is in it.
THEOREM FramingInvariant == Spec => []FInv
BY InitFInv, NextFInv, PTL DEF Spec

\* Spec implies LengthChecks: for every size of a byte, every MaxMessageSize
\* that fits the field, and messages and streams of any length.
THEOREM LengthsAreChecked == Spec => []LengthChecks
<1>1. FInv => LengthChecks
  BY DEF FInv, Local, Reader, LengthChecks
<1> QED
  BY <1>1, FramingInvariant, PTL

\* Spec implies CleanEOF: io.EOF is returned only between messages and when
\* every message written whole has been read.
THEOREM EOFIsClean == Spec => []CleanEOF
<1>1. FInv => CleanEOF
  <2> SUFFICES ASSUME FInv, result = "EOF" PROVE CleanEOF
    BY DEF CleanEOF
  <2>1. parsed = Len(input)
    BY DEF FInv, Local
  <2>2. ASSUME peer = "writer" PROVE received = written
    <3>1. /\ received \in Seq(Message) /\ written \in Seq(Message)
          /\ Len(received) = Len(written)
          /\ \A i \in 1 .. Len(received) : received[i] = written[i]
      BY <2>2 DEF FInv, TypeOK, Reader
    <3> QED
      BY <3>1, SeqEqual
  <2> QED
    BY <2>1, <2>2 DEF CleanEOF
<1> QED
  BY <1>1, FramingInvariant, PTL

(***************************************************************************)
(* Every byte is accounted for, and the decoders agree.  Both are about    *)
(* any peer, and need what is known of the messages from the start of the  *)
(* stream: First of the first of them, Ended of the error that came after  *)
(* the last, and Whole of all of them.                                     *)
(***************************************************************************)
\* A length field names one pair of bytes.
LEMMA OnePair ==
  ASSUME NEW a \in Byte, NEW b \in Byte, NEW c \in Byte, NEW d \in Byte,
         a * Base + b = c * Base + d
  PROVE  a = c /\ b = d
<1>1. /\ Base \in Nat \ {0} /\ a \in Nat /\ b \in 0 .. Base - 1
      /\ c \in Nat /\ d \in 0 .. Base - 1
  BY Constants DEF Byte
<1>2. ASSUME NEW x \in Nat, NEW y \in Nat, x < y
      PROVE  x * Base + Base <= y * Base
  <2>1. (y - x) * Base >= Base
    BY <1>1, <1>2
  <2> QED
    BY <1>1, <1>2, <2>1
<1>3. ~(a < c) /\ ~(c < a)
  BY <1>1, <1>2
<1> QED
  BY <1>1, <1>3

\* What stands at p as a whole message is the message's encoding.
LEMMA HeldBytes ==
  ASSUME NEW in \in Seq(Byte), NEW p \in Nat, NEW m \in Message, Holds(in, p, m)
  PROVE  \A i \in 1 .. Size(m) : in[p + i] = Encode(m)[i]
<1> DEFINE c == Encode(m)
<1>1. /\ Size(m) \in Nat /\ Size(m) >= 3 /\ c \in Seq(Byte) /\ Len(c) = Size(m)
      /\ c[1] * Base + c[2] = Size(m) /\ c[3] = m.Type
      /\ \A j \in 1 .. Len(m.Payload) : c[3 + j] = m.Payload[j]
      /\ Size(m) = 3 + Len(m.Payload) /\ Len(m.Payload) \in Nat
      /\ p + Size(m) <= Len(in)
  BY EncodeBytes, Constants DEF Size, Message, Holds
<1> HIDE DEF c
<1>2. in[p + 1] = c[1] /\ in[p + 2] = c[2]
  <2>1. in[p + 1] \in Byte /\ in[p + 2] \in Byte /\ c[1] \in Byte /\ c[2] \in Byte
    BY <1>1
  <2>2. in[p + 1] * Base + in[p + 2] = c[1] * Base + c[2]
    BY <1>1 DEF Holds, Field
  <2> QED
    BY <2>1, <2>2, OnePair
<1>3. in[p + 3] = c[3]
  BY <1>1 DEF Holds
<1>4. ASSUME NEW i \in 1 .. Size(m), i > 3
      PROVE  in[p + i] = c[i]
  <2>1. PICK j \in 1 .. Len(m.Payload) : i = 3 + j /\ p + i = p + 3 + j
    <3>1. i - 3 \in 1 .. Len(m.Payload) /\ i = 3 + (i - 3) /\ p + i = p + 3 + (i - 3)
      BY <1>1, <1>4
    <3> QED
      BY <3>1
  <2>2. in[p + 3 + j] = m.Payload[j]
    BY DEF Holds
  <2> QED
    BY <1>1, <2>1, <2>2
<1>5. \A i \in 1 .. Size(m) : i = 1 \/ i = 2 \/ i = 3 \/ i > 3
  BY <1>1
<1> QED
  BY <1>2, <1>3, <1>4, <1>5 DEF c

\* The stream up to the end of a message is what was before it and the message.
LEMMA Extended ==
  ASSUME NEW in \in Seq(Byte), NEW p \in Nat, NEW m \in Message, Holds(in, p, m)
  PROVE  SubSeq(in, 1, p + Size(m)) = SubSeq(in, 1, p) \o Encode(m)
<1> DEFINE c == Encode(m)
           a == SubSeq(in, 1, p)
           t == a \o c
           n == Size(m)
           s == SubSeq(in, 1, p + n)
<1>1. /\ n \in Nat /\ c \in Seq(Byte) /\ Len(c) = n /\ p + n <= Len(in) /\ Len(in) \in Nat
  BY EncodeBytes, Constants DEF Holds
<1>2. \A i \in 1 .. n : in[p + i] = c[i]
  BY HeldBytes
<1> HIDE DEF c, n
<1>3. a \in Seq(Byte) /\ Len(a) = p /\ \A i \in 1 .. p : a[i] = in[i]
  BY <1>1
<1>4. s \in Seq(Byte) /\ Len(s) = p + n /\ \A i \in 1 .. p + n : s[i] = in[i]
  BY <1>1
<1> HIDE DEF a, s
<1>5. /\ t \in Seq(Byte) /\ Len(t) = Len(a) + Len(c)
      /\ \A i \in 1 .. Len(a) + Len(c) : t[i] = IF i <= Len(a) THEN a[i] ELSE c[i - Len(a)]
  BY <1>1, <1>3, ConcatProperties, Zenon
<1> HIDE DEF t
<1>6. ASSUME NEW i \in 1 .. p + n
      PROVE  s[i] = t[i]
  <2>1. CASE i <= p
    <3>1. i \in 1 .. p /\ i \in 1 .. Len(a) + Len(c) /\ i <= Len(a)
      BY <1>1, <1>3, <2>1
    <3>2. t[i] = a[i]
      BY <1>5, <3>1
    <3> QED
      BY <1>3, <1>4, <3>1, <3>2
  <2>2. CASE i > p
    <3>1. i - p \in 1 .. n /\ p + (i - p) = i
      BY <1>1, <2>2
    <3>2. in[p + (i - p)] = c[i - p]
      BY <1>2, <3>1
    <3>3. t[i] = c[i - p]
      BY <1>1, <1>3, <1>5, <2>2
    <3> QED
      BY <1>4, <3>1, <3>2, <3>3
  <2> QED
    BY <1>1, <2>1, <2>2
<1>7. s = t
  BY <1>1, <1>3, <1>4, <1>5, <1>6, SeqEqual
<1> QED
  BY <1>7, Zenon DEF s, t, a, c, n

\* f[n] is the encodings of the first n messages: the function in Stream.
IsStream(f, ms) ==
  f = [n \in 0 .. Len(ms) |-> IF n = 0 THEN << >> ELSE f[n - 1] \o Encode(ms[n])]

\* One more message prolongs the stream by its encoding.
LEMMA Prolonged ==
  ASSUME NEW ms \in Seq(Message), NEW m \in Message
  PROVE  /\ (\E f : IsStream(f, ms)) => \E g : IsStream(g, Append(ms, m))
         /\ \A g : IsStream(g, Append(ms, m)) =>
              \E f : IsStream(f, ms) /\ g[Len(ms) + 1] = f[Len(ms)] \o Encode(m)
<1> DEFINE n == Len(ms)
           more == Append(ms, m)
<1>1. /\ n \in Nat /\ Len(more) = n + 1 /\ more[n + 1] = m
      /\ \A i \in 1 .. n : more[i] = ms[i]
  OBVIOUS
<1> HIDE DEF more
<1>2. ASSUME NEW f, IsStream(f, ms)
      PROVE  \E g : IsStream(g, more)
  <2>1. f = [i \in 0 .. n |-> IF i = 0 THEN << >> ELSE f[i - 1] \o Encode(ms[i])]
    BY <1>2 DEF IsStream
  <2> HIDE DEF n
  <2> DEFINE g == [i \in 0 .. n + 1 |-> IF i <= n THEN f[i] ELSE f[n] \o Encode(m)]
             h == [i \in 0 .. n + 1 |-> IF i = 0 THEN << >> ELSE g[i - 1] \o Encode(more[i])]
  <2>2. ASSUME NEW i \in 0 .. n + 1
        PROVE  g[i] = h[i]
    <3>1. CASE i = 0
      BY <1>1, <2>1, <3>1
    <3>2. CASE i \in 1 .. n
      <4>1. i \in 0 .. n /\ i - 1 \in 0 .. n /\ i # 0 /\ i <= n /\ i - 1 <= n
            /\ i - 1 \in 0 .. n + 1 /\ more[i] = ms[i]
        BY <1>1, <3>2
      <4>2. g[i] = f[i] /\ g[i - 1] = f[i - 1]
        BY <4>1
      <4>3. f[i] = f[i - 1] \o Encode(ms[i])
        BY <2>1, <4>1, Zenon
      <4> QED
        BY <4>1, <4>2, <4>3, Zenon
    <3>3. CASE i = n + 1
      <4>1. n \in 0 .. n + 1 /\ i - 1 = n /\ i # 0 /\ ~(i <= n) /\ n <= n
        BY <1>1, <3>3
      <4>2. more[i] = m
        BY <1>1, <3>3
      <4>3. h[i] = g[n] \o Encode(m)
        BY <4>1, <4>2, Zenon
      <4>4. g[n] = f[n] /\ g[i] = f[n] \o Encode(m)
        BY <4>1, Zenon
      <4> QED
        BY <4>3, <4>4, Zenon
    <3> QED
      BY <1>1, <3>1, <3>2, <3>3
  <2>3. g = h
    <3> HIDE DEF g
    <3>1. g = [i \in 0 .. n + 1 |-> g[i]]
      BY DEF g
    <3> QED
      BY <2>2, <3>1, Zenon
  <2>4. IsStream(g, more)
    BY <1>1, <2>3 DEF IsStream
  <2> QED
    BY <2>4
<1>3. ASSUME NEW g, IsStream(g, more)
      PROVE  \E f : IsStream(f, ms) /\ g[n + 1] = f[n] \o Encode(m)
  <2>1. g = [i \in 0 .. n + 1 |-> IF i = 0 THEN << >> ELSE g[i - 1] \o Encode(more[i])]
    BY <1>1, <1>3 DEF IsStream
  <2> HIDE DEF n
  <2> DEFINE f == [i \in 0 .. n |-> g[i]]
             h == [i \in 0 .. n |-> IF i = 0 THEN << >> ELSE f[i - 1] \o Encode(ms[i])]
  <2>2. ASSUME NEW i \in 0 .. n
        PROVE  f[i] = h[i]
    <3>1. CASE i = 0
      BY <1>1, <2>1, <3>1
    <3>2. CASE i \in 1 .. n
      <4>1. /\ i \in 0 .. n + 1 /\ i - 1 \in 0 .. n /\ i # 0 /\ more[i] = ms[i]
        BY <1>1, <3>2
      <4>2. g[i] = g[i - 1] \o Encode(more[i])
        BY <2>1, <4>1, Zenon
      <4> QED
        BY <4>1, <4>2, Zenon
    <3> QED
      BY <1>1, <3>1, <3>2
  <2>3. IsStream(f, ms)
    BY <2>2, Zenon DEF IsStream, n
  <2>4. g[n + 1] = f[n] \o Encode(m)
    <3>1. n + 1 \in 0 .. n + 1 /\ n \in 0 .. n /\ n + 1 # 0 /\ (n + 1) - 1 = n
      BY <1>1
    <3>2. g[n + 1] = g[(n + 1) - 1] \o Encode(more[n + 1])
      BY <2>1, <3>1, Zenon
    <3> QED
      BY <1>1, <3>1, <3>2
  <2> QED
    BY <2>3, <2>4, Zenon
<1> QED
  BY <1>2, <1>3, Zenon DEF more

\* The messages returned are the whole of the stream up to parsed.
Whole ==
  /\ \E f : IsStream(f, received)
  /\ \A f : IsStream(f, received) => f[Len(received)] = SubSeq(input, 1, parsed)

\* The first message stands at the start; the others come after it.
First ==
  /\ Len(received) = 0 => parsed = 0
  /\ Len(received) >= 1 =>
       /\ Holds(input, 0, received[1]) /\ Size(received[1]) <= parsed
       /\ Len(received) = 1 <=> parsed = Size(received[1])

\* What stands after the last message when an error was returned.
Ended ==
  /\ result \in {"EOF", "ErrUnexpectedEOF"} => closed
  /\ result = "ErrMessageTooShort" =>
       parsed + LengthSize <= Len(input) /\ Field(input, parsed) < HeaderSize
  /\ result = "ErrMessageTooLarge" =>
       parsed + LengthSize <= Len(input) /\ Field(input, parsed) > MaxMessageSize
  /\ result = "ErrUnexpectedEOF" =>
       /\ parsed < Len(input)
       /\ parsed + LengthSize <= Len(input) => Len(input) < parsed + Field(input, parsed)

\* The writing side only adds to an open stream.
LEMMA WriteAdds ==
  ASSUME FInv, Write
  PROVE  /\ \E more \in Seq(Byte) : input' = input \o more
         /\ UNCHANGED <<peer, reading>> /\ ~closed
<1>1. input \in Seq(Byte) /\ outbox \in Seq(Message)
  BY DEF FInv, TypeOK
<1>2. CASE WriteMessage
  <2>1. Head(outbox) \in Message /\ Validate(Head(outbox)) = "nil"
    BY <1>1, <1>2 DEF WriteMessage
  <2>2. Size(Head(outbox)) <= MaxMessageSize
    BY <2>1, Constants DEF Validate, Size, Message
  <2>3. Encode(Head(outbox)) \in Seq(Byte)
    BY <2>1, <2>2, EncodeBytes
  <2> QED
    BY <1>2, <2>3, Zenon DEF WriteMessage
<1>3. ASSUME input' = input
      PROVE  \E more \in Seq(Byte) : input' = input \o more
  <2>1. input = input \o << >> /\ << >> \in Seq(Byte)
    BY <1>1
  <2> QED
    BY <1>3, <2>1, Zenon
<1>4. CASE WriteFails
  <2>1. /\ Head(outbox) \in Message
        /\ \/ UNCHANGED input
           \/ /\ Validate(Head(outbox)) = "nil"
              /\ \E k \in 0 .. Size(Head(outbox)) - 1 :
                   input' = input \o SubSeq(Encode(Head(outbox)), 1, k)
    BY <1>1, <1>4 DEF WriteFails
  <2>2. ASSUME Validate(Head(outbox)) = "nil", NEW k \in 0 .. Size(Head(outbox)) - 1
        PROVE  SubSeq(Encode(Head(outbox)), 1, k) \in Seq(Byte)
    <3>1. Size(Head(outbox)) <= MaxMessageSize
      BY <2>1, <2>2, Constants DEF Validate, Size, Message
    <3>2. Encode(Head(outbox)) \in Seq(Byte) /\ k <= Len(Encode(Head(outbox))) /\ k \in Nat
      BY <2>1, <2>2, <3>1, EncodeBytes
    <3> QED
      BY <3>2
  <2> QED
    BY <1>3, <1>4, <2>1, <2>2, Zenon DEF WriteFails
<1>5. CASE \E b \in Byte : WriteByte(b)
  <2>1. PICK b \in Byte : WriteByte(b)
    BY <1>5
  <2>2. Append(input, b) = input \o <<b>> /\ <<b>> \in Seq(Byte)
    BY <1>1
  <2> QED
    BY <2>1, <2>2, Zenon DEF WriteByte
<1>6. CASE Close
  BY <1>3, <1>6 DEF Close
<1> QED
  BY <1>2, <1>4, <1>5, <1>6 DEF Write

\* What was read from the stream stays true of it when it grows.
LEMMA WriteKeeps ==
  ASSUME FInv, Whole, First, Ended, Write
  PROVE  Whole' /\ First' /\ Ended'
<1>1. PICK more \in Seq(Byte) : input' = input \o more
  BY WriteAdds
<1>2. /\ received' = received /\ parsed' = parsed /\ result' = result /\ ~closed
      /\ input \in Seq(Byte) /\ parsed \in Nat /\ parsed <= Len(input)
      /\ received \in Seq(Message) /\ Len(received) \in Nat
  BY WriteAdds DEF FInv, TypeOK, reading
<1>3. /\ input' \in Seq(Byte) /\ Len(input') >= Len(input) /\ Len(input) \in Nat
      /\ Len(input') \in Nat /\ \A i \in 1 .. Len(input) : input'[i] = input[i]
  BY <1>1, <1>2
<1>4. Whole'
  <2>1. SubSeq(input', 1, parsed) = SubSeq(input, 1, parsed)
    BY <1>2, <1>3
  <2> QED
    BY <1>2, <2>1 DEF Whole
<1>5. First'
  <2>1. ASSUME Len(received) >= 1
        PROVE  Holds(input', 0, received[1])
    <3>1. received[1] \in Message
      BY <1>2, <2>1
    <3>2. Holds(input, 0, received[1])
      BY <2>1 DEF First
    <3> QED
      BY <1>1, <1>2, <3>1, <3>2, Grown
  <2> QED
    BY <1>2, <2>1 DEF First
<1>6. Ended'
  <2>1. parsed + LengthSize <= Len(input) => Field(input', parsed) = Field(input, parsed)
    BY <1>1, <1>2, Grown
  <2> QED
    BY <1>2, <1>3, <2>1, Constants DEF Ended
<1> QED
  BY <1>4, <1>5, <1>6

\* The reader comes to the end, or stops, and has no further message.
LEMMA StopKeeps ==
  ASSUME FInv, Whole, First, Ended, ReadEnds \/ ReadFails \/ ReadLength
  PROVE  Whole' /\ First' /\ Ended'
<1>1. /\ UNCHANGED <<parsed, received, writing>> /\ input \in Seq(Byte)
      /\ pos \in Nat /\ parsed \in Nat /\ Len(input) \in Nat /\ parsed <= pos
      /\ pos <= Len(input) /\ remaining \in Nat
  BY DEF FInv, TypeOK, Local, ReadEnds, ReadFails, ReadLength, Fail
<1>2. input' = input /\ closed' = closed
  BY <1>1 DEF writing
<1>3. Whole' /\ First'
  BY <1>1, <1>2 DEF Whole, First
<1>4. ASSUME ReadFails PROVE Ended'
  BY <1>1, <1>2, <1>4 DEF ReadFails, Fail, Ended
<1>5. ASSUME ReadEnds PROVE Ended'
  <2>1. CASE result' = "EOF"
    BY <1>2, <1>5, <2>1 DEF ReadEnds, Ended
  <2>2. CASE /\ result' = "ErrUnexpectedEOF" /\ pc = "length"
             /\ Unread < LengthSize /\ Unread # 0
    BY <1>1, <1>2, <1>5, <2>2, Constants DEF ReadEnds, Ended, FInv, Local, Unread
  <2>3. CASE result' = "ErrUnexpectedEOF" /\ pc = "body" /\ Unread < remaining
    <3>1. /\ pos = parsed + LengthSize /\ remaining + LengthSize = Field(input, parsed)
          /\ Len(input) - pos < remaining
      BY <2>3 DEF FInv, Local, Unread
    <3>2. parsed < Len(input) /\ Len(input) < parsed + Field(input, parsed)
      BY <1>1, <3>1, Constants
    <3> QED
      BY <1>1, <1>2, <1>5, <2>3, <3>2 DEF ReadEnds, Ended
  <2> QED
    BY <1>5, <2>1, <2>2, <2>3 DEF ReadEnds, Fail
<1>6. ASSUME ReadLength PROVE Ended'
  <2> DEFINE x == Field(input, pos)
  <2>1. pos = parsed /\ pos + LengthSize <= Len(input) /\ result = "none"
    BY <1>1, <1>6, Constants DEF ReadLength, FInv, TypeOK, Local, Unread
  <2>2. Uint16(SubSeq(input, pos + 1, pos + LengthSize)) = x /\ x \in Nat
    BY <1>1, <2>1, FieldRead, FieldType, Constants
  <2> HIDE DEF x
  <2>3. \/ x < HeaderSize /\ result' = "ErrMessageTooShort"
        \/ x > MaxMessageSize /\ result' = "ErrMessageTooLarge"
        \/ result' = "none"
    BY <1>6, <2>1, <2>2, Constants DEF ReadLength, Fail
  <2> QED
    BY <1>1, <1>2, <2>1, <2>3 DEF Ended, x
<1> QED
  BY <1>3, <1>4, <1>5, <1>6

\* A message is returned: the next one of the stream.
LEMMA ReadBodyKeeps ==
  ASSUME FInv, Whole, First, Ended, ReadBody
  PROVE  Whole' /\ First' /\ Ended'
<1>1. PICK got \in Message :
        /\ Holds(input, parsed, got) /\ received' = Append(received, got)
        /\ parsed' = parsed + Size(got)
        /\ result = "none" /\ UNCHANGED <<result, writing>>
  BY ReadBodyGets
<1>2. /\ input \in Seq(Byte) /\ parsed \in Nat /\ input' = input
      /\ received \in Seq(Message) /\ Len(received) \in Nat
      /\ Size(got) \in Nat /\ Size(got) >= 3
  BY <1>1, Constants DEF FInv, TypeOK, writing, Holds
<1>3. /\ Len(received') = Len(received) + 1
      /\ received'[Len(received) + 1] = got
      /\ \A i \in 1 .. Len(received) : received'[i] = received[i]
  BY <1>1, <1>2
<1>4. Whole'
  <2>1. \E g : IsStream(g, received')
    BY <1>1, <1>2, Prolonged, Zenon DEF Whole
  <2>2. ASSUME NEW g, IsStream(g, received')
        PROVE  g[Len(received')] = SubSeq(input', 1, parsed')
    <3>1. PICK f : IsStream(f, received) /\ g[Len(received) + 1] = f[Len(received)] \o Encode(got)
      BY <1>1, <1>2, <2>2, Prolonged, Zenon
    <3>2. f[Len(received)] = SubSeq(input, 1, parsed)
      BY <3>1, Zenon DEF Whole
    <3>3. SubSeq(input, 1, parsed + Size(got)) = SubSeq(input, 1, parsed) \o Encode(got)
      BY <1>1, <1>2, Extended, Zenon
    <3> QED
      BY <1>1, <1>2, <1>3, <3>1, <3>2, <3>3, Zenon
  <2> QED
    BY <2>1, <2>2, Zenon DEF Whole
<1>5. First'
  <2>1. CASE Len(received) = 0
    <3>1. parsed = 0 /\ received'[1] = got /\ Len(received') = 1 /\ parsed' = Size(got)
      BY <1>1, <1>2, <1>3, <2>1 DEF First
    <3> QED
      BY <1>1, <1>2, <3>1 DEF First
  <2>2. CASE Len(received) >= 1
    <3>1. received'[1] = received[1]
      BY <1>2, <1>3, <2>2
    <3>2. /\ Holds(input, 0, received[1]) /\ Size(received[1]) <= parsed
          /\ Size(received[1]) \in Nat
      BY <2>2 DEF First, Holds, HeaderSize
    <3>3. Size(received[1]) <= parsed' /\ parsed' # Size(received[1])
      BY <1>1, <1>2, <3>2
    <3>4. Holds(input', 0, received'[1]) /\ Size(received'[1]) <= parsed'
      BY <1>2, <3>1, <3>2, <3>3
    <3>5. ~(Len(received') = 1) /\ ~(Len(received') = 0)
      BY <1>2, <1>3, <2>2
    <3>6. ~(parsed' = Size(received'[1]))
      BY <3>1, <3>3, Zenon
    <3> QED
      BY <3>4, <3>5, <3>6, Zenon DEF First
  <2> QED
    BY <1>2, <2>1, <2>2
<1>6. Ended'
  BY <1>1 DEF Ended
<1> QED
  BY <1>4, <1>5, <1>6

\* Before anything is read.
LEMMA InitWhole == Init => Whole /\ First /\ Ended
<1> SUFFICES ASSUME Init PROVE Whole /\ First /\ Ended
  OBVIOUS
<1>1. received = << >> /\ input = << >> /\ parsed = 0 /\ result = "none" /\ Len(received) = 0
  BY DEF Init
<1>2. \E f : IsStream(f, received)
  <2> DEFINE f == [n \in 0 .. 0 |-> << >>]
  <2>1. f = [n \in 0 .. Len(received) |->
               IF n = 0 THEN << >> ELSE f[n - 1] \o Encode(received[n])]
    <3>1. \A n \in 0 .. 0 : n = 0
      OBVIOUS
    <3> QED
      BY <1>1, <3>1
  <2>2. IsStream(f, received)
    BY <2>1 DEF IsStream
  <2> QED
    BY <2>2
<1>3. ASSUME NEW f, IsStream(f, received)
      PROVE  f[Len(received)] = SubSeq(input, 1, parsed)
  <2>1. f = [n \in 0 .. Len(received) |->
               IF n = 0 THEN << >> ELSE f[n - 1] \o Encode(received[n])]
    BY <1>3 DEF IsStream
  <2>2. 0 \in 0 .. Len(received)
    BY <1>1
  <2>3. f[0] = << >>
    BY <2>1, <2>2, Zenon
  <2>4. SubSeq(<< >>, 1, 0) = << >>
    OBVIOUS
  <2> QED
    BY <1>1, <2>3, <2>4, Zenon
<1>4. First /\ Ended
  BY <1>1 DEF First, Ended
<1> QED
  BY <1>2, <1>3, <1>4 DEF Whole

\* Every step keeps what is known of the messages from the start of the stream.
LEMMA NextWhole == FInv /\ Whole /\ First /\ Ended /\ [Next]_vars => (Whole /\ First /\ Ended)'
<1> SUFFICES ASSUME FInv, Whole, First, Ended, [Next]_vars
             PROVE  Whole' /\ First' /\ Ended'
  OBVIOUS
<1>1. CASE UNCHANGED vars
  BY <1>1 DEF vars, writing, reading, Whole, First, Ended
<1>2. CASE Write
  BY <1>2, WriteKeeps
<1>3. CASE Read \/ ReadFails
  BY <1>3, StopKeeps, ReadBodyKeeps DEF Read
<1> QED
  BY <1>1, <1>2, <1>3 DEF Next

\* The messages returned, the first of them and the error after the last stand
\* in the stream where ReadMessage found them, for every peer.
THEOREM StreamInvariant == Spec => [](FInv /\ Whole /\ First /\ Ended)
BY InitFInv, NextFInv, InitWhole, NextWhole, PTL DEF Spec

\* Spec implies Accounted: every byte before the reader's last message belongs
\* to a message that ReadMessage returned, for every peer and streams of any
\* length, and the messages of WriteMessage come back unaltered and in order.
THEOREM EveryByteAccounted == Spec => []Accounted
<1>1. FInv /\ Whole => Accounted
  <2> SUFFICES ASSUME FInv, Whole PROVE Accounted
    OBVIOUS
  <2>1. SubSeq(input, 1, parsed) = Stream(received)
    <3> DEFINE u == CHOOSE f : IsStream(f, received)
    <3>1. IsStream(u, received)
      BY DEF Whole
    <3>2. Stream(received) = u[Len(received)]
      BY Zenon DEF Stream, IsStream
    <3> HIDE DEF u
    <3> QED
      BY <3>1, <3>2 DEF Whole
  <2>2. peer = "writer" =>
          /\ Len(received) <= Len(written)
          /\ \A i \in 1 .. Len(received) : received[i] = written[i]
    BY DEF FInv, Reader
  <2> QED
    BY <2>1, <2>2 DEF Accounted
<1> QED
  BY <1>1, StreamInvariant, PTL

\* A message that is the whole of a buffer is what UnmarshalMessage returns.
LEMMA UnmarshalWhole ==
  ASSUME NEW in \in Seq(Byte), NEW m \in Message, Holds(in, 0, m), Size(m) = Len(in)
  PROVE  UnmarshalMessage(in) = <<m>>
<1>1. /\ m = [Type |-> m.Type, Payload |-> m.Payload] /\ m.Payload \in Seq(Byte)
      /\ Len(m.Payload) \in Nat /\ Len(in) = 3 + Len(m.Payload) /\ Len(in) <= MaxMessageSize
      /\ in[1] * Base + in[2] = Len(in) /\ in[3] = m.Type
      /\ \A j \in 1 .. Len(m.Payload) : in[3 + j] = m.Payload[j]
  BY Constants DEF Message, Size, Holds, Field
<1>2. /\ SubSeq(in, 4, Len(in)) \in Seq(Byte) /\ Len(SubSeq(in, 4, Len(in))) = Len(m.Payload)
      /\ \A j \in 1 .. Len(m.Payload) : SubSeq(in, 4, Len(in))[j] = in[3 + j]
  BY <1>1
<1>3. SubSeq(in, 4, Len(in)) = m.Payload
  <2> DEFINE b == SubSeq(in, 4, Len(in))
  <2>1. b \in Seq(Byte) /\ Len(b) = Len(m.Payload) /\ \A j \in 1 .. Len(b) : b[j] = m.Payload[j]
    BY <1>1, <1>2
  <2> HIDE DEF b
  <2>2. b = m.Payload
    BY <1>1, <2>1, SeqEqual
  <2> QED
    BY <2>2 DEF b
<1>4. Uint16(in) = Len(in) /\ ~(Len(in) < HeaderSize) /\ ~(Uint16(in) > MaxMessageSize)
  BY <1>1, Constants DEF Uint16
<1>5. HeaderSize + 1 = 4
  BY Constants
<1>6. UnmarshalMessage(in) = <<[Type |-> in[3], Payload |-> SubSeq(in, HeaderSize + 1, Len(in))]>>
  BY <1>4, Zenon DEF UnmarshalMessage
<1> QED
  BY <1>1, <1>3, <1>5, <1>6, Zenon

\* Spec implies DecodersAgree: UnmarshalMessage and ReadMessage accept the same
\* buffers and return the same message, for buffers of any length.
THEOREM DecodersMatch == Spec => []DecodersAgree
<1>1. FInv /\ First /\ Ended => DecodersAgree
  <2> SUFFICES ASSUME FInv, First, Ended, pc = "done", closed, result # "wrapped"
               PROVE  IF UnmarshalMessage(input) = << >>
                      THEN ~(Len(received) = 1 /\ result = "EOF")
                      ELSE received = UnmarshalMessage(input) /\ result = "EOF"
    BY DEF DecodersAgree
  <2>1. /\ input \in Seq(Byte) /\ Len(input) \in Nat /\ parsed \in Nat /\ parsed <= Len(input)
        /\ received \in Seq(Message) /\ Len(received) \in Nat
        /\ result \in {"EOF", "ErrUnexpectedEOF", "ErrMessageTooShort", "ErrMessageTooLarge"}
        /\ (result = "EOF" => parsed = Len(input))
    BY DEF FInv, TypeOK, Local, Errors
  <2>2. ASSUME Len(received) = 1, result = "EOF"
        PROVE  UnmarshalMessage(input) = <<received[1]>>
    <3>1. 1 \in 1 .. Len(received)
      BY <2>2
    <3>2. received[1] \in Message
      BY <2>1, <3>1, ElementOfSeq, Zenon
    <3>3. parsed = Len(input)
      BY <2>1, <2>2, Zenon
    <3>4. Len(received) >= 1
      BY <2>2
    <3>5. Holds(input, 0, received[1]) /\ Size(received[1]) = parsed
      BY <2>2, <3>4, Zenon DEF First
    <3> QED
      BY <2>1, <3>2, <3>3, <3>5, UnmarshalWhole, Zenon
  <2>3. ASSUME UnmarshalMessage(input) # << >>
        PROVE  Len(received) = 1 /\ result = "EOF"
    <3>1. /\ Len(input) >= 3 /\ Field(input, 0) = Len(input) /\ Len(input) <= MaxMessageSize
      BY <2>1, <2>3, Constants DEF UnmarshalMessage, Field, Uint16
    <3>2. CASE Len(received) = 0
      <4>1. parsed = 0
        BY <3>2 DEF First
      <4> QED
        BY <2>1, <3>1, <4>1, Constants DEF Ended
    <3>3. CASE Len(received) >= 1
      <4>1. Size(received[1]) = Len(input) /\ Size(received[1]) <= parsed
        BY <3>1, <3>3 DEF First, Holds
      <4>2. parsed = Size(received[1])
        BY <2>1, <4>1
      <4>3. Len(received) = 1
        BY <3>3, <4>2 DEF First
      <4> QED
        BY <2>1, <4>1, <4>2, <4>3, Constants DEF Ended
    <3> QED
      BY <2>1, <3>2, <3>3
  <2>4. Len(received) = 1 => received = <<received[1]>>
    BY <2>1
  <2>5. CASE UnmarshalMessage(input) = << >>
    <3>1. << >> # <<received[1]>>
      OBVIOUS
    <3> QED
      BY <2>2, <2>5, <3>1, Zenon
  <2>6. CASE UnmarshalMessage(input) # << >>
    BY <2>2, <2>3, <2>4, <2>6, Zenon
  <2> QED
    BY <2>5, <2>6
<1> QED
  BY <1>1, StreamInvariant, PTL

===============================================================================
