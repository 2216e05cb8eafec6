----------------------------- MODULE FramerProofs -----------------------------
(***************************************************************************)
(* Theorems about the framer, for any set of byte streams and any cuts.    *)
(***************************************************************************)
EXTENDS Framer, TLAPS

\* The type invariant and the content of the buffer are inductive together.
FramerInv == TypeOK /\ BufferIsUnread

\* The length of the message at the head of the buffer is a number.
LEMMA LengthIsNat ==
    ASSUME NEW b \in Seq(Byte), HasHeader(b)
    PROVE  Length(b) \in Nat
<1>1. b[2] \in Byte /\ b[3] \in Byte /\ b[4] \in Byte /\ b[5] \in Byte
  BY DEF HasHeader
<1>2. Byte \subseteq Nat
  BY DEF Byte
<1>3. ASSUME NEW x \in Nat, NEW y \in Nat, NEW z \in Nat, NEW w \in Nat
      PROVE  ((x * 256 + y) * 256 + z) * 256 + w \in Nat
  OBVIOUS
<1>4. b[2] \in Nat /\ b[3] \in Nat /\ b[4] \in Nat /\ b[5] \in Nat
  BY <1>1, <1>2
<1> DEFINE x == b[2]  y == b[3]  z == b[4]  w == b[5]
<1>5. x \in Nat /\ y \in Nat /\ z \in Nat /\ w \in Nat
  BY <1>4
<1>6. Length(b) = ((x * 256 + y) * 256 + z) * 256 + w
  BY DEF Length
<1> HIDE DEF x, y, z, w
<1> QED
  BY <1>3, <1>5, <1>6

\* What is cut from the front of a buffer leaves the bytes behind it in place.
LEMMA Behind ==
    ASSUME NEW b \in Seq(Byte), NEW k \in 1..(Len(b) + 1)
    PROVE  /\ SubSeq(b, k, Len(b)) \in Seq(Byte)
           /\ Len(SubSeq(b, k, Len(b))) = Len(b) - (k - 1)
           /\ \A i \in 1..(Len(b) - (k - 1)) : SubSeq(b, k, Len(b))[i] = b[k - 1 + i]
OBVIOUS

\* A read appends the next bytes of the stream.
LEMMA PushKeepsInv ==
    ASSUME FramerInv, NEW n \in 1..(Len(stream) - fed), Push(n)
    PROVE  FramerInv'
<1> USE DEF FramerInv
<1>1. stream \in Seq(Byte)
  BY FramerAssumption DEF TypeOK
<1>2. /\ SubSeq(stream, fed + 1, fed + n) \in Seq(Byte)
      /\ Len(SubSeq(stream, fed + 1, fed + n)) = n
      /\ \A i \in 1..n : SubSeq(stream, fed + 1, fed + n)[i] = stream[fed + i]
  BY <1>1 DEF TypeOK
<1>3. /\ buf' \in Seq(Byte)
      /\ Len(buf') = Len(buf) + n
  BY <1>2 DEF Push, TypeOK
<1>4. TypeOK'
  <2>1. Len(stream) \in Nat /\ Len(buf) \in Nat /\ fed \in Nat /\ Len(buf) <= fed
    BY <1>1 DEF TypeOK
  <2>2. fed' \in 0..Len(stream) /\ Len(buf') <= fed'
    BY <1>3, <2>1 DEF Push
  <2> QED
    BY <1>3, <2>2 DEF Push, TypeOK
<1>5. ASSUME NEW i \in 1..Len(buf')
      PROVE  buf'[i] = stream'[fed' - Len(buf') + i]
  <2>1. CASE i <= Len(buf)
    <3>1. buf'[i] = buf[i]
      BY <1>2, <1>3, <2>1 DEF Push, TypeOK
    <3> QED
      BY <1>3, <2>1, <3>1 DEF Push, TypeOK, BufferIsUnread
  <2>2. CASE i > Len(buf)
    <3>1. buf'[i] = SubSeq(stream, fed + 1, fed + n)[i - Len(buf)]
      BY <1>2, <1>3, <2>2 DEF Push, TypeOK
    <3>2. buf'[i] = stream[fed + (i - Len(buf))]
      BY <1>2, <1>3, <2>2, <3>1 DEF TypeOK
    <3> QED
      BY <1>3, <2>2, <3>2 DEF Push, TypeOK
  <2> QED
    BY <1>3, <2>1, <2>2 DEF TypeOK
<1> QED
  BY <1>4, <1>5 DEF BufferIsUnread

\* Cutting k bytes from the front of the buffer keeps it unread.
LEMMA CutKeepsUnread ==
    ASSUME FramerInv, NEW k \in 1..(Len(buf) + 1),
           buf' = SubSeq(buf, k, Len(buf)), UNCHANGED <<stream, fed>>
    PROVE  /\ buf' \in Seq(Byte)
           /\ Len(buf') = Len(buf) - (k - 1)
           /\ Len(buf') <= fed'
           /\ BufferIsUnread'
<1>1. buf \in Seq(Byte) /\ Len(buf) <= fed /\ fed \in Nat
  BY FramerAssumption DEF FramerInv, TypeOK
<1>2. /\ buf' \in Seq(Byte)
      /\ Len(buf') = Len(buf) - (k - 1)
      /\ \A i \in 1..(Len(buf) - (k - 1)) : buf'[i] = buf[k - 1 + i]
  BY <1>1, Behind
<1>3. \A i \in 1..Len(buf) : buf[i] = stream[fed - Len(buf) + i]
  BY DEF FramerInv, BufferIsUnread
<1>4. ASSUME NEW i \in 1..Len(buf')
      PROVE  buf'[i] = stream'[fed' - Len(buf') + i]
  <2>1. k - 1 + i \in 1..Len(buf)
    BY <1>1, <1>2
  <2>2. fed - Len(buf) + (k - 1 + i) = fed' - Len(buf') + i
    BY <1>1, <1>2
  <2> QED
    BY <1>2, <1>3, <2>1, <2>2
<1>5. Len(buf') <= fed'
  <2>1. Len(buf) \in Nat
    BY <1>1
  <2> QED
    BY <1>1, <1>2, <2>1
<1> QED
  BY <1>2, <1>4, <1>5 DEF BufferIsUnread

LEMMA DropKeepsInv ==
    ASSUME FramerInv, DropByte
    PROVE  FramerInv'
<1>1. 2 \in 1..(Len(buf) + 1)
  BY DEF DropByte, IsMalformed, HasHeader, FramerInv, TypeOK
<1>2. /\ buf' \in Seq(Byte)
      /\ Len(buf') <= fed'
      /\ BufferIsUnread'
  BY <1>1, CutKeepsUnread DEF DropByte
<1> QED
  BY <1>2 DEF DropByte, FramerInv, TypeOK

LEMMA DeliverKeepsInv ==
    ASSUME FramerInv, Deliver
    PROVE  FramerInv'
<1>1. buf \in Seq(Byte) /\ HasHeader(buf) /\ Length(buf) >= 4
      /\ Len(buf) >= Length(buf) + 1
  BY DEF Deliver, IsWhole, FramerInv, TypeOK
<1>2. Length(buf) \in Nat
  BY <1>1, LengthIsNat
<1>3. Length(buf) + 2 \in 1..(Len(buf) + 1)
  BY <1>1, <1>2
<1>4. /\ buf' \in Seq(Byte)
      /\ Len(buf') <= fed'
      /\ BufferIsUnread'
  BY <1>3, CutKeepsUnread DEF Deliver
<1>5. buf[1] \in Byte /\ SubSeq(buf, 6, Length(buf) + 1) \in Seq(Byte)
  BY <1>1, <1>2
<1>6. messages' \in Seq(Message)
  BY <1>5 DEF Deliver, FramerInv, TypeOK, Message
<1> QED
  BY <1>4, <1>6 DEF Deliver, FramerInv, TypeOK

LEMMA FramerInductive == FramerInv /\ [Next]_vars => FramerInv'
<1> SUFFICES ASSUME FramerInv, [Next]_vars
             PROVE  FramerInv'
  OBVIOUS
<1>1. CASE \E n \in 1..(Len(stream) - fed) : Push(n)
  BY <1>1, PushKeepsInv
<1>2. CASE NeedMore
  BY <1>2 DEF NeedMore, FramerInv, TypeOK, BufferIsUnread
<1>3. CASE DropByte
  BY <1>3, DropKeepsInv
<1>4. CASE Deliver
  BY <1>4, DeliverKeepsInv
<1>5. CASE UNCHANGED vars
  BY <1>5 DEF vars, FramerInv, TypeOK, BufferIsUnread
<1> QED
  BY <1>1, <1>2, <1>3, <1>4, <1>5 DEF Next

LEMMA FramerStarts == Init => FramerInv
<1> SUFFICES ASSUME Init
             PROVE  TypeOK /\ BufferIsUnread
  BY DEF FramerInv
<1>1. stream \in Streams /\ Len(stream) \in Nat
  BY FramerAssumption DEF Init
<1>2. Len(<<>>) = 0 /\ <<>> \in Seq(Byte) /\ <<>> \in Seq(Message)
  OBVIOUS
<1>3. TypeOK
  <2>1. 0 \in 0..Len(stream) /\ 0 <= 0
    BY <1>1
  <2>2. /\ fed = 0 /\ buf = <<>> /\ messages = <<>>
        /\ pc = "reading" /\ malformed = FALSE
    BY DEF Init
  <2>3. Len(buf) <= fed /\ fed \in 0..Len(stream)
    BY <1>2, <2>1, <2>2
  <2> QED
    BY <1>1, <1>2, <2>2, <2>3, Zenon DEF TypeOK
<1>4. BufferIsUnread
  BY <1>2 DEF Init, BufferIsUnread
<1> QED
  BY <1>3, <1>4

\* Every variable of the framer has its type, and the buffer holds no more
\* than was read.
THEOREM FramerTypeCorrect == Spec => []TypeOK
<1>1. FramerInv => TypeOK
  BY DEF FramerInv
<1> QED
  BY <1>1, FramerStarts, FramerInductive, PTL DEF Spec

\* The buffer holds exactly the bytes read and not yet passed, whatever the
\* stream and wherever the reads cut it.
THEOREM NothingIsLost == Spec => []BufferIsUnread
<1>1. FramerInv => BufferIsUnread
  BY DEF FramerInv
<1> QED
  BY <1>1, FramerStarts, FramerInductive, PTL DEF Spec

\* A whole message is left in the buffer between two reads only after a
\* malformed length.
THEOREM WaitingMeansMalformed == Spec => []WaitsOnlyIfMalformed
<1>1. Init => WaitsOnlyIfMalformed
  BY DEF Init, WaitsOnlyIfMalformed, IsWhole, HasHeader
<1>2. WaitsOnlyIfMalformed /\ [Next]_vars => WaitsOnlyIfMalformed'
  BY DEF WaitsOnlyIfMalformed, Next, vars, Push, NeedMore, DropByte, Deliver,
         IsWhole, IsMalformed, HasHeader, Length
<1> QED
  BY <1>1, <1>2, PTL DEF Spec

-----------------------------------------------------------------------------
(* The refinement of MessageStream. *)

\* The header at the head of the buffer is the stream's after the bytes passed.
LEMMA SameHeader ==
    ASSUME FramerInv, HasHeader(buf)
    PROVE  /\ Whole!HeaderIsThere
           /\ Whole!LengthAt(stream, (fed - Len(buf)) + 1) = Length(buf)
<1>1. /\ buf \in Seq(Byte) /\ Len(buf) >= 5 /\ Len(buf) <= fed
      /\ fed \in Nat /\ fed <= Len(stream) /\ Len(stream) \in Nat
  BY FramerAssumption DEF FramerInv, TypeOK, HasHeader
<1>2. /\ buf[2] = stream[fed - Len(buf) + 2]
      /\ buf[3] = stream[fed - Len(buf) + 3]
      /\ buf[4] = stream[fed - Len(buf) + 4]
      /\ buf[5] = stream[fed - Len(buf) + 5]
  BY <1>1 DEF FramerInv, BufferIsUnread
<1>3. /\ ((fed - Len(buf)) + 1) + 1 = fed - Len(buf) + 2
      /\ ((fed - Len(buf)) + 1) + 2 = fed - Len(buf) + 3
      /\ ((fed - Len(buf)) + 1) + 3 = fed - Len(buf) + 4
      /\ ((fed - Len(buf)) + 1) + 4 = fed - Len(buf) + 5
  BY <1>1
<1>4. Whole!LengthAt(stream, (fed - Len(buf)) + 1) = Length(buf)
  BY <1>2, <1>3 DEF Whole!LengthAt, Length
<1> QED
  BY <1>1, <1>4 DEF Whole!HeaderIsThere

LEMMA DropIsSkip ==
    ASSUME FramerInv, DropByte
    PROVE  Whole!Skip
<1>1. /\ HasHeader(buf) /\ Length(buf) < 4
      /\ buf \in Seq(Byte) /\ fed \in Nat /\ Len(buf) >= 5
  BY FramerAssumption DEF DropByte, IsMalformed, HasHeader, FramerInv, TypeOK
<1>2. Len(buf') = Len(buf) - 1
  BY <1>1, CutKeepsUnread DEF DropByte
<1>3. fed' - Len(buf') = (fed - Len(buf)) + 1
  <2>1. Len(buf) \in Nat /\ fed' = fed
    BY <1>1 DEF DropByte
  <2> QED
    BY <1>1, <1>2, <2>1
<1> QED
  BY <1>1, <1>3, SameHeader DEF Whole!Skip, DropByte

LEMMA DeliverIsTake ==
    ASSUME FramerInv, Deliver
    PROVE  Whole!Take
<1> DEFINE a == fed - Len(buf)
           l == Length(buf)
<1>1. /\ HasHeader(buf) /\ l >= 4 /\ Len(buf) >= l + 1 /\ Len(buf) >= 5
      /\ buf \in Seq(Byte) /\ fed \in Nat /\ Len(buf) <= fed
      /\ stream \in Seq(Byte) /\ fed <= Len(stream)
  BY FramerAssumption DEF Deliver, IsWhole, HasHeader, FramerInv, TypeOK
<1>2. l \in Nat
  BY <1>1, LengthIsNat
<1>3. a \in Nat /\ a + 1 + l <= Len(stream)
  BY <1>1, <1>2
<1>4. Len(buf') = Len(buf) - (l + 1)
  <2>1. l + 2 \in 1..(Len(buf) + 1)
    BY <1>1, <1>2
  <2>2. buf' = SubSeq(buf, l + 2, Len(buf)) /\ UNCHANGED <<stream, fed>>
    BY DEF Deliver
  <2>3. Len(buf') = Len(buf) - ((l + 2) - 1)
    <3> HIDE DEF l
    <3> QED
      BY <2>1, <2>2, CutKeepsUnread
  <2>4. Len(buf) \in Nat
    BY <1>1
  <2> QED
    <3> HIDE DEF l
    <3> QED
      BY <1>2, <2>3, <2>4
<1>5. fed' - Len(buf') = a + 1 + l
  <2>1. Len(buf) \in Nat /\ fed' = fed
    BY <1>1 DEF Deliver
  <2> QED
    BY <1>1, <1>2, <1>4, <2>1
<1>6. buf[1] = stream[a + 1]
  BY <1>1 DEF FramerInv, BufferIsUnread
<1>7. SubSeq(buf, 6, l + 1) = SubSeq(stream, a + 6, a + 1 + l)
  <2>1. \A i \in 1..Len(buf) : buf[i] = stream[a + i]
    BY DEF FramerInv, BufferIsUnread
  <2>2. /\ SubSeq(buf, 6, l + 1) \in Seq(Byte)
        /\ Len(SubSeq(buf, 6, l + 1)) = l - 4
        /\ \A i \in 1..(l - 4) : SubSeq(buf, 6, l + 1)[i] = buf[5 + i]
    BY <1>1, <1>2
  <2>3. /\ SubSeq(stream, a + 6, a + 1 + l) \in Seq(Byte)
        /\ Len(SubSeq(stream, a + 6, a + 1 + l)) = l - 4
        /\ \A i \in 1..(l - 4) :
              SubSeq(stream, a + 6, a + 1 + l)[i] = stream[a + (5 + i)]
    BY <1>1, <1>2, <1>3
  <2>4. ASSUME NEW i \in 1..(l - 4)
        PROVE  buf[5 + i] = stream[a + (5 + i)]
    <3>1. Len(buf) \in Nat /\ 5 + i \in 1..Len(buf)
      BY <1>1, <1>2
    <3> QED
      BY <2>1, <3>1
  <2> DEFINE s == SubSeq(buf, 6, l + 1)
             u == SubSeq(stream, a + 6, a + 1 + l)
  <2>5. Len(s) = Len(u) /\ \A i \in 1..Len(s) : s[i] = u[i]
    BY <2>2, <2>3, <2>4
  <2>6. s \in Seq(Byte) /\ u \in Seq(Byte)
    BY <2>2, <2>3
  <2> HIDE DEF s, u
  <2>7. s = u
    BY <2>5, <2>6
  <2> QED
    BY <2>7 DEF s, u
<1>8. /\ Whole!HeaderIsThere
      /\ Whole!LengthAt(stream, a + 1) = l
  BY <1>1, SameHeader
<1>9. messages' = Append(messages,
         [typ |-> stream[a + 1], body |-> SubSeq(stream, a + 6, a + 1 + l)])
  BY <1>6, <1>7 DEF Deliver
<1> HIDE DEF l
<1> QED
  BY <1>1, <1>3, <1>5, <1>8, <1>9 DEF Whole!Take, Deliver

\* Whatever the reads, the messages are those of the stream read in one
\* piece, in its order: each step passes over what MessageStream passes over.
THEOREM CutsDoNotMatter == Spec => CutsMakeNoDifference
<1>1. Init => Whole!Init
  <2> SUFFICES ASSUME Init
               PROVE  stream \in Seq(Whole!Byte) /\ fed - Len(buf) = 0 /\ messages = <<>>
    BY DEF Whole!Init
  <2>1. Byte = Whole!Byte
    BY DEF Byte, Whole!Byte
  <2>2. Len(<<>>) = 0
    OBVIOUS
  <2>3. stream \in Streams /\ fed = 0 /\ buf = <<>> /\ messages = <<>>
    BY DEF Init
  <2>4. stream \in Seq(Whole!Byte)
    BY <2>1, <2>3, FramerAssumption, Zenon
  <2>5. Len(buf) = 0
    BY <2>2, <2>3
  <2>6. fed - Len(buf) = 0
    <3>1. fed = 0
      BY <2>3
    <3> QED
      BY <2>5, <3>1
  <2> QED
    BY <2>3, <2>4, <2>6
<1>2. ASSUME FramerInv, [Next]_vars
      PROVE  [Whole!Next]_<<stream, fed - Len(buf), messages>>
  <2>1. CASE \E n \in 1..(Len(stream) - fed) : Push(n)
    <3>1. PICK n \in 1..(Len(stream) - fed) : Push(n)
      BY <2>1
    <3>2. /\ fed \in Nat /\ buf \in Seq(Byte) /\ stream \in Seq(Byte)
          /\ fed <= Len(stream)
      BY <1>2, FramerAssumption DEF FramerInv, TypeOK
    <3>3. Len(SubSeq(stream, fed + 1, fed + n)) = n
          /\ SubSeq(stream, fed + 1, fed + n) \in Seq(Byte)
      BY <3>2
    <3>4. Len(buf') = Len(buf) + n
      BY <3>1, <3>2, <3>3 DEF Push
    <3>5. fed' - Len(buf') = fed - Len(buf)
      BY <3>1, <3>2, <3>4 DEF Push
    <3> QED
      BY <3>1, <3>5 DEF Push
  <2>2. CASE NeedMore
    BY <2>2 DEF NeedMore
  <2>3. CASE DropByte
    BY <1>2, <2>3, DropIsSkip DEF Whole!Next
  <2>4. CASE Deliver
    BY <1>2, <2>4, DeliverIsTake DEF Whole!Next
  <2>5. CASE UNCHANGED vars
    BY <2>5 DEF vars
  <2> QED
    BY <1>2, <2>1, <2>2, <2>3, <2>4, <2>5 DEF Next
<1> QED
  BY <1>1, <1>2, FramerStarts, FramerInductive, PTL
  DEF Spec, CutsMakeNoDifference, Whole!Spec
=============================================================================
