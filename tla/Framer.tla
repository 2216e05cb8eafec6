-------------------------------- MODULE Framer --------------------------------
(***************************************************************************)
(* One direction of a captured connection from bytes to messages: the      *)
(* framer (internal/capture/protocol.go) in the loop of FeedFrontend or    *)
(* FeedBackend (session.go).  The network cuts the stream into reads of    *)
(* any size; each read is pushed, then next is called until it has         *)
(* nothing.  The loop holds the session's lock, and the other direction    *)
(* has a framer of its own.                                                *)
(***************************************************************************)
EXTENDS Naturals, Sequences

CONSTANT Streams   \* byte sequences a connection may carry

Byte == 0..255
Message == [typ : Byte, body : Seq(Byte)]

ASSUME FramerAssumption == Streams \subseteq Seq(Byte)

VARIABLES
    stream,     \* the bytes of this direction
    fed,        \* how many of them have been read
    buf,        \* framer.buf
    pc,         \* reading, or in the loop over next
    malformed,  \* the latest loop ended at a malformed length
    messages    \* what next has returned, oldest first

vars == <<stream, fed, buf, pc, malformed, messages>>

Init ==
    /\ stream \in Streams
    /\ fed = 0
    /\ buf = <<>>
    /\ pc = "reading"
    /\ malformed = FALSE
    /\ messages = <<>>

\* Faulty: the whole read buffer is pushed, not only the bytes read.
PushBuffer(n) ==
    /\ pc = "reading"
    /\ buf' = buf \o SubSeq(stream, fed + 1, Len(stream))
    /\ fed' = fed + n
    /\ pc' = "handling"
    /\ malformed' = FALSE
    /\ UNCHANGED <<stream, messages>>

\* Faulty: the bytes read go before those an earlier read left.
PushFront(n) ==
    /\ pc = "reading"
    /\ buf' = SubSeq(stream, fed + 1, fed + n) \o buf
    /\ fed' = fed + n
    /\ pc' = "handling"
    /\ malformed' = FALSE
    /\ UNCHANGED <<stream, messages>>

\* A read of n bytes.
Push(n) ==
    /\ pc = "reading"
    /\ buf' = buf \o SubSeq(stream, fed + 1, fed + n)
    /\ fed' = fed + n
    /\ pc' = "handling"
    /\ malformed' = FALSE
    /\ UNCHANGED <<stream, messages>>

\* Big-endian, after the type byte.
Length(b) == ((b[2] * 256 + b[3]) * 256 + b[4]) * 256 + b[5]

HasHeader(b) == Len(b) >= 5
IsMalformed(b) == HasHeader(b) /\ Length(b) < 4

\* Faulty: a message is whole only when a byte of the next one is there.
IsWholeLate(b) == HasHeader(b) /\ Length(b) >= 4 /\ Len(b) > Length(b) + 1

IsWhole(b) == HasHeader(b) /\ Length(b) >= 4 /\ Len(b) >= Length(b) + 1

\* next's three outcomes; only a message lets the loop go on.
NeedMore ==
    /\ pc = "handling"
    /\ ~IsMalformed(buf) /\ ~IsWhole(buf)
    /\ pc' = "reading"
    /\ UNCHANGED <<stream, fed, buf, malformed, messages>>

\* Faulty: the rest of the header is dropped too.
DropHeader ==
    /\ pc = "handling"
    /\ IsMalformed(buf)
    /\ buf' = SubSeq(buf, 6, Len(buf))
    /\ malformed' = TRUE
    /\ pc' = "reading"
    /\ UNCHANGED <<stream, fed, messages>>

DropByte ==
    /\ pc = "handling"
    /\ IsMalformed(buf)
    /\ buf' = SubSeq(buf, 2, Len(buf))
    /\ malformed' = TRUE
    /\ pc' = "reading"
    /\ UNCHANGED <<stream, fed, messages>>

\* Faulty: one message per read.
DeliverOne ==
    /\ pc = "handling"
    /\ IsWhole(buf)
    /\ messages' = Append(messages,
          [typ |-> buf[1], body |-> SubSeq(buf, 6, Length(buf) + 1)])
    /\ buf' = SubSeq(buf, Length(buf) + 2, Len(buf))
    /\ pc' = "reading"
    /\ UNCHANGED <<stream, fed, malformed>>

Deliver ==
    /\ pc = "handling"
    /\ IsWhole(buf)
    /\ messages' = Append(messages,
          [typ |-> buf[1], body |-> SubSeq(buf, 6, Length(buf) + 1)])
    /\ buf' = SubSeq(buf, Length(buf) + 2, Len(buf))
    /\ UNCHANGED <<stream, fed, pc, malformed>>

Next ==
    \/ \E n \in 1..(Len(stream) - fed) : Push(n)
    \/ NeedMore \/ DropByte \/ Deliver

Spec == Init /\ [][Next]_vars

\* The goroutine of this direction reads what the peer has sent, and its loop
\* holds a lock nobody else keeps.
FairSpec == Spec /\ WF_vars(Next)

TypeOK ==
    /\ stream \in Streams
    /\ fed \in 0..Len(stream)
    /\ buf \in Seq(Byte)
    /\ Len(buf) <= fed
    /\ pc \in {"reading", "handling"}
    /\ malformed \in BOOLEAN
    /\ messages \in Seq(Message)

-----------------------------------------------------------------------------
\* The framer keeps exactly the bytes read and not yet passed: none is lost,
\* repeated or moved, wherever the reads cut the stream (protocol.go, framer:
\* a message split across several reads, several messages in one read).
BufferIsUnread ==
    \A i \in 1..Len(buf) : buf[i] = stream[fed - Len(buf) + i]

\* Between two reads no whole message waits in the buffer, unless the loop
\* stopped at a malformed length: next then says what it says when bytes are
\* missing, and whatever follows waits for the next read.
WaitsOnlyIfMalformed ==
    pc = "reading" /\ IsWhole(buf) => malformed

\* Where the reads cut the stream makes no difference to the messages.
Whole == INSTANCE MessageStream WITH at <- fed - Len(buf)
CutsMakeNoDifference == Whole!Spec

\* The length fields from position i on chain to the end of the stream.
Chains ==
    LET reaches[i \in 0..Len(stream)] ==
          \/ i = Len(stream)
          \/ /\ i + 5 <= Len(stream)
             /\ LET l == Whole!LengthAt(stream, i + 1)
                IN l >= 4 /\ i + 1 + l <= Len(stream) /\ reaches[i + 1 + l]
    IN reaches[0]

\* A stream of whole messages is handled to its last byte.
EveryMessageArrives == Chains ~> (fed = Len(stream) /\ buf = <<>>)
=============================================================================
