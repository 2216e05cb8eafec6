---------------------------- MODULE MessageStream ----------------------------
(***************************************************************************)
(* What the framer of internal/capture/protocol.go promises: the messages  *)
(* of a byte stream in the order they are in it, each once and whole, as   *)
(* if the stream had been read in one piece.                               *)
(*                                                                         *)
(* A message is a type byte, a length of four bytes that counts itself and *)
(* the body but not the type byte, and the body.  A length below 4 begins  *)
(* no message: its type byte is passed over.                               *)
(***************************************************************************)
EXTENDS Naturals, Sequences

VARIABLES
    stream,    \* the bytes of one direction of a connection
    at,        \* how many of them have been passed
    messages   \* the messages found, oldest first

Byte == 0..255
Message == [typ : Byte, body : Seq(Byte)]

\* The four bytes after position i of s, most significant first.
LengthAt(s, i) ==
    ((s[i + 1] * 256 + s[i + 2]) * 256 + s[i + 3]) * 256 + s[i + 4]

Init ==
    /\ stream \in Seq(Byte)
    /\ at = 0
    /\ messages = <<>>

\* The header after the bytes passed is there.
HeaderIsThere == at + 5 <= Len(stream)

Take ==
    /\ HeaderIsThere
    /\ LET length == LengthAt(stream, at + 1)
       IN /\ length >= 4
          /\ at + 1 + length <= Len(stream)
          /\ at' = at + 1 + length
          /\ messages' = Append(messages,
                [typ |-> stream[at + 1],
                 body |-> SubSeq(stream, at + 6, at + 1 + length)])
    /\ UNCHANGED stream

Skip ==
    /\ HeaderIsThere
    /\ LengthAt(stream, at + 1) < 4
    /\ at' = at + 1
    /\ UNCHANGED <<stream, messages>>

Next == Take \/ Skip

Spec == Init /\ [][Next]_<<stream, at, messages>>
=============================================================================
