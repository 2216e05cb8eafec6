--------------------------------- MODULE Trace ---------------------------------
(***************************************************************************)
(* A bound parameter on its way from the wire to the differ: captured      *)
(* (internal/capture/protocol.go and session.go), written to the trace     *)
(* (recorder.go) and read back (decoder.go).                               *)
(*                                                                         *)
(* A payload is known by the text PostgreSQL shows its value as, whether   *)
(* or not anybody could decode it.  Which payloads a described binary      *)
(* parameter decodes to is module Session's; here it was decoded, or not.  *)
(***************************************************************************)
EXTENDS Naturals, Sequences

CONSTANTS
    Texts,      \* values as text
    EmptyText,  \* the empty string: also what a field not written reads as
    NullText,   \* the text the capture gives a null parameter
    Utf8        \* a text as JSON writes it: bytes that are no UTF-8 replaced

ASSUME TraceAssumption ==
    /\ {EmptyText, NullText} \subseteq Texts
    /\ EmptyText # NullText
    /\ Utf8 \in [Texts -> Texts]
    /\ \A t \in Texts : Utf8[Utf8[t]] = Utf8[t]
    /\ Utf8[EmptyText] = EmptyText

Param == [null : BOOLEAN, binary : BOOLEAN, known : BOOLEAN,
          text : Texts, bytes : Texts]

\* How a value travels: as text, or in binary with its type captured or not.
Formats == {"text", "described", "undescribed"}

\* What the capture makes of a value, null or not, sent in a format.
CapturedParam(null, text, format) ==
    LET binary == format # "text"
        known == format # "undescribed"
    IN IF null
       THEN [null |-> TRUE, binary |-> binary, known |-> TRUE,
             text |-> NullText, bytes |-> EmptyText]
       ELSE [null |-> FALSE, binary |-> binary, known |-> known,
             text |-> IF known THEN text ELSE EmptyText, bytes |-> text]

\* Recorder.Emit: a null parameter has neither value, a known one its text, an
\* undecoded one its bytes.
EmitParam(p) ==
    [null |-> p.null, format |-> IF p.binary THEN "binary" ELSE "text",
     known |-> p.known,
     value |-> IF ~p.null /\ p.known THEN Utf8[p.text] ELSE EmptyText,
     base64 |-> IF ~p.null /\ ~p.known THEN p.bytes ELSE EmptyText]

\* Faulty: whatever bytes there are count as a value.
DecodeParamPromotes(j) ==
    [null |-> j.null, binary |-> j.format = "binary",
     known |-> j.known \/ j.base64 # EmptyText,
     text |-> IF j.null THEN EmptyText
              ELSE IF j.base64 # EmptyText THEN j.base64 ELSE j.value,
     bytes |-> IF ~j.null /\ ~j.known THEN j.base64 ELSE EmptyText]

\* DecodeEvents: the same three cases.
DecodeParam(j) ==
    [null |-> j.null, binary |-> j.format = "binary", known |-> j.known,
     text |-> IF ~j.null /\ j.known THEN j.value ELSE EmptyText,
     bytes |-> IF ~j.null /\ ~j.known THEN j.base64 ELSE EmptyText]

ReadBack(p) == DecodeParam(EmitParam(p))

\* p as the trace keeps it: what identifies its value, and no value that was
\* not known.
KeepsWhatIsKnown(p) ==
    LET q == ReadBack(p)
    IN /\ <<q.null, q.binary, q.known>> = <<p.null, p.binary, p.known>>
       /\ p.known /\ ~p.null => q.text = Utf8[p.text]
       /\ ~p.known /\ ~p.null => q.bytes = p.bytes
       /\ p.null \/ ~p.known => q.text = EmptyText
=============================================================================
