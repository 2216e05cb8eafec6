------------------------------- MODULE MCFramer -------------------------------
(***************************************************************************)
(* Streams of up to three messages with bodies of 0 to 2 bytes, one of     *)
(* which looks like a length; messages cut off by the end of the stream;   *)
(* and the same with a length below 4 before, between or after them, which *)
(* moves the header of what follows.                                       *)
(***************************************************************************)
EXTENDS Framer

Msg(t, body) == <<t, 0, 0, 0, Len(body) + 4>> \o body

Good == {Msg(80, <<>>), Msg(66, <<7>>), Msg(81, <<0, 4>>)}
Bad == {<<67, 0, 0, 0, 0>>, <<67, 0, 0, 0, 3>>}
Cut == {<<>>, <<68>>, <<68, 0, 0, 0, 9, 1>>}

MCStreams ==
    {a \o b \o c : a \in Good \cup {<<>>}, b \in Good, c \in Good \cup Cut}
    \cup {a \o b \o c \o d : a \in Good \cup {<<>>}, b \in Bad,
                             c \in Good \cup {<<>>}, d \in Good \cup Cut}
=============================================================================
