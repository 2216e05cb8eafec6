------------------------------- MODULE MCSession -------------------------------
(***************************************************************************)
(* A named and the unnamed statement, two SQL texts, and three types: int4 *)
(* and date have the same width, so each reads the other's payload; json   *)
(* has no decoder.                                                         *)
(***************************************************************************)
EXTENDS SessionHistory

CONSTANTS a, none, q1, q2, int4, date, json

MCNames == {a, none}
MCSQLs == {q1, q2}
MCOIDs == {int4, date, json}
MCDecodes == {int4, date} \X {int4, date}

P(n, q) == [type |-> "Parse", name |-> n, sql |-> q]
B(n, formats, params) ==
    [type |-> "Bind", stmt |-> n, formats |-> formats, params |-> params]
D(k, n) == [type |-> "Describe", kind |-> k, name |-> n]
C(k, n) == [type |-> "Close", kind |-> k, name |-> n]
Val(t) == [null |-> FALSE, enc |-> t]
Null(t) == [null |-> TRUE, enc |-> t]

MCFrontMsgs ==
    {P(a, q1), P(a, q2), P(none, q1),
     B(a, <<"binary">>, <<Val(int4)>>),
     B(a, <<"binary", "text">>, <<Val(date), Val(json)>>),
     B(none, <<"text", "binary">>, <<Null(int4), Val(json)>>),
     D("S", a), D("S", none), D("P", a), C("S", a), C("P", a),
     [type |-> "Query", sql |-> q2], [type |-> "Sync"]}

MCBackMsgs ==
    {[type |-> "ParameterDescription", oids |-> <<int4>>],
     [type |-> "ParameterDescription", oids |-> <<date, json>>],
     [type |-> "RowDescription", oids |-> <<int4>>],
     [type |-> "Other"]}
=============================================================================
