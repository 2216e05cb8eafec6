---------------------------- MODULE MCCaptureProxy ----------------------------
(***************************************************************************)
(* Two named statements and the unnamed one.  q1 takes an int4 and q2 a    *)
(* date: the same arity and width, so only the order of the replies tells  *)
(* their types apart.  bad is rejected by the server.                      *)
(***************************************************************************)
EXTENDS CaptureProxy

CONSTANTS a, b, none, q1, q2, bad, int4, date

MCNames == {a, b, none}
MCSQLs == {q1, q2, bad}
MCOIDs == {int4, date}
MCDecodes == MCOIDs \X MCOIDs
MCParamTypes == [q \in MCSQLs |-> IF q = q2 THEN <<date>> ELSE <<int4>>]

P(n, q) == [type |-> "Parse", name |-> n, sql |-> q]
B(n, t) == [type |-> "Bind", stmt |-> n, formats |-> <<"binary">>,
            params |-> <<[null |-> FALSE, enc |-> t]>>]
D(k, n) == [type |-> "Describe", kind |-> k, name |-> n]
C(k, n) == [type |-> "Close", kind |-> k, name |-> n]
Q(q) == [type |-> "Query", sql |-> q]
Sync == [type |-> "Sync"]

MCColumnTypes == [q \in MCSQLs |-> IF q = q1 THEN <<int4>> ELSE <<>>]

\* Two statements parsed, then described and bound in any order.
Describing == {D("S", a), D("S", b), B(a, int4), B(b, date)}
TwoStatements ==
    <<{P(a, q1)}, {P(b, q2)}, Describing, Describing, Describing, Describing>>

\* One statement name reused for other SQL, rejected Parses, portals,
\* simple queries.
Reusing ==
    {P(none, q1), P(none, q2), P(none, bad), B(none, int4), C("S", none),
     D("P", none), Q(q1), Sync}
ReusedName == <<Reusing, Reusing, Reusing, Reusing>>

\* A rejected statement is described; then two others are.
Rejected ==
    <<{P(a, bad)}, {D("S", a)}, {Sync}, {P(b, q1)}, {D("S", b)},
      {P(none, q2)}, {D("S", none)}, {B(b, int4)}>>

\* One batch, then anything, and two statements run, for the tear-down.
Batch == <<{P(a, q1)}, {B(a, int4), D("S", a)}, {B(a, int4)}>>
BothRun == <<{P(a, q1)}, {P(b, q2)}, {B(a, int4)}, {B(b, date)}>>
Refused == <<{P(a, bad)}, {B(a, int4)}>>

\* A name is parsed twice and the server rejects the second Parse.
ParseTwice == <<{P(a, q1)}, {P(a, q2)}, {Sync}, {B(a, int4)}>>

\* The clients of each run.
Pipelining == {TwoStatements, ReusedName, Rejected}
Describers == {TwoStatements}
Leaving == {Batch, BothRun, Refused}
Repeating == {ParseTwice}
=============================================================================
