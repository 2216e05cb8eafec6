------------------------------- MODULE MCDiffer -------------------------------
(***************************************************************************)
(* Two keys and two tenants: every table content, reads and writes of one  *)
(* tenant's rows, of the other's and of all, reads that show less than     *)
(* they read or something else, and INSERTs of one or two rows that may    *)
(* collide.                                                                *)
(***************************************************************************)
EXTENDS Differ
LOCAL INSTANCE TLC

CONSTANTS k1, k2, acme, globex, yes, no

MCKeys == {k1, k2}
MCTenants == {acme, globex}
MCNoRows == {}
MCAnswers == {S : S \in SUBSET MCKeys} \cup {yes, no}

\* Rows of a tenant, of the empty one, or none.
AnyContents == [MCKeys -> MCTenants \cup {Empty, NoRow}]

Claims ==
    {[resolved |-> TRUE, attr |-> "resolved", claim |-> acme],
     [resolved |-> TRUE, attr |-> "none", claim |-> Empty]}
Unjudged ==
    {[resolved |-> FALSE, attr |-> "resolved", claim |-> acme],
     [resolved |-> TRUE, attr |-> "unattributable", claim |-> Empty]}

Row(k, t) == [key |-> k, tenant |-> t]
Select(ks, result(_)) ==
    [op |-> "select", match |-> ks,
     answer |-> [S \in SUBSET MCKeys |-> result(S)]]

\* Results of a SELECT that reads rows S: the rows, one of them (LIMIT 1),
\* whether there are any (EXISTS), or what a clock says.
TheRows(S) == {S}
OneOf(S) == IF S = {} THEN {MCNoRows} ELSE {{k} : k \in S}
Exist(S) == {IF S = {} THEN no ELSE yes}
Clock(S) == {yes, no}

Delete(ks) == [op |-> "delete", match |-> ks]
Update(ks, to) == [op |-> "update", match |-> ks, to |-> to]
Insert(rows) == [op |-> "insert", rows |-> rows]

Statements ==
    {Select(ks, TheRows) : ks \in SUBSET MCKeys}
    \cup {Select(MCKeys, OneOf), Select(MCKeys, Exist), Select({k1}, Clock)}
    \cup {Insert(<<Row(k1, acme)>>), Insert(<<Row(k1, globex)>>),
          Insert(<<Row(k1, acme), Row(k2, globex)>>),
          Insert(<<Row(k1, acme), Row(k2, acme)>>),
          Insert(<<Row(k1, acme), Row(k1, acme)>>)}
    \cup {Delete({k1}), Update(MCKeys, Keep), Update({k1}, globex)}

MCQueries == {c @@ s : c \in Claims \cup Unjudged, s \in Statements}

\* Queries of the runs that check one claim of a comment.
UnscopedWrites == {c @@ s : c \in Claims, s \in {Delete(MCKeys), Update(MCKeys, Keep)}}
=============================================================================
