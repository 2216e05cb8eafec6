---------------------------- MODULE DifferContract ----------------------------
(***************************************************************************)
(* What Diff promises its caller (internal/differ/differ.go, Verdict,      *)
(* Result and the comment on Diff), as one step: nothing is written, and   *)
(* unless the query is UNATTRIBUTABLE the verdict follows from the query   *)
(* and the rows alone, not from the calls, connections and transactions it *)
(* took to find it.  A SELECT is asked twice: of every row it matches, and *)
(* of those of the tenant it claims.                                       *)
(***************************************************************************)
EXTENDS Naturals, Sequences

CONSTANTS
    Queries,   \* captured queries, as in module Differ
    Keep,      \* an UPDATE that leaves the tenant column alone
    NoRow,
    NoRows     \* the result without rows

VARIABLES
    content,   \* each key's tenant, NoRow if absent
    query,     \* the query asked about
    busy,      \* it has no answer yet
    verdict,   \* none until there is one
    vacuous

\* The tenants of the existing rows the query's predicate matches, and of the
\* rows it inserts.
Matched == {content[k] : k \in query.match} \ {NoRow}
Inserted == {query.rows[i].tenant : i \in DOMAIN query.rows}

Of(tenants) == {k \in query.match : content[k] \in tenants}

\* An INSERT is LEAK if it writes a row of any tenant but the one claimed; an
\* UPDATE if it would give a row of that tenant to another.
IsForeign ==
    CASE query.op = "insert" -> ~(Inserted \subseteq {query.claim})
      [] query.op = "update" -> /\ query.claim \in Matched
                                /\ query.to \notin {Keep, query.claim}
      [] OTHER -> FALSE

IsEmpty ==
    IF query.op = "insert" THEN Inserted = {} ELSE Matched = {}

Ask(q) ==
    /\ ~busy
    /\ query' = q
    /\ busy' = TRUE
    /\ verdict' = "none" /\ vacuous' = FALSE
    /\ UNCHANGED content

\* A query that cannot be replayed is refused at once.
Refuse(q) ==
    /\ ~busy
    /\ ~q.resolved \/ q.attr = "unattributable"
    /\ query' = q
    /\ verdict' = "UNATTRIBUTABLE" /\ vacuous' = FALSE
    /\ UNCHANGED <<content, busy>>

GiveUp ==
    /\ busy
    /\ busy' = FALSE
    /\ verdict' = "UNATTRIBUTABLE" /\ vacuous' = FALSE
    /\ UNCHANGED <<content, query>>

Reply(leak, empty) ==
    /\ busy
    /\ busy' = FALSE
    /\ query.resolved /\ query.attr # "unattributable"
    /\ verdict' = IF leak THEN "LEAK" ELSE "SAFE"
    /\ vacuous' = (~leak /\ empty)
    /\ UNCHANGED <<content, query>>

Answer ==
    /\ query.op # "select"
    /\ Reply(IsForeign, IsEmpty)

AnswerRead ==
    /\ query.op = "select"
    /\ \E all \in query.answer[Of(Matched)], own \in query.answer[Of({query.claim})] :
          Reply(all # own, own = NoRows)

Next ==
    \/ \E q \in Queries : Ask(q) \/ Refuse(q)
    \/ GiveUp \/ Answer \/ AnswerRead

Init == ~busy /\ verdict = "none" /\ vacuous = FALSE

Spec == Init /\ [][Next]_<<content, query, busy, verdict, vacuous>>
=============================================================================
