-------------------------------- MODULE Differ --------------------------------
(***************************************************************************)
(* Differential re-execution of captured queries against the probe         *)
(* database (internal/differ/differ.go, Diff and what it calls): once as   *)
(* the superuser, once as the restricted role bound to the tenant the      *)
(* query claims, each in a transaction that is rolled back.                *)
(*                                                                         *)
(* One table, scoped by tenant, with row-level security as                 *)
(* oracle.EnableRLS sets it up: a session sees, removes and may write the  *)
(* rows whose tenant is its setting.  A query is one statement, and is     *)
(* what it does to the table: the rows its predicate matches, with what it *)
(* answers when those are the rows it reads, or the rows it inserts.       *)
(* Every call to the database is a step of its own, the deferred Rollback  *)
(* included, and may fail; a statement that runs outside a transaction is  *)
(* durable at once.                                                        *)
(***************************************************************************)
EXTENDS Naturals, Sequences, FiniteSets, FiniteSetsExt

CONSTANTS
    Keys,        \* primary keys
    Tenants,     \* tenant values
    Empty,       \* the empty tenant value
    Keep,        \* an UPDATE that leaves the tenant column alone
    NoRow, NoKey, NoConn, NoTx, NoQuery,
    Unset,       \* setting of a session no set_config ran on
    Super,       \* the role row-level security does not apply to
    Conns,       \* pooled connections of the restricted role
    Contents,    \* contents the table may have
    Queries,     \* captured queries
    Answers,     \* results of reads, as compared: row order is left out
    NoRows,      \* the result without rows
    NoAnswer,
    MaxConflictRetries,
    MaxQueries   \* bound on the queries replayed

Values == Tenants \cup {Empty}
Content == [Keys -> Values \cup {NoRow}]

\* A SELECT may have one of several answers: some functions differ each time.
Query ==
    [resolved : BOOLEAN, attr : {"resolved", "none", "unattributable"},
     claim : Values, op : {"select"}, match : SUBSET Keys,
     answer : [SUBSET Keys -> (SUBSET Answers) \ {{}}]]
    \cup
    [resolved : BOOLEAN, attr : {"resolved", "none", "unattributable"},
     claim : Values, op : {"delete"}, match : SUBSET Keys]
    \cup
    [resolved : BOOLEAN, attr : {"resolved", "none", "unattributable"},
     claim : Values, op : {"update"}, match : SUBSET Keys,
     to : Values \cup {Keep}]
    \cup
    [resolved : BOOLEAN, attr : {"resolved", "none", "unattributable"},
     claim : Values, op : {"insert"}, rows : Seq([key : Keys, tenant : Values])]

ASSUME DifferAssumption ==
    /\ Empty \notin Tenants
    /\ {NoRow, Keep, Unset, Super} \cap Values = {}
    /\ Unset # Super
    /\ NoKey \notin Keys
    /\ NoConn \notin Conns
    /\ NoTx \notin Content
    /\ NoRows \in Answers /\ NoAnswer \notin Answers
    /\ NoQuery \notin Query
    /\ Contents \subseteq Content
    /\ Queries \subseteq Query
    /\ MaxConflictRetries \in Nat \ {0}
    /\ MaxQueries \in Nat

VARIABLES
    content,   \* the committed rows: each key's tenant, NoRow if absent
    query,     \* the query being replayed
    pc,
    work,      \* the rows as the open transaction sees them, or NoTx
    saved,     \* the rows at the savepoint
    aborted,   \* a statement of the open transaction failed
    failure,   \* how the statement failed: none, unique, rls
    hit,       \* the key a unique violation names
    attempt,   \* of execRolledBack's loop
    known,     \* the conflict key the unrestricted leg resolved last
    touched,   \* keys the unrestricted leg read or wrote
    got,       \* the unrestricted result of a SELECT, or NoAnswer
    admitted,  \* keys the restricted leg read or wrote
    seen,      \* the restricted result of a SELECT, or NoAnswer
    conn,      \* the restricted leg's connection
    setting,   \* the session tenant of each pooled connection
    verdict,   \* of the latest query: none, SAFE, LEAK, UNATTRIBUTABLE
    vacuous,
    faulted,   \* a database call failed for a reason of its own
    replayed   \* number of queries replayed

vars == <<content, query, pc, work, saved, aborted, failure, hit, attempt,
          known, touched, got, admitted, seen, conn, setting, verdict,
          vacuous, faulted, replayed>>

Init ==
    /\ content \in Contents
    /\ query = NoQuery
    /\ pc = "idle"
    /\ work = NoTx /\ saved = NoTx
    /\ aborted = FALSE /\ failure = "none"
    /\ hit = NoKey /\ known = NoKey
    /\ attempt = 0
    /\ touched = {} /\ admitted = {}
    /\ got = NoAnswer /\ seen = NoAnswer
    /\ conn = NoConn
    /\ setting = [c \in Conns |-> Unset]
    /\ verdict = "none" /\ vacuous = FALSE
    /\ faulted = FALSE
    /\ replayed = 0

-----------------------------------------------------------------------------
(* PostgreSQL. *)

\* A session with setting s sees, and may write, a row of tenant t.
Admits(s, t) == s = Super \/ t = s

Visible(w, s) == {k \in Keys : w[k] # NoRow /\ Admits(s, w[k])}

Remove(w, ks) == [k \in Keys |-> IF k \in ks THEN NoRow ELSE w[k]]

\* Rows of an INSERT that cannot be written: not admitted by the policy, or
\* colliding with an existing or an earlier row.  The policy is checked first.
BadRows(w, s) ==
    {i \in DOMAIN query.rows :
        \/ ~Admits(s, query.rows[i].tenant)
        \/ w[query.rows[i].key] # NoRow
        \/ \E j \in 1..(i - 1) : query.rows[j].key = query.rows[i].key}

Result(err, key, ks) == [err |-> err, key |-> key, keys |-> ks]

\* What the query does to rows w in a session with setting s.
Outcome(w, s) ==
    CASE query.op \in {"select", "delete"} ->
            Result("none", NoKey, query.match \cap Visible(w, s))
      [] query.op = "update" ->
            LET ks == query.match \cap Visible(w, s)
            IN IF ks # {} /\ query.to # Keep /\ ~Admits(s, query.to)
               THEN Result("rls", NoKey, {})
               ELSE Result("none", NoKey, ks)
      [] query.op = "insert" ->
            IF BadRows(w, s) = {}
            THEN Result("none", NoKey,
                        {query.rows[i].key : i \in DOMAIN query.rows})
            ELSE LET row == query.rows[Min(BadRows(w, s))]
                 IN IF Admits(s, row.tenant)
                    THEN Result("unique", row.key, {})
                    ELSE Result("rls", NoKey, {})

\* Rows w once the query has removed, changed or written those at keys ks.
RowAt(k) == query.rows[CHOOSE i \in DOMAIN query.rows : query.rows[i].key = k]
Applied(w, ks) ==
    CASE query.op = "select" -> w
      [] query.op = "delete" -> Remove(w, ks)
      [] query.op = "update" ->
            [k \in Keys |-> IF k \in ks /\ query.to # Keep THEN query.to ELSE w[k]]
      [] query.op = "insert" ->
            [k \in Keys |-> IF k \in ks THEN RowAt(k).tenant ELSE w[k]]

\* The rows a statement finds.
Rows == IF work = NoTx THEN content ELSE work

\* A statement leaves rows w: in the open transaction, else for good.
Store(w) ==
    IF work = NoTx THEN content' = w /\ UNCHANGED work
                   ELSE work' = w /\ UNCHANGED content

\* Faulty: the transaction is committed; one that was aborted rolls back.
RollbackCommits ==
    /\ work' = NoTx
    /\ content' = IF work = NoTx \/ aborted THEN content ELSE work

\* The deferred Rollback: what it returns is dropped, and a transaction whose
\* connection broke is rolled back by the server.
Rollback == work' = NoTx /\ UNCHANGED content

-----------------------------------------------------------------------------
IsWrite == query.op \in {"insert", "update", "delete"}

\* Diff returns.
Finish(v, vac) ==
    /\ verdict' = v
    /\ vacuous' = vac
    /\ pc' = "idle"
    /\ conn' = NoConn
    /\ replayed' = replayed + 1

\* Diff goes on to step p.
GoTo(p) ==
    /\ pc' = p
    /\ UNCHANGED <<verdict, vacuous, conn, replayed>>

\* Faulty: an event whose statement is unknown is replayed.
IsAttributed(q) == q.attr # "unattributable"

\* A query whose statement and tenant are known, or known to be absent.
IsReplayable(q) == q.resolved /\ q.attr # "unattributable"

\* The next captured query.
Start(q) ==
    /\ pc = "idle"
    /\ replayed < MaxQueries
    /\ query' = q
    /\ saved' = NoTx
    /\ aborted' = FALSE /\ failure' = "none"
    /\ hit' = NoKey /\ known' = NoKey
    /\ attempt' = 0
    /\ touched' = {} /\ admitted' = {}
    /\ got' = NoAnswer /\ seen' = NoAnswer
    /\ faulted' = FALSE
    /\ IF ~IsReplayable(q)
       THEN Finish("UNATTRIBUTABLE", FALSE)
       ELSE /\ pc' = "u_begin"
            /\ verdict' = "none" /\ vacuous' = FALSE
            /\ UNCHANGED <<conn, replayed>>
    /\ UNCHANGED <<content, work, setting>>

\* Any call fails for a reason unrelated to the query: an error return.
DatabaseError ==
    /\ pc \notin {"idle", "u_return", "r_return", "give_up"}
    /\ faulted' = TRUE
    /\ GoTo("give_up")
    /\ UNCHANGED <<content, query, work, saved, aborted, failure, hit, attempt,
                   known, touched, got, admitted, seen, setting>>

\* A leg returns an error, after its deferred Rollback.
GiveUp ==
    /\ pc = "give_up"
    /\ Rollback
    /\ Finish("UNATTRIBUTABLE", FALSE)
    /\ UNCHANGED <<query, saved, aborted, failure, hit, attempt, known,
                   touched, got, admitted, seen, setting, faulted>>

-----------------------------------------------------------------------------
(* The unrestricted leg: runRolledBack, or execRolledBack for a write. *)

Begin ==
    /\ pc = "u_begin"
    /\ work' = content
    /\ GoTo(IF IsWrite THEN "u_savepoint" ELSE "u_query")
    /\ UNCHANGED <<content, query, saved, aborted, failure, hit, attempt,
                   known, touched, got, admitted, seen, setting, faulted>>

QueryUnrestricted ==
    /\ pc = "u_query"
    /\ touched' = Outcome(Rows, Super).keys
    /\ got' \in query.answer[touched']
    /\ GoTo("u_return")
    /\ UNCHANGED <<content, query, work, saved, aborted, failure, hit, attempt,
                   known, admitted, seen, setting, faulted>>

Savepoint ==
    /\ pc = "u_savepoint"
    /\ saved' = work
    /\ GoTo("u_exec")
    /\ UNCHANGED <<content, query, work, aborted, failure, hit, attempt,
                   known, touched, got, admitted, seen, setting, faulted>>

ExecUnrestricted ==
    /\ pc = "u_exec"
    /\ LET r == Outcome(Rows, Super)
       IN /\ failure' = r.err
          /\ hit' = r.key
          /\ touched' = r.keys
          /\ aborted' = (r.err # "none")
          /\ Store(Applied(Rows, r.keys))
          /\ GoTo(IF r.err = "none" THEN "u_return" ELSE "u_rollback_to")
    /\ UNCHANGED <<query, saved, attempt, known, got, admitted, seen, setting,
                   faulted>>

RollbackToSavepoint ==
    /\ pc = "u_rollback_to"
    /\ aborted' = FALSE
    /\ work' = saved
    /\ GoTo(IF failure = "unique" THEN "u_delete" ELSE "give_up")
    /\ UNCHANGED <<content, query, saved, failure, hit, attempt, known,
                   touched, got, admitted, seen, setting, faulted>>

\* Faulty: the row's tenant is kept for the other leg, not its key.
DeleteConflictKeepsTenant ==
    /\ pc = "u_delete"
    /\ known' = Rows[hit]
    /\ attempt' = attempt + 1
    /\ Store(Remove(Rows, {hit}))
    /\ GoTo("u_savepoint")
    /\ UNCHANGED <<query, saved, aborted, failure, hit, touched, got, admitted,
                   seen, setting, faulted>>

\* Faulty: a deletion that found no row is retried like any other, uncounted.
DeleteConflictUncounted ==
    /\ pc = "u_delete"
    /\ IF aborted
       THEN GoTo("give_up") /\ UNCHANGED <<content, work, known, attempt>>
       ELSE /\ known' = hit
            /\ attempt' = IF Rows[hit] = NoRow THEN attempt ELSE attempt + 1
            /\ Store(Remove(Rows, {hit}))
            /\ GoTo(IF attempt' < MaxConflictRetries THEN "u_savepoint" ELSE "give_up")
    /\ UNCHANGED <<query, saved, aborted, failure, hit, touched, got, admitted,
                   seen, setting, faulted>>

\* deleteConflictingRow, in the transaction: it fails if that was aborted.
DeleteConflict ==
    /\ pc = "u_delete"
    /\ IF aborted \/ Rows[hit] = NoRow
       THEN GoTo("give_up") /\ UNCHANGED <<content, work, known, attempt>>
       ELSE /\ known' = hit
            /\ attempt' = attempt + 1
            /\ Store(Remove(Rows, {hit}))
            /\ GoTo(IF attempt' < MaxConflictRetries THEN "u_savepoint" ELSE "give_up")
    /\ UNCHANGED <<query, saved, aborted, failure, hit, touched, got, admitted,
                   seen, setting, faulted>>

\* The leg returns its result, after its deferred Rollback.
ReturnUnrestricted ==
    /\ pc = "u_return"
    /\ Rollback
    /\ GoTo("r_conn")
    /\ UNCHANGED <<query, saved, aborted, failure, hit, attempt, known,
                   touched, got, admitted, seen, setting, faulted>>

-----------------------------------------------------------------------------
(* The restricted leg: runRolledBackAsTenant, or execRolledBackAsTenant. *)

AcquireConn ==
    /\ pc = "r_conn"
    /\ conn' \in Conns
    /\ pc' = "r_set_tenant"
    /\ UNCHANGED <<content, query, work, saved, aborted, failure, hit, attempt,
                   known, touched, got, admitted, seen, setting, verdict, vacuous,
                   faulted, replayed>>

\* Faulty: nothing is set for a query without a tenant.
SetTenantIfAny ==
    /\ pc = "r_set_tenant"
    /\ setting' = IF query.claim = Empty THEN setting
                  ELSE [setting EXCEPT ![conn] = query.claim]
    /\ GoTo("r_begin")
    /\ UNCHANGED <<content, query, work, saved, aborted, failure, hit, attempt,
                   known, touched, got, admitted, seen, faulted>>

\* set_config with is_local false: the pooled connection keeps the tenant.
SetTenant ==
    /\ pc = "r_set_tenant"
    /\ setting' = [setting EXCEPT ![conn] = query.claim]
    /\ GoTo("r_begin")
    /\ UNCHANGED <<content, query, work, saved, aborted, failure, hit, attempt,
                   known, touched, got, admitted, seen, faulted>>

\* Faulty: the collision is left to this leg.
BeginAsTenantOnly ==
    /\ pc = "r_begin"
    /\ work' = content
    /\ GoTo("r_exec")
    /\ UNCHANGED <<content, query, saved, aborted, failure, hit, attempt,
                   known, touched, got, admitted, seen, setting, faulted>>

BeginAsTenant ==
    /\ pc = "r_begin"
    /\ work' = content
    /\ GoTo(IF IsWrite /\ known # NoKey THEN "r_delete" ELSE "r_exec")
    /\ UNCHANGED <<content, query, saved, aborted, failure, hit, attempt,
                   known, touched, got, admitted, seen, setting, faulted>>

\* Faulty: a conflicting row the tenant does not see counts as withheld.
DeleteKnownOrLeak ==
    /\ pc = "r_delete"
    /\ IF known \in Visible(Rows, setting[conn])
       THEN Store(Remove(Rows, {known})) /\ GoTo("r_exec")
       ELSE Rollback /\ Finish("LEAK", FALSE)
    /\ UNCHANGED <<query, saved, aborted, failure, hit, attempt, known,
                   touched, got, admitted, seen, setting, faulted>>

\* No row deleted: the collision stays unresolved for this leg.
DeleteKnownConflict ==
    /\ pc = "r_delete"
    /\ IF known \in Visible(Rows, setting[conn])
       THEN Store(Remove(Rows, {known})) /\ GoTo("r_exec")
       ELSE UNCHANGED <<content, work>> /\ GoTo("give_up")
    /\ UNCHANGED <<query, saved, aborted, failure, hit, attempt, known,
                   touched, got, admitted, seen, setting, faulted>>

ExecRestricted ==
    /\ pc = "r_exec"
    /\ LET r == Outcome(Rows, setting[conn])
       IN /\ failure' = r.err
          /\ admitted' = r.keys
          /\ aborted' = (r.err # "none")
          /\ IF IsWrite THEN UNCHANGED seen ELSE seen' \in query.answer[r.keys]
          /\ Store(Applied(Rows, r.keys))
    /\ GoTo("r_return")
    /\ UNCHANGED <<query, saved, hit, attempt, known, touched, got, setting,
                   faulted>>

\* Faulty: two results with rows in them count as the same.
CompareReadsByEmptiness ==
    IF (seen = NoRows) = (got = NoRows) THEN Finish("SAFE", seen = NoRows)
    ELSE Finish("LEAK", FALSE)

\* Faulty: an empty restricted result is no evidence of a leak.
CompareReadsUnlessEmpty ==
    IF seen \in {got, NoRows} THEN Finish("SAFE", seen = NoRows)
    ELSE Finish("LEAK", FALSE)

\* A read is a leak if the two results differ as multisets of rows.
CompareReads ==
    IF seen = got THEN Finish("SAFE", seen = NoRows) ELSE Finish("LEAK", FALSE)

\* A write is a leak if the policy rejects it.
CompareWrites ==
    CASE failure = "none" -> Finish("SAFE", touched = {} /\ admitted = {})
      [] failure = "rls" -> Finish("LEAK", FALSE)
      [] OTHER -> Finish("UNATTRIBUTABLE", FALSE)

\* The leg returns, after its deferred Rollback, and the results are compared.
ReturnRestricted ==
    /\ pc = "r_return"
    /\ Rollback
    /\ IF IsWrite THEN CompareWrites ELSE CompareReads
    /\ UNCHANGED <<query, saved, aborted, failure, hit, attempt, known,
                   touched, got, admitted, seen, setting, faulted>>

-----------------------------------------------------------------------------
\* A call of the replay under way.
Call ==
    \/ Begin \/ QueryUnrestricted
    \/ Savepoint \/ ExecUnrestricted \/ RollbackToSavepoint \/ DeleteConflict
    \/ ReturnUnrestricted
    \/ AcquireConn \/ SetTenant \/ BeginAsTenant
    \/ DeleteKnownConflict \/ ExecRestricted \/ ReturnRestricted
    \/ GiveUp

Next ==
    \/ \E q \in Queries : Start(q)
    \/ DatabaseError
    \/ Call

Spec == Init /\ [][Next]_vars

\* Every call to the database returns: nothing in Diff waits for anything else.
FairSpec == Spec /\ WF_vars(Call)

UnrestrictedSteps == {"u_begin", "u_query", "u_savepoint", "u_exec",
                      "u_rollback_to", "u_delete", "u_return"}
RestrictedSteps == {"r_conn", "r_set_tenant", "r_begin", "r_delete", "r_exec",
                    "r_return"}

TypeOK ==
    /\ content \in Content
    /\ query \in Query \cup {NoQuery}
    /\ pc \in {"idle", "give_up"} \cup UnrestrictedSteps \cup RestrictedSteps
    /\ work \in Content \cup {NoTx}
    /\ saved \in Content \cup {NoTx}
    /\ aborted \in BOOLEAN
    /\ failure \in {"none", "unique", "rls"}
    /\ hit \in Keys \cup {NoKey}
    /\ attempt \in 0..MaxConflictRetries
    /\ known \in Keys \cup {NoKey}
    /\ touched \subseteq Keys
    /\ {got, seen} \subseteq Answers \cup {NoAnswer}
    /\ admitted \subseteq Keys
    /\ conn \in Conns \cup {NoConn}
    /\ setting \in [Conns -> Values \cup {Unset}]
    /\ verdict \in {"none", "SAFE", "LEAK", "UNATTRIBUTABLE"}
    /\ vacuous \in BOOLEAN
    /\ faulted \in BOOLEAN
    /\ replayed \in 0..MaxQueries
-----------------------------------------------------------------------------
(* What a verdict means. *)

Written == {query.rows[i].tenant : i \in DOMAIN query.rows}

\* Tenants of the rows the query reads, removes or writes.
TenantsTouched ==
    CASE query.op = "insert" -> Written
      [] query.op \in {"select", "delete"} ->
            {content[k] : k \in query.match} \ {NoRow}
      [] query.op = "update" ->
            LET rows == {content[k] : k \in query.match} \ {NoRow}
            IN rows \cup (IF rows # {} /\ query.to # Keep THEN {query.to} ELSE {})

\* Whatever calls, retries, connections and failures a replay takes, seen from
\* outside it is one answer that depends on the query and the rows only, or
\* UNATTRIBUTABLE, and it changes no row (module DifferContract).
Contract == INSTANCE DifferContract WITH busy <- pc # "idle"
MeetsContract == Contract!Spec

\* Every replay comes to a verdict: retrying after a collision ends, although
\* an INSERT whose own rows collide does so after every deletion (differ.go,
\* execRolledBack).
EveryQueryIsJudged == (pc # "idle") ~> (pc = "idle" /\ verdict # "none")

\* No re-execution writes durably, whatever the statement, the conflicting rows
\* deleted for it and whichever call fails: each runs in a transaction, and no
\* leg returns before its own is rolled back (TGD-US-06 AC-6; differ.go, Diff).
NothingIsWritten ==
    [][content' = content /\ (pc' = "idle" => work' = NoTx)]_vars

\* SAFE and LEAK rest on a statement that ran in both legs: never on an
\* unresolved or unattributed query, nor on a failed call (TGD-FR-07).
JudgedOnEvidence ==
    verdict \in {"SAFE", "LEAK"} =>
        /\ query.resolved
        /\ query.attr # "unattributable"
        /\ ~faulted
        /\ query.op # "insert" \/ touched = {query.rows[i].key : i \in DOMAIN query.rows}
        /\ verdict = "LEAK" /\ IsWrite => failure = "rls"

\* Run twice on the same rows, the query gives the same result.
IsStable == \A S \in SUBSET Keys : \A a, b \in query.answer[S] : a = b

\* The result of the query tells which rows were read, and is empty for none:
\* so it is of a list of whole rows, not of a count, an EXISTS or a LIMIT.
ShowsItsRows ==
    /\ \A S, T \in SUBSET Keys :
          S # T => query.answer[S] \cap query.answer[T] = {}
    /\ query.answer[{}] = {NoRows}

\* A LEAK is real: the query touches a row of a tenant it does not claim.  A
\* SELECT that calls the clock, say, differs from itself, so it is left out
\* (differ.go, Diff: any divergence at all is a leak).
LeakIsForeign ==
    (verdict = "LEAK" /\ (query.op = "select" => IsStable)) =>
        TenantsTouched \ {query.claim} # {}

\* A SAFE read or INSERT touches rows of the claimed tenant only, and one
\* that is not vacuous touches some; of reads, those that show what they read.
SafeIsOwn ==
    /\ verdict = "SAFE"
    /\ query.op = "insert" \/ (query.op = "select" /\ ShowsItsRows)
    => /\ TenantsTouched \subseteq {query.claim}
       /\ vacuous <=> TenantsTouched = {}

\* Whatever a SAFE read computes from the rows it reaches, an aggregate or the
\* first of a list, the claimed tenant's rows alone could give the same result
\* (TGD-US-06 AC-3: a differing scalar is a leak).
OwnRows == {k \in query.match : content[k] = query.claim}
SafeAnswerIsOwn ==
    (verdict = "SAFE" /\ query.op = "select") => got \in query.answer[OwnRows]

\* An INSERT of the claimed tenant that collides with one row of that tenant,
\* left over from when it first ran, is SAFE: the collision is resolved in
\* both legs (TGD-BL-35; TestDiff_DuplicateKeyOnReplay).
Collisions == {i \in DOMAIN query.rows : content[query.rows[i].key] # NoRow}
OwnInsert ==
    /\ query.op = "insert"
    /\ Written \subseteq {query.claim}
    /\ \A i, j \in DOMAIN query.rows :
          query.rows[i].key = query.rows[j].key => i = j
    /\ \A i \in Collisions : content[query.rows[i].key] = query.claim
Judged == pc = "idle" /\ verdict # "none" /\ ~faulted
          /\ query.resolved /\ query.attr # "unattributable"
OneCollisionResolves ==
    (Judged /\ OwnInsert /\ Cardinality(Collisions) = 1) => verdict = "SAFE"

\* Result.Vacuous: SAFE says the row set under row-level security is identical
\* to the unrestricted one.
SafeMeansSameRows == verdict = "SAFE" => admitted = touched
=============================================================================
