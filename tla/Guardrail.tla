------------------------------- MODULE Guardrail -------------------------------
(***************************************************************************)
(* Tier 2 in an application (internal/guardrail): the policy is inferred   *)
(* from the database as it was, reviewed, and handed to Wrap; after that   *)
(* every query is checked against it and the tenant of its context before  *)
(* it reaches the database as it is.  Migrations go on all the while.      *)
(*                                                                         *)
(* A statement's text (module Attribution) says nothing certain about what *)
(* it reads: reads is what it does, the relations it accesses by           *)
(* themselves; what those read in turn is in the database.                 *)
(***************************************************************************)
EXTENDS Attribution, Functions

CONSTANTS
    Databases,      \* what the database may look like at first
    Migrations,     \* <<r, definition>>: what a migration may make of r
    Statements,     \* [text, reads] of the application
    Arguments,      \* sequences of arguments it may pass
    GoText,         \* a value that Go prints otherwise, as fmt.Sprint does
    Contexts,       \* tenants a context may carry; EmptyText is none
    NoCall,
    MaxMigrations   \* bound on the migrations

\* An argument: printed by Go as PostgreSQL would show it, or otherwise (a
\* byte slice, a time), nil, or a driver.Valuer that fails.
Argument == [kind : {"plain", "printed", "nil", "failing"}, text : Texts]

DB == [Relations -> Definition \cup {Absent}]

ASSUME GuardrailAssumption ==
    /\ Relations \subseteq [schema : Nat, name : Names]
    /\ Absent \notin Definition
    /\ Databases \subseteq DB
    /\ Migrations \subseteq Relations \X (Definition \cup {Absent})
    /\ Statements \subseteq [text : Statement, reads : SUBSET Relations]
    /\ \A s \in Statements : \A i, j \in s.text.inserts : i = j
    /\ Arguments \subseteq Seq(Argument)
    /\ GoText \in [Texts -> Texts]
    /\ Contexts \subseteq Texts
    /\ MaxMigrations \in Nat

VARIABLES
    db,         \* the database
    migrated,   \* migrations so far
    policy,     \* the policy file
    inferred,   \* the database the policy was inferred from
    pc,         \* setup, reviewed; then of the current query
    call,       \* [statement, args, tenant] of the current query
    error       \* what check returned, "none" if nil

vars == <<db, migrated, policy, inferred, pc, call, error>>

Errors == {"none", "no_tenant", "unscoped_query", "wrong_tenant", "unattributable"}

Init ==
    /\ db \in Databases
    /\ migrated = 0
    /\ policy = {}
    /\ inferred = db
    /\ pc = "setup"
    /\ call = NoCall
    /\ error = "none"

-----------------------------------------------------------------------------
(* The policy and the database. *)

InferPolicy ==
    /\ pc = "setup"
    /\ policy' = Infer(db)
    /\ inferred' = db
    /\ pc' = "review"
    /\ UNCHANGED <<db, migrated, call, error>>

\* Faulty: the relation stays in the policy as it was, too.
ReviewAdds ==
    /\ pc = "review"
    /\ \E p \in policy, r \in Relations :
         /\ r.schema = p.schema /\ r.name = p.name
         /\ p.class = "unclassifiable"
         /\ inferred[r].kind \in {"table", "partitioned"}
         /\ \E c \in Candidates(inferred[r].columns) :
              policy' = policy \cup {[p EXCEPT !.class = "scoped", !.columns = {c}]}
    /\ UNCHANGED <<db, migrated, inferred, pc, call, error>>

\* The operator chooses a tenant column for a table that has several.
Review ==
    /\ pc = "review"
    /\ \E p \in policy, r \in Relations :
         /\ r.schema = p.schema /\ r.name = p.name
         /\ p.class = "unclassifiable"
         /\ inferred[r].kind \in {"table", "partitioned"}
         /\ \E c \in Candidates(inferred[r].columns) :
              policy' = (policy \ {p}) \cup
                        {[p EXCEPT !.class = "scoped", !.columns = {c}]}
    /\ UNCHANGED <<db, migrated, inferred, pc, call, error>>

Wrap ==
    /\ pc = "review"
    /\ pc' = "idle"
    /\ UNCHANGED <<db, migrated, policy, inferred, call, error>>

Migrate ==
    /\ migrated < MaxMigrations
    /\ \E m \in Migrations :
         /\ db[m[1]] # m[2]
         /\ db' = [db EXCEPT ![m[1]] = m[2]]
    /\ migrated' = migrated + 1
    /\ UNCHANGED <<policy, inferred, pc, call, error>>

-----------------------------------------------------------------------------
(* A query. *)

Call(s, args, tenant) ==
    /\ pc = "idle"
    /\ call' = [statement |-> s, args |-> args, tenant |-> tenant]
    /\ pc' = "called"
    /\ UNCHANGED <<db, migrated, policy, inferred, error>>

\* Faulty: a nil argument is printed like any other.
ParamOfPrintsNil(a) ==
    IF a.kind = "nil" THEN [null |-> TRUE, binary |-> FALSE, known |-> TRUE,
                            text |-> NullText, bytes |-> EmptyText]
    ELSE [null |-> FALSE, binary |-> FALSE, known |-> TRUE,
          text |-> IF a.kind = "printed" THEN GoText[a.text] ELSE a.text,
          bytes |-> EmptyText]

\* paramsFromArgs, of an argument whose value could be had.
ParamOf(a) ==
    [null |-> a.kind = "nil", binary |-> FALSE, known |-> TRUE,
     text |-> CASE a.kind = "nil" -> EmptyText
                [] a.kind = "printed" -> GoText[a.text]
                [] OTHER -> a.text,
     bytes |-> EmptyText]

ParamsFromArgs(args) == [i \in DOMAIN args |-> ParamOf(args[i])]

Fails(args) == \E i \in DOMAIN args : args[i].kind = "failing"

\* DB.check: nothing in it touches the database.
ErrorOf(c) ==
    LET r == CheckTenant(c.statement.text, policy, ParamsFromArgs(c.args), c.tenant)
    IN IF c.tenant = EmptyText THEN "no_tenant"
       ELSE IF Fails(c.args) THEN "unattributable"
       ELSE IF r.verdict = "SAFE" THEN "none"
       ELSE IF r.verdict = "UNATTRIBUTABLE" THEN "unattributable"
       ELSE IF r.tenant # EmptyText THEN "wrong_tenant" ELSE "unscoped_query"

Check ==
    /\ pc = "called"
    /\ error' = ErrorOf(call)
    /\ pc' = IF error' = "none" THEN "checked" ELSE "returned"
    /\ UNCHANGED <<db, migrated, policy, inferred, call>>

\* The wrapped *sql.DB runs the query.
Run ==
    /\ pc = "checked"
    /\ pc' = "ran"
    /\ UNCHANGED <<db, migrated, policy, inferred, call, error>>

\* The caller has its rows, result or error, or gets it from Row.Scan.
Return ==
    /\ pc \in {"ran", "returned"}
    /\ pc' = "idle"
    /\ call' = NoCall
    /\ error' = "none"
    /\ UNCHANGED <<db, migrated, policy, inferred>>

Next ==
    \/ InferPolicy \/ Review \/ Wrap \/ Migrate
    \/ \E s \in Statements, args \in Arguments, tenant \in Contexts :
         Call(s, args, tenant)
    \/ Check \/ Run \/ Return

Spec == Init /\ [][Next]_vars

TypeOK ==
    /\ db \in DB
    /\ migrated \in 0..MaxMigrations
    /\ policy \subseteq PolicyRelation
    /\ \A p \in policy :
         /\ [schema |-> p.schema, name |-> p.name] \in Relations
         /\ IF p.class = "scoped" THEN \E c \in Columns : p.columns = {c}
            ELSE p.columns = {}
         /\ \A q \in policy : p.schema = q.schema /\ p.name = q.name => p = q
    /\ inferred \in DB
    /\ pc \in {"setup", "review", "idle", "called", "checked", "ran", "returned"}
    /\ error \in Errors
    /\ pc \in {"called", "checked", "ran", "returned"} =>
         call \in [statement : Statements, args : Arguments, tenant : Contexts]

-----------------------------------------------------------------------------
(* What a query that ran has read. *)

\* The relations read, through views and functions too.
Reached(reads) ==
    {r \in Relations :
        \A S \in SUBSET Relations :
            /\ reads \subseteq S
            /\ \A s \in S : db[s] # Absent => db[s].over \subseteq S
            => r \in S}

\* Relations with rows of tenants in them.
Tenanted(r) == db[r] # Absent /\ Candidates(db[r].columns) # {}

\* The policy still describes what the name stands for: the relation is as it
\* was inferred, or the policy knows nothing of the name.
UpToDate(r) == db[r] = inferred[r] \/ ByName(policy, r.name) = {}

\* The policy knows no other relation by the name.
Unshadowed(r) == \A p \in ByName(policy, r.name) : p.schema = r.schema

\* The text shows what the statement accesses.
InPlainSight(s) ==
    \A r \in s.reads : r.name \in s.text.names \ s.text.ctes

Ran == pc = "ran"
Params == ParamsFromArgs(call.args)

\* A query that ran has read no tenant's rows, by way of views and functions
\* included, unless it names the tenant of its context: provided the text shows
\* the relations it accesses, no name stands for two, and none of them was
\* changed since the policy was inferred.  Relations that came later are not an
\* exception: unknown is denied (TGD-US-12, TGD-BL-43).
TenantedRowsAreClaimed ==
    Ran =>
        LET s == call.statement
        IN (/\ InPlainSight(s)
            /\ \A r \in s.reads : UpToDate(r) /\ Unshadowed(r))
           => \/ \A r \in Reached(s.reads) : ~Tenanted(r)
              \/ /\ call.tenant # EmptyText
                 /\ ExtractTenant(s.text, policy, Params) = Resolved(call.tenant)

\* The tenant columns the policy has for some relations.
TenantColumns(rels) ==
    UNION {p.columns : p \in {q \in policy : [schema |-> q.schema, name |-> q.name] \in rels}}

\* What a statement gives to tenant columns of the relations it accesses: in
\* comparisons, and in every row of an INSERT into one of them.
Compared(s) ==
    {c.rhs : c \in {d \in s.text.compares : d.column \in TenantColumns(s.reads)}}
Inserted(s) ==
    LET into == {r \in s.reads : \E ins \in s.text.inserts : r.name = ins.into}
        rows == UNION {Range(ins.values) : ins \in s.text.inserts}
    IN {row[c] : row \in rows, c \in TenantColumns(into)}

\* The texts of the parameters among them.
Named(s) ==
    {Params[x.index].text :
        x \in {y \in Compared(s) \cup Inserted(s) : y.kind = "param"}}

\* What a statement says of its tenant, it says once: not in several rows of
\* a VALUES list, nor in the comparisons of an INSERT as well.
SaysOnce(s) ==
    \A ins \in s.text.inserts : Len(ins.values) = 1 /\ s.text.compares = {}

\* A query that ran gives no tenant column another tenant than its context's,
\* wherever in a join the comparison is (ErrWrongTenant: the query's own
\* claimed tenant disagrees with the context's).
NoOtherTenantIsNamed ==
    Ran =>
        LET s == call.statement
        IN (/\ InPlainSight(s)
            /\ SaysOnce(s)
            /\ \A r \in s.reads : Unshadowed(r))
           => Named(s) \subseteq {call.tenant}

\* The same call captured on the wire, its parameters in any formats.
Traced(formats) ==
    [i \in DOMAIN call.args |->
        ReadBack(CapturedParam(call.args[i].kind = "nil", call.args[i].text, formats[i]))]

Asked == pc \in {"called", "checked", "ran", "returned"} /\ ~Fails(call.args)

\* The audit attributes a query by the relations it could prove at row level,
\* some of the policy's scoped ones (oracle_gate.go, onProven).
RowLevels == SUBSET {p \in policy : p.class = "scoped"}

\* The names by which a text may stand for a relation of the policy.
Mentioned(q) == q.names \cup q.aliases \cup {ins.into : ins \in q.inserts}

\* An INSERT names its tenant in the VALUES list alone, of one known relation.
InsertsPlainly(q) ==
    \A ins \in q.inserts :
        /\ q.compares = {}
        /\ \A p, r \in ScopedNamed(policy, {ins.into}) : p = r

\* Replayed from a trace, a query whose scoped relations were all proven at row
\* level is attributed to the tenant the guardrail read out of it, null
\* parameters included, or to none because a parameter could not be decoded.
\* With some of them structural-only it may be attributed to none, or on the
\* strength of the others alone, but never to another tenant than the one the
\* guardrail read.  Provided Go prints its arguments as PostgreSQL does, and they
\* survive JSON (guardrail.go: both tiers share ExtractTenant).
TiersAgree ==
    (/\ Asked
     /\ \A i \in DOMAIN call.args :
            call.args[i].kind # "printed" /\ Utf8[call.args[i].text] = call.args[i].text)
        => \A formats \in [DOMAIN call.args -> Formats], rowLevel \in RowLevels :
             LET q == call.statement.text
                 traced == Traced(formats)
                 audited == ExtractTenant(q, rowLevel, traced)
                 read == ExtractTenant(q, policy, Params)
             IN /\ ScopedNamed(policy, Mentioned(q)) \subseteq rowLevel =>
                      audited = IF Undecoded(traced) THEN Unattributable ELSE read
                /\ InsertsPlainly(q) /\ read.kind = "resolved" /\ audited.kind = "resolved"
                      => audited = read

\* The trace keeps what was known of a parameter and makes nothing known that
\* was not (decoder.go: a round trip never promotes an undecoded parameter).
TraceKeepsWhatIsKnown ==
    Asked =>
        \A i \in DOMAIN call.args, format \in Formats :
            KeepsWhatIsKnown(
                CapturedParam(call.args[i].kind = "nil", call.args[i].text, format))
=============================================================================
