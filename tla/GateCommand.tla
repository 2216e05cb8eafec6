----------------------------- MODULE GateCommand -----------------------------
(***************************************************************************)
(* The verify and audit commands (cmd/tenantguard/main.go, runGateCommand):*)
(* the oracle gate with, for audit, the replay of the captured queries as  *)
(* its onProven callback; then the report, the rate ceiling and the exit   *)
(* code.                                                                   *)
(*                                                                         *)
(* A query is known by the relations its text names and by whether it is a *)
(* data query.  Module Differ says how a query is judged; here, what the   *)
(* command makes of the verdict.                                           *)
(***************************************************************************)
EXTENDS OracleGate

CONSTANTS
    Queries,      \* [tables, nonquery] of the captured statements
    Ceiling,      \* <<n, d>>: the baselined unattributable rate n / d
    MaxQueries    \* bound on the captured queries

ASSUME CommandAssumption ==
    /\ Queries \subseteq [tables : SUBSET Relations, nonquery : BOOLEAN]
    /\ Ceiling \in Nat \X (Nat \ {0})
    /\ MaxQueries \in Nat

VARIABLES
    verdicts,   \* queryVerdict of each query replayed
    report,     \* what was written to stdout, or NoReport
    exit        \* exit status, or Running

vars == <<gateVars, verdicts, report, exit>>

NoReport == [written |-> FALSE]
Running == 99

Populations ==
    {"no_declared_table", "structural_only", "row_level_unattributed", "non_query"}
Verdict == [tables : SUBSET Relations,
            verdict : {"SAFE", "LEAK", "UNATTRIBUTABLE"},
            vacuous : BOOLEAN,
            population : Populations \cup {""}]

Init ==
    /\ GateInit
    /\ verdicts = <<>>
    /\ report = NoReport
    /\ exit = Running

-----------------------------------------------------------------------------
(* Replaying the captured queries. *)

\* ClassifyUnattributable: a row-level relation takes priority.
Population(q) ==
    CASE q.nonquery -> "non_query"
      [] ~q.nonquery /\ q.tables \cap RowLevel # {} -> "row_level_unattributed"
      [] ~q.nonquery /\ q.tables \cap RowLevel = {}
           /\ q.tables \cap StructuralOnly # {} -> "structural_only"
      [] OTHER -> "no_declared_table"

Judgement(q, v, vac) ==
    [tables |-> q.tables, verdict |-> v, vacuous |-> vac,
     population |-> IF v = "UNATTRIBUTABLE" THEN Population(q) ELSE ""]

\* What Diff can return: ExtractTenant, given the row-level relations only,
\* gives up on a query that names none of them.
Judgements(q) ==
    {Judgement(q, "UNATTRIBUTABLE", FALSE)}
    \cup IF q.tables \cap RowLevel = {} THEN {}
         ELSE {Judgement(q, "SAFE", FALSE), Judgement(q, "SAFE", TRUE),
               Judgement(q, "LEAK", FALSE)}

Replay(q) ==
    /\ pc = "proven"
    /\ Len(verdicts) < MaxQueries
    /\ \E j \in Judgements(q) : verdicts' = Append(verdicts, j)
    /\ UNCHANGED <<gateVars, report, exit>>

-----------------------------------------------------------------------------
(* The report. *)

Count(P(_)) == Cardinality({i \in DOMAIN verdicts : P(verdicts[i])})

\* Faulty: a vacuous query is not counted as safe.
IsSafeNotVacuous(v) == v.verdict = "SAFE" /\ ~v.vacuous

IsSafe(v) == v.verdict = "SAFE"
IsVacuous(v) == v.verdict = "SAFE" /\ v.vacuous
IsLeak(v) == v.verdict = "LEAK"
IsUnattributable(v) == v.verdict = "UNATTRIBUTABLE"

Counts ==
    [safe |-> Count(IsSafe), vacuous |-> Count(IsVacuous),
     leak |-> Count(IsLeak), unattributable |-> Count(IsUnattributable),
     population |->
        [p \in Populations |->
           Count(LAMBDA v : IsUnattributable(v) /\ v.population = p)]]

Rate(n, d) == [unattributable |-> n, denominator |-> d]

\* Faulty: vacuous queries count as attributed.
AttributedAtAll(c) == c.safe + c.leak

\* Queries whose verdict rests on rows (TGD-BL-39).
Attributed(c) == (c.safe - c.vacuous) + c.leak

\* unattributableRateBreakdown's four denominators.
Breakdown(c, total) ==
    LET structural == c.population["structural_only"]
        rowLevel == c.population["row_level_unattributed"]
        nonQuery == c.population["non_query"]
    IN [all |-> Rate(c.unattributable, total),
        app |-> Rate(c.unattributable - nonQuery, total - nonQuery),
        declared |-> Rate(structural + rowLevel,
                          Attributed(c) + structural + rowLevel),
        rowLevel |-> Rate(rowLevel, Attributed(c) + rowLevel)]

\* checkUnattributableCeiling: strictly above, and only if measured.
Exceeds(rate) ==
    /\ rate.denominator # 0
    /\ rate.unattributable * Ceiling[2] > Ceiling[1] * rate.denominator

Tables(seeds) ==
    {r \in tableProof : seed[r] \in seeds}

Report ==
    LET c == Counts IN
    [written |-> TRUE, verdicts |-> verdicts,
     rowLevel |-> Tables({"sampled", "fixture"}),
     structuralOnly |-> Tables({"skipped"}),
     counts |-> c, rates |-> Breakdown(c, Len(verdicts))]

Exit(status) ==
    /\ exit' = status
    /\ pc' = "exited"
    /\ UNCHANGED <<target, policy, probe, role, rows, rls, seed, proof,
                   tableProof, code, verdicts>>

\* Flags, the policy file or the events file are unusable.
UsageError ==
    /\ pc = "connect"
    /\ Exit(2)
    /\ UNCHANGED report

\* The gate returned an error: nothing is written.
Abort ==
    /\ pc = "returned"
    /\ code # 0
    /\ Exit(code)
    /\ UNCHANGED report

\* The report is written unless there are verdicts without a proof, or
\* writing it fails; the ceiling is looked at after.
Write ==
    /\ pc = "returned"
    /\ code = 0
    /\ report' \in {report} \cup
                     (IF verdicts # <<>> => PolicyProven THEN {Report} ELSE {})
    /\ Exit(IF ~report'.written THEN 1
            ELSE IF Exceeds(report'.rates.rowLevel) THEN 3 ELSE 0)

-----------------------------------------------------------------------------
Next ==
    \/ (GateStep \/ ProvenReturns \/ Interrupted) /\ UNCHANGED <<verdicts, report, exit>>
    \/ \E q \in Queries : Replay(q)
    \/ UsageError \/ Abort \/ Write

Spec == Init /\ [][Next]_vars

TypeOK ==
    /\ GateTypeOK
    /\ verdicts \in Seq(Verdict)
    /\ exit \in {Running, 0, 1, 2, 3, 10, 11, 12, 13}

-----------------------------------------------------------------------------
\* While a query is judged, no relation it can be attributed to shows a tenant
\* another tenant's row, but for canary A's own, whichever policies the target
\* came with: one canary is enough.  What a tenant misses of its own rows, the
\* target's restrictive policies hide, and they hide none of canary A's: A4
\* looks at no other tenant.  Every such relation holds a row to leak, and no
\* declared relation is without row-level security (TGD-US-02).
JudgedByASoundOracle ==
    pc = "proven" =>
        /\ Scoped \subseteq rls
        /\ RowLevel # {}
        /\ \A r \in RowLevel, t \in Tenants :
              /\ Visible(r, t) \subseteq Owned(r, t) \cup Owned(r, CanaryA)
              /\ Owned(r, t) \ Visible(r, t) \subseteq target[r].hides
        /\ \A r \in RowLevel :
              /\ Owned(r, CanaryA) \cap target[r].hides = {}
              /\ Owned(r, CanaryB) # {}

\* A run whose oracle is not proven says nothing: an error code, no report,
\* and no query was ever replayed; a code of 10 to 13 names a check that ran
\* and failed, and no earlier one did (TGD-US-02 AC-5).
Before == [c \in {10, 11, 12, 13} |->
             CASE c = 10 -> {} [] c = 11 -> {"A1"} [] c = 12 -> {"A1", "A2"}
               [] OTHER -> {"A1", "A2", "A3"}]
Failing == [c \in {10, 11, 12, 13} |->
             CASE c = 10 -> "A1" [] c = 11 -> "A2" [] c = 12 -> "A3" [] OTHER -> "A4"]
AbortsSayWhy ==
    /\ code # 0 => report = NoReport /\ verdicts = <<>>
    /\ exit \in DOMAIN Before =>
         /\ proof[Failing[exit]] = "failed"
         /\ \A c \in Before[exit] : proof[c] = "passed"

\* What the report says of the relations and the queries adds up: each scoped
\* relation is in one list, each query in one count, each unattributable one
\* in one population, and the four denominators are nested (TGD-BL-33).
ReportAddsUp ==
    report.written =>
        /\ report.rowLevel \cup report.structuralOnly = Scoped
        /\ report.rowLevel \cap report.structuralOnly = {}
        /\ LET c == report.counts
               p == c.population
               r == report.rates
           IN /\ c.safe + c.leak + c.unattributable = Len(verdicts)
              /\ c.unattributable =
                   p["no_declared_table"] + p["structural_only"]
                   + p["row_level_unattributed"] + p["non_query"]
              /\ r.rowLevel.denominator <= r.declared.denominator
              /\ r.declared.denominator <= r.app.denominator
              /\ r.app.denominator <= r.all.denominator
              /\ r.rowLevel.unattributable <= r.rowLevel.denominator

\* A written report ends the run in 0 or 3, and in 3 exactly when, of the
\* queries that name a row-level relation and of those judged on rows, a larger
\* share than the ceiling was left unattributed.  Counted over the verdicts
\* themselves: one that is SAFE with no row at stake makes the share no smaller
\* (TGD-BL-39), a share equal to the ceiling does not fail the run, and no
\* verdict, a LEAK included, changes the status otherwise (TGD-US-07 AC-1).
LeftUnattributed ==
    {i \in DOMAIN verdicts :
        /\ verdicts[i].verdict = "UNATTRIBUTABLE"
        /\ verdicts[i].population # "non_query"
        /\ verdicts[i].tables \cap RowLevel # {}}
JudgedOnRows ==
    {i \in DOMAIN verdicts :
        \/ verdicts[i].verdict = "LEAK"
        \/ verdicts[i].verdict = "SAFE" /\ ~verdicts[i].vacuous}
RateFails ==
    /\ exit = 3 => report.written
    /\ report.written =>
         /\ exit \in {0, 3}
         /\ exit = 3 <=> Cardinality(LeftUnattributed) * Ceiling[2] >
                         Ceiling[1] * Cardinality(LeftUnattributed \cup JudgedOnRows)

\* oracle_gate.go, onProven: a query touching a structural-only relation comes
\* back UNATTRIBUTABLE, never SAFE or LEAK.
StructuralOnlyIsInvisible ==
    \A i \in DOMAIN verdicts :
        verdicts[i].tables \cap StructuralOnly # {} =>
            verdicts[i].verdict = "UNATTRIBUTABLE"

\* The probe database is gone when the command exits, on every path, unless
\* the server refused to drop it; and no query is replayed without it.
ProbeIsDropped ==
    /\ exit # Running => probe # "created"
    /\ pc = "proven" => probe = "created" /\ role = "created"

\* oracle_gate.go, runOracleGate: the probe database and its restricted role
\* are always dropped before it returns, on every exit path.
RoleIsDropped == exit # Running => role \in {"none", "dropped"}
=============================================================================
