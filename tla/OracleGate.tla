------------------------------ MODULE OracleGate ------------------------------
(***************************************************************************)
(* The oracle gate (cmd/tenantguard/oracle_gate.go, runOracleGate, with    *)
(* internal/oracle): a probe database copied from the target, two canary   *)
(* tenants seeded into every scoped relation that allows it, a restricted  *)
(* role, row-level security on every scoped relation, and the self-checks  *)
(* A1 to A4 that decide whether any query may be judged.                   *)
(*                                                                         *)
(* A row is known by its identity and its tenant value.  The target may    *)
(* come with policies of its own on a relation, which the copy keeps: the  *)
(* permissive ones show some rows, the restrictive ones hide some, such as *)
(* the archived.  They know nothing of tenantguard.tenant, so they treat   *)
(* every session tenant alike.  Every call to the database may fail, and   *)
(* the process may be interrupted between any two.                         *)
(*                                                                         *)
(* This module has the state and the steps; module GateCommand runs them.  *)
(***************************************************************************)
EXTENDS Naturals, Sequences, FiniteSets

CONSTANTS
    Relations,   \* relations of the target
    Values,      \* tenant values of its rows
    CanaryA, CanaryB,
    Targets,     \* [rows, shows, hides, fixture] a relation may have
    Policies     \* the policy file: sequences of [rel, class]

Tenants == Values \cup {CanaryA, CanaryB}
Row == [id : Nat \cup {CanaryA, CanaryB}, tenant : Tenants]

\* What the target's own policies do to a relation: the rows its permissive
\* ones show and the rows its restrictive ones hide, the canaries' included,
\* which are made of the relation's rows.  And the policy file's fixture.
Target == [rows : SUBSET Row,
           shows : SUBSET Row,
           hides : SUBSET Row,
           fixture : {"none", "malformed", "two"}]

ASSUME GateAssumption ==
    /\ CanaryA # CanaryB
    /\ {CanaryA, CanaryB} \cap Values = {}
    /\ Targets \subseteq Target
    /\ Policies \subseteq Seq([rel : Relations,
                               class : {"scoped", "unscoped", "unclassifiable"}])
    /\ \A p \in Policies : \A i, j \in DOMAIN p : p[i].rel = p[j].rel => i = j

Checks == {"A1", "A2", "A3", "A4"}
Unchecked == [c \in Checks |-> "unchecked"]

VARIABLES
    target,      \* each relation as the target has it
    policy,      \* the policy file's entries, in order
    pc,
    probe,       \* the probe database: none, created, dropped, leaked
    role,        \* the restricted role, likewise
    rows,        \* rows of each relation in the probe
    rls,         \* relations EnableRLS has finished with
    seed,        \* per scoped relation: pending, sampled, fixture, skipped
    proof,       \* per check: unchecked, passed, failed
    tableProof,  \* relations the proving loop has reported on
    code         \* what exitCodeFor makes of the gate's error, 0 if none

gateVars ==
    <<target, policy, pc, probe, role, rows, rls, seed, proof, tableProof, code>>

\* The relations classified scoped.
Scoped == {policy[i].rel : i \in {j \in DOMAIN policy : policy[j].class = "scoped"}}

\* r is the next of them in policy order, those of done being done.
IsNext(r, done) ==
    /\ r \in Scoped \ done
    /\ \E i \in DOMAIN policy :
         /\ policy[i].rel = r
         /\ \A j \in 1..(i - 1) :
               policy[j].rel \in Scoped => policy[j].rel \in done

GateInit ==
    /\ target \in [Relations -> Targets]
    /\ policy \in Policies
    /\ pc = "connect"
    /\ probe = "none" /\ role = "none"
    /\ rows = [r \in Relations |-> {}]
    /\ rls = {}
    /\ seed = [r \in Relations |-> "pending"]
    /\ proof = Unchecked
    /\ tableProof = {}
    /\ code = 0

RowLevel == {r \in Scoped : seed[r] \in {"sampled", "fixture"}}
StructuralOnly == {r \in Scoped : seed[r] = "skipped"}

-----------------------------------------------------------------------------
(* Row-level security in the probe. *)

\* Permissive policies are joined by OR, restrictive ones by AND.
Admits(r, t, row) ==
    /\ row.tenant = t \/ row \in target[r].shows
    /\ row \notin target[r].hides

\* What the restricted role sees of r with session tenant t.
Visible(r, t) ==
    {row \in rows[r] : r \in rls => Admits(r, t, row)}

Owned(r, t) == {row \in rows[r] : row.tenant = t}

-----------------------------------------------------------------------------
(* Returning: the deferred calls run, last registered first. *)

\* Faulty: the probe is dropped only once the role exists.
ReturnWithRole(c) ==
    /\ code' = c
    /\ pc' = IF role = "created" THEN "drop_role" ELSE "returned"

Return(c) ==
    /\ code' = c
    /\ pc' = IF role = "created" THEN "drop_role"
             ELSE IF probe = "created" THEN "drop_probe" ELSE "returned"

\* A call fails before anything it would change: exit code 2.
DatabaseError ==
    /\ pc \in {"connect", "create", "open", "role", "enable_rls", "restricted"}
    /\ Return(2)
    /\ UNCHANGED <<target, policy, probe, role, rows, rls, seed, proof, tableProof>>

\* The role has privileges in the probe database, which still exists: the
\* server refuses to drop it, and the error is dropped with the result.
DropRole ==
    /\ pc = "drop_role"
    /\ role' = "leaked"
    /\ pc' = "drop_probe"
    /\ UNCHANGED <<target, policy, probe, rows, rls, seed, proof, tableProof, code>>

DropProbe ==
    /\ pc = "drop_probe"
    /\ probe' \in {"dropped", "leaked"}
    /\ pc' = "returned"
    /\ UNCHANGED <<target, policy, role, rows, rls, seed, proof, tableProof, code>>

-----------------------------------------------------------------------------
Connect ==
    /\ pc = "connect"
    /\ IF Scoped = {} THEN Return(2) ELSE pc' = "create" /\ UNCHANGED code
    /\ UNCHANGED <<target, policy, probe, role, rows, rls, seed, proof, tableProof>>

\* CREATE DATABASE ... TEMPLATE: every row and policy of the target.
CreateProbe ==
    /\ pc = "create"
    /\ probe' = "created"
    /\ rows' = [r \in Relations |-> target[r].rows]
    /\ pc' = "open"
    /\ UNCHANGED <<target, policy, role, rls, seed, proof, tableProof, code>>

\* With the connection SeedCanaries works on, which fires no triggers.
OpenProbe ==
    /\ pc = "open"
    /\ pc' = "seed_canaries"
    /\ UNCHANGED <<target, policy, probe, role, rows, rls, seed, proof,
                   tableProof, code>>

Seeded == {r \in Relations : seed[r] # "pending"}
CanaryRow(c) == [id |-> c, tenant |-> c]

\* Two rows to sample: one INSERT copies both, or fails.
SeedFromSample(r) ==
    /\ Cardinality(rows[r]) >= 2
    /\ \/ /\ rows' = [rows EXCEPT ![r] = @ \cup {CanaryRow(CanaryA), CanaryRow(CanaryB)}]
          /\ seed' = [seed EXCEPT ![r] = "sampled"]
       \/ /\ seed' = [seed EXCEPT ![r] = "skipped"]
          /\ UNCHANGED rows

\* Fewer than two: a fixture's rows are inserted one by one, and the first
\* stays when the second fails.
SeedFromFixture(r) ==
    /\ Cardinality(rows[r]) < 2
    /\ \/ /\ target[r].fixture = "two"
          /\ rows' = [rows EXCEPT ![r] = @ \cup {CanaryRow(CanaryA), CanaryRow(CanaryB)}]
          /\ seed' = [seed EXCEPT ![r] = "fixture"]
       \/ /\ target[r].fixture = "two"
          /\ rows' = [rows EXCEPT ![r] = @ \cup {CanaryRow(CanaryA)}]
          /\ seed' = [seed EXCEPT ![r] = "skipped"]
       \/ /\ seed' = [seed EXCEPT ![r] = "skipped"]
          /\ UNCHANGED rows

SeedRelation ==
    /\ pc = "seed_canaries"
    /\ \E r \in Relations :
         /\ IsNext(r, Seeded)
         /\ SeedFromSample(r) \/ SeedFromFixture(r)
    /\ UNCHANGED <<target, policy, pc, probe, role, rls, proof, tableProof, code>>

SeedDone ==
    /\ pc = "seed_canaries"
    /\ Scoped \subseteq Seeded
    /\ pc' = "role"
    /\ UNCHANGED <<target, policy, probe, role, rows, rls, seed, proof,
                   tableProof, code>>

\* CREATE ROLE, then the grants.  When a grant fails the gate returns before
\* the deferred DROP ROLE is registered.
CreateRestrictedRole ==
    /\ pc = "role"
    /\ \/ role' = "created" /\ pc' = "enable_rls" /\ UNCHANGED code
       \/ role' = "leaked" /\ Return(2)
    /\ UNCHANGED <<target, policy, probe, rows, rls, seed, proof, tableProof>>

\* For every scoped relation, seeded or not.
EnableRLS ==
    /\ pc = "enable_rls"
    /\ \/ Scoped \subseteq rls /\ pc' = "A2" /\ UNCHANGED rls
       \/ /\ \E r \in Relations : IsNext(r, rls) /\ rls' = rls \cup {r}
          /\ UNCHANGED pc
    /\ UNCHANGED <<target, policy, probe, role, rows, seed, proof, tableProof, code>>

-----------------------------------------------------------------------------
(* The self-checks.  One that meets a database error fails. *)

Outcomes(holds) == IF holds THEN {"passed", "failed"} ELSE {"failed"}

CheckA2 ==
    /\ pc = "A2"
    /\ \E o \in Outcomes(Scoped \subseteq rls) : proof' = [proof EXCEPT !["A2"] = o]
    /\ pc' = "A3"
    /\ UNCHANGED <<target, policy, probe, role, rows, rls, seed, tableProof, code>>

\* CreateRestrictedRole makes neither a superuser nor an owner.
CheckA3 ==
    /\ pc = "A3"
    /\ \E o \in Outcomes(role = "created") : proof' = [proof EXCEPT !["A3"] = o]
    /\ pc' = "restricted"
    /\ UNCHANGED <<target, policy, probe, role, rows, rls, seed, tableProof, code>>

OpenRestricted ==
    /\ pc = "restricted"
    /\ pc' = "tables"
    /\ UNCHANGED <<target, policy, probe, role, rows, rls, seed, proof,
                   tableProof, code>>

\* A1: the restricted role sees strictly fewer rows, as canary A.
Withholds(r) == Cardinality(Visible(r, CanaryA)) < Cardinality(rows[r])

\* A4: it sees exactly the rows a hand-written predicate selects.
Reproduces(r) == Visible(r, CanaryA) = Owned(r, CanaryA)

\* Faulty: the last relation decides.
FoldLast(old, o) == o

\* aggregateProof: a seeded relation that fails a check fails the check.
Fold(old, o) == IF old = "failed" THEN "failed" ELSE o

CheckTable ==
    /\ pc = "tables"
    /\ \E r \in Relations :
         /\ IsNext(r, tableProof)
         /\ tableProof' = tableProof \cup {r}
         /\ IF seed[r] = "skipped" THEN UNCHANGED proof
            ELSE \E a1 \in Outcomes(Withholds(r)), a4 \in Outcomes(Reproduces(r)) :
                   proof' = [proof EXCEPT !["A1"] = Fold(@, a1),
                                          !["A4"] = Fold(@, a4)]
    /\ UNCHANGED <<target, policy, pc, probe, role, rows, rls, seed, code>>

PolicyProven == \A c \in Checks : proof[c] = "passed"

\* Faulty: the checks are looked at as they were run.
ExitCodeAsRun ==
    IF proof["A2"] = "failed" THEN 11
    ELSE IF proof["A3"] = "failed" THEN 12
    ELSE IF proof["A1"] = "unchecked" THEN 2
    ELSE IF proof["A1"] = "failed" THEN 10
    ELSE 13

\* Faulty: the codes start at 11.
ExitCodeOffByOne ==
    IF proof["A1"] = "unchecked" THEN 2
    ELSE IF proof["A1"] = "failed" THEN 11
    ELSE IF proof["A2"] = "failed" THEN 12
    ELSE IF proof["A3"] = "failed" THEN 13
    ELSE 14

\* PolicyProven's order, and exitCodeFor of the error.  Nothing seeded leaves
\* A1 unchecked: a usage error.
ExitCode ==
    IF proof["A1"] = "unchecked" THEN 2
    ELSE IF proof["A1"] = "failed" THEN 10
    ELSE IF proof["A2"] = "failed" THEN 11
    ELSE IF proof["A3"] = "failed" THEN 12
    ELSE 13

\* Proven, the gate calls onProven; otherwise it returns the error.
Judge ==
    /\ pc = "tables"
    /\ Scoped \subseteq tableProof
    /\ IF PolicyProven THEN pc' = "proven" /\ UNCHANGED code ELSE Return(ExitCode)
    /\ UNCHANGED <<target, policy, probe, role, rows, rls, seed, proof, tableProof>>

\* onProven has returned: its error is always nil.
ProvenReturns ==
    /\ pc = "proven"
    /\ Return(0)
    /\ UNCHANGED <<target, policy, probe, role, rows, rls, seed, proof, tableProof>>

\* SIGINT, which the program does not handle, or worse: no deferred call runs.
Interrupted ==
    /\ pc \notin {"interrupted", "exited"}
    /\ pc' = "interrupted"
    /\ UNCHANGED <<target, policy, probe, role, rows, rls, seed, proof,
                   tableProof, code>>

GateStep ==
    \/ Connect \/ CreateProbe \/ OpenProbe \/ SeedRelation \/ SeedDone
    \/ CreateRestrictedRole \/ EnableRLS \/ CheckA2 \/ CheckA3
    \/ OpenRestricted \/ CheckTable \/ Judge
    \/ DatabaseError \/ DropRole \/ DropProbe

GateTypeOK ==
    /\ target \in [Relations -> Targets]
    /\ policy \in Policies
    /\ probe \in {"none", "created", "dropped", "leaked"}
    /\ role \in {"none", "created", "leaked"}
    /\ rows \in [Relations -> SUBSET Row]
    /\ rls \subseteq Relations
    /\ seed \in [Relations -> {"pending", "sampled", "fixture", "skipped"}]
    /\ proof \in [Checks -> {"unchecked", "passed", "failed"}]
    /\ tableProof \subseteq Relations
    /\ code \in {0, 2, 10, 11, 12, 13}
=============================================================================
