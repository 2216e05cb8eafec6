------------------------------ MODULE GateProofs ------------------------------
(***************************************************************************)
(* Theorems about the gate and the command that runs it: who may judge,    *)
(* what an exit status says and what is left behind, for any relations,    *)
(* rows, policies and queries, whichever call fails.                       *)
(***************************************************************************)
EXTENDS GateCommand, FiniteSetTheorems, TLAPS

Early == {"connect", "create", "open", "seed_canaries", "role", "enable_rls"}
Checking == {"A2", "A3", "restricted", "tables", "proven"}
Leaving == {"drop_role", "drop_probe", "returned", "interrupted", "exited"}

\* What exists in the server, by step.
Lifecycle ==
    /\ pc \in Early \cup Checking \cup Leaving
    /\ pc \in {"connect", "create"} => probe = "none"
    /\ pc \in {"connect", "create", "open", "seed_canaries", "role"} => role = "none"
    /\ pc \in {"open", "seed_canaries", "role", "enable_rls"} \cup Checking =>
         probe = "created"
    /\ pc \in {"enable_rls"} \cup Checking => role = "created"
    /\ pc \in {"returned", "exited"} => probe # "created"
    /\ exit # Running => pc = "exited"

\* A seeded relation has a row of each canary; row-level security is on
\* everywhere before any check.
Seeding ==
    /\ pc \in {"connect", "create", "open"} => \A r \in Relations : seed[r] = "pending"
    /\ \A r \in Relations :
         seed[r] \in {"sampled", "fixture"} =>
            {CanaryRow(CanaryA), CanaryRow(CanaryB)} \subseteq rows[r]
    /\ pc \in {"role", "enable_rls"} \cup Checking => Scoped \subseteq Seeded
    /\ pc \in Checking => Scoped \subseteq rls

\* What a check that passed has looked at.
Checked ==
    /\ pc \in Early => proof = Unchecked
    /\ pc \in Early \cup {"A2", "A3", "restricted"} => tableProof = {}
    /\ tableProof \subseteq Scoped
    /\ proof["A1"] = "unchecked" <=> proof["A4"] = "unchecked"
    /\ proof["A1"] # "unchecked" <=> \E r \in tableProof : seed[r] # "skipped"
    /\ pc \in Checking /\ proof["A4"] = "passed" =>
         \A r \in tableProof : seed[r] # "skipped" => Reproduces(r)
    /\ pc \in {"A3", "restricted", "tables", "proven"} => proof["A2"] # "unchecked"
    /\ pc \in {"restricted", "tables", "proven"} => proof["A3"] # "unchecked"
    /\ pc = "proven" => PolicyProven /\ Scoped \subseteq tableProof

\* What an error code says of the checks.
CodeSays(c) ==
    c \in DOMAIN Before =>
        /\ proof[Failing[c]] = "failed"
        /\ \A k \in Before[c] : proof[k] = "passed"

Codes ==
    /\ pc \in Early \cup Checking => code = 0
    /\ pc \in Early \cup (Checking \ {"proven"}) => verdicts = <<>>
    /\ code # 0 => verdicts = <<>>
    /\ report # NoReport => pc = "exited" /\ code = 0
    /\ exit \in DOMAIN Before => code = exit
    /\ CodeSays(code)

GateInv == TypeOK /\ Lifecycle /\ Seeding /\ Checked /\ Codes

\* The gate's own steps leave the command's variables alone.
Command == UNCHANGED <<verdicts, report, exit>>

-----------------------------------------------------------------------------
(* The operators the gate is built from. *)

\* The declared relations are relations: for every scoped relation there is a
\* probe relation, so the loops of runOracleGate index rows that exist.
LEMMA ScopedRelations == policy \in Policies => Scoped \subseteq Relations
<1> SUFFICES ASSUME policy \in Policies, NEW i \in DOMAIN policy
             PROVE  policy[i].rel \in Relations
  BY DEF Scoped
<1> DEFINE Entry == [rel : Relations, class : {"scoped", "unscoped", "unclassifiable"}]
<1>1. policy \in Seq(Entry)
  BY GateAssumption
<1>2. policy[i] \in Entry
  <2> HIDE DEF Entry
  <2> QED
    BY <1>1
<1> QED
  BY <1>2

\* Both canaries are tenants, and their rows are rows.
LEMMA CanaryRows == {CanaryRow(CanaryA), CanaryRow(CanaryB)} \subseteq Row
  BY DEF CanaryRow, Row, Tenants

\* The checks PolicyProven looks at, in its order.
LEMMA FailingChecks ==
    /\ DOMAIN Before = {10, 11, 12, 13}
    /\ Failing[10] = "A1" /\ Failing[11] = "A2"
    /\ Failing[12] = "A3" /\ Failing[13] = "A4"
    /\ Before[10] = {} /\ Before[11] = {"A1"}
    /\ Before[12] = {"A1", "A2"} /\ Before[13] = {"A1", "A2", "A3"}
  BY DEF Before, Failing

\* exitCodeFor of a gate that is not proven: never 0, and a code of 10 to 13
\* names the first check, in PolicyProven's order, that failed.
LEMMA ExitCodeSays ==
    ASSUME proof \in [Checks -> {"unchecked", "passed", "failed"}],
           proof["A1"] = "unchecked" <=> proof["A4"] = "unchecked",
           proof["A2"] # "unchecked", proof["A3"] # "unchecked",
           ~PolicyProven
    PROVE  CodeSays(ExitCode) /\ ExitCode \in {2, 10, 11, 12, 13}
<1>1. \A c \in Checks : proof[c] \in {"unchecked", "passed", "failed"}
  OBVIOUS
<1>2. ASSUME ExitCode = 2
      PROVE  CodeSays(ExitCode)
  BY <1>2, FailingChecks DEF CodeSays
<1>3. ASSUME ExitCode = 10, proof["A1"] = "failed"
      PROVE  CodeSays(ExitCode)
  BY <1>3, FailingChecks DEF CodeSays
<1>4. ASSUME ExitCode = 11, proof["A1"] = "passed", proof["A2"] = "failed"
      PROVE  CodeSays(ExitCode)
  BY <1>4, FailingChecks DEF CodeSays
<1>5. ASSUME ExitCode = 12, proof["A1"] = "passed", proof["A2"] = "passed",
             proof["A3"] = "failed"
      PROVE  CodeSays(ExitCode)
  BY <1>5, FailingChecks DEF CodeSays
<1>6. ASSUME ExitCode = 13, proof["A1"] = "passed", proof["A2"] = "passed",
             proof["A3"] = "passed", proof["A4"] = "failed"
      PROVE  CodeSays(ExitCode)
  BY <1>6, FailingChecks DEF CodeSays
<1>7. /\ proof["A1"] \in {"unchecked", "passed", "failed"}
      /\ proof["A2"] \in {"passed", "failed"}
      /\ proof["A3"] \in {"passed", "failed"}
      /\ proof["A4"] \in {"unchecked", "passed", "failed"}
  BY <1>1 DEF Checks
<1>8. \E c \in Checks : proof[c] # "passed"
  BY DEF PolicyProven
<1>9. CASE proof["A1"] = "unchecked"
  <2>1. ExitCode = 2
    BY <1>9 DEF ExitCode
  <2> QED
    BY <1>2, <2>1
<1>10. CASE proof["A1"] = "failed"
  <2>1. ExitCode = 10
    BY <1>10 DEF ExitCode
  <2> QED
    BY <1>3, <1>10, <2>1
<1>11. CASE proof["A1"] = "passed" /\ proof["A2"] = "failed"
  <2>1. ExitCode = 11
    BY <1>11 DEF ExitCode
  <2> QED
    BY <1>4, <1>11, <2>1
<1>12. CASE proof["A1"] = "passed" /\ proof["A2"] = "passed" /\ proof["A3"] = "failed"
  <2>1. ExitCode = 12
    BY <1>12 DEF ExitCode
  <2> QED
    BY <1>5, <1>12, <2>1
<1>13. CASE proof["A1"] = "passed" /\ proof["A2"] = "passed" /\ proof["A3"] = "passed"
  <2>1. ExitCode = 13
    BY <1>13 DEF ExitCode
  <2>2. proof["A4"] = "failed"
    BY <1>7, <1>8, <1>13 DEF Checks
  <2> QED
    BY <1>6, <1>13, <2>1, <2>2
<1> QED
  BY <1>7, <1>9, <1>10, <1>11, <1>12, <1>13

\* A query's judgement is a verdict of the report.
LEMMA JudgementType ==
    ASSUME NEW q \in Queries, NEW j \in Judgements(q)
    PROVE  j \in Verdict
<1>1. q.tables \in SUBSET Relations
  BY CommandAssumption
<1>2. Population(q) \in Populations
  BY DEF Population, Populations
<1>3. PICK v \in {"SAFE", "LEAK", "UNATTRIBUTABLE"}, vac \in BOOLEAN :
        j = Judgement(q, v, vac)
  BY DEF Judgements
<1> QED
  BY <1>1, <1>2, <1>3 DEF Judgement, Verdict

\* What CheckA4 establishes is more than it looks at: it compares what canary A
\* sees, and gives that no tenant sees a row of another, canary A's own aside,
\* because the target's own policies are the same for all tenants: a row they
\* showed to all, canary A would have seen.
LEMMA OneCanaryIsEnough ==
    ASSUME NEW r \in Relations, r \in rls, Reproduces(r)
    PROVE  /\ \A t \in Tenants :
                /\ Visible(r, t) \subseteq Owned(r, t) \cup Owned(r, CanaryA)
                /\ Owned(r, t) \ Visible(r, t) \subseteq target[r].hides
           /\ Owned(r, CanaryA) \cap target[r].hides = {}
<1>1. ASSUME NEW t \in Tenants, NEW row \in Visible(r, t)
      PROVE  row \in Owned(r, t) \cup Owned(r, CanaryA)
  <2>1. row \in rows[r] /\ Admits(r, t, row)
    BY <1>1 DEF Visible
  <2>2. CASE row.tenant = t
    BY <2>1, <2>2 DEF Owned
  <2>3. CASE row.tenant # t
    <3>1. Admits(r, CanaryA, row)
      BY <2>1, <2>3 DEF Admits
    <3> QED
      BY <2>1, <3>1 DEF Reproduces, Visible
  <2> QED
    BY <2>2, <2>3
<1>2. \A t \in Tenants : Owned(r, t) \ Visible(r, t) \subseteq target[r].hides
  BY DEF Owned, Visible, Admits
<1>3. Owned(r, CanaryA) \cap target[r].hides = {}
  BY DEF Reproduces, Owned, Visible, Admits
<1> QED
  BY <1>1, <1>2, <1>3

-----------------------------------------------------------------------------
(* The invariant is inductive. *)

\* A command that has not connected has judged nothing and left nothing.
LEMMA InitInv == Init => GateInv
<1> SUFFICES ASSUME Init PROVE GateInv
  OBVIOUS
<1>1. TypeOK
  <2>1. GateTypeOK
    BY DEF Init, GateInit, GateTypeOK, Unchecked, Checks
  <2> QED
    BY <2>1 DEF Init, TypeOK, Running
<1>2. Lifecycle
  BY DEF Init, GateInit, Lifecycle, Early, Checking, Leaving
<1>3. Seeding
  BY DEF Init, GateInit, Seeding, Checking
<1>4. Checked
  BY DEF Init, GateInit, Checked, Early, Checking, Unchecked, Checks
<1>5. Codes
  BY DEF Init, GateInit, Codes, Early, Checking, Running, Before, CodeSays
<1> QED
  BY <1>1, <1>2, <1>3, <1>4, <1>5 DEF GateInv

\* Connect keeps the invariant.
LEMMA ConnectInv ==
    ASSUME GateInv, Connect, Command
    PROVE  GateInv'
<1>0. TypeOK /\ GateTypeOK /\ Lifecycle /\ Seeding /\ Checked /\ Codes
  BY DEF GateInv, TypeOK
<1>1. GateTypeOK'
  BY <1>0 DEF Connect, Return, GateTypeOK
<1>2. TypeOK'
  BY <1>0, <1>1 DEF TypeOK, Command
<1>3. Lifecycle'
  BY <1>0 DEF Connect, Return, Command, Lifecycle, Early, Checking, Leaving
<1>4. Seeding'
  BY <1>0 DEF Connect, Return, Seeding, Seeded, Scoped, Checking
<1>5. Checked'
  BY <1>0 DEF Connect, Return, Checked, Lifecycle, Early, Checking, Scoped
<1>6. Codes'
  BY <1>0 DEF Connect, Return, Command, Codes, Checked, Early, Checking, CodeSays, Before
<1> QED
  BY <1>2, <1>3, <1>4, <1>5, <1>6 DEF GateInv

\* CreateProbe keeps the invariant.
LEMMA CreateProbeInv ==
    ASSUME GateInv, CreateProbe, Command
    PROVE  GateInv'
<1>0. TypeOK /\ GateTypeOK /\ Lifecycle /\ Seeding /\ Checked /\ Codes
  BY DEF GateInv, TypeOK
<1>1. GateTypeOK'
  <2>1. \A r \in Relations : target[r].rows \in SUBSET Row
    BY <1>0, GateAssumption DEF GateTypeOK, Target
  <2>2. rows' \in [Relations -> SUBSET Row]
    BY <2>1 DEF CreateProbe
  <2> QED
    BY <1>0, <2>2 DEF CreateProbe, GateTypeOK
<1>2. TypeOK'
  BY <1>0, <1>1 DEF TypeOK, Command
<1>3. Lifecycle'
  BY <1>0 DEF CreateProbe, Command, Lifecycle, Early, Checking, Leaving
<1>4. Seeding'
  BY <1>0 DEF CreateProbe, Seeding, Seeded, Scoped, Checking
<1>5. Checked'
  BY <1>0 DEF CreateProbe, Checked, Lifecycle, Early, Checking, Scoped
<1>6. Codes'
  BY <1>0 DEF CreateProbe, Command, Codes, Checked, Early, Checking, CodeSays
<1> QED
  BY <1>2, <1>3, <1>4, <1>5, <1>6 DEF GateInv

\* OpenProbe keeps the invariant.
LEMMA OpenProbeInv ==
    ASSUME GateInv, OpenProbe, Command
    PROVE  GateInv'
<1>0. TypeOK /\ GateTypeOK /\ Lifecycle /\ Seeding /\ Checked /\ Codes
  BY DEF GateInv, TypeOK
<1>1. GateTypeOK'
  BY <1>0 DEF OpenProbe, GateTypeOK
<1>2. TypeOK'
  BY <1>0, <1>1 DEF TypeOK, Command
<1>3. Lifecycle'
  BY <1>0 DEF OpenProbe, Command, Lifecycle, Early, Checking, Leaving
<1>4. Seeding'
  BY <1>0 DEF OpenProbe, Seeding, Seeded, Scoped, Checking
<1>5. Checked'
  BY <1>0 DEF OpenProbe, Checked, Lifecycle, Early, Checking, Scoped
<1>6. Codes'
  BY <1>0 DEF OpenProbe, Command, Codes, Checked, Early, Checking, CodeSays
<1> QED
  BY <1>2, <1>3, <1>4, <1>5, <1>6 DEF GateInv

\* SeedRelation keeps the invariant.
LEMMA SeedRelationInv ==
    ASSUME GateInv, SeedRelation, Command
    PROVE  GateInv'
<1>0. TypeOK /\ GateTypeOK /\ Lifecycle /\ Seeding /\ Checked /\ Codes
  BY DEF GateInv, TypeOK
<1>a. /\ pc = "seed_canaries"
      /\ UNCHANGED <<target, policy, pc, probe, role, rls, proof, tableProof, code>>
  BY <1>0 DEF SeedRelation
<1>b. PICK r \in Relations : IsNext(r, Seeded) /\ (SeedFromSample(r) \/ SeedFromFixture(r))
  BY <1>0 DEF SeedRelation
<1>c. PICK new \in SUBSET {CanaryRow(CanaryA), CanaryRow(CanaryB)},
           outcome \in {"sampled", "fixture", "skipped"} :
        /\ rows' = [rows EXCEPT ![r] = rows[r] \cup new]
        /\ seed' = [seed EXCEPT ![r] = outcome]
        /\ outcome # "skipped" => new = {CanaryRow(CanaryA), CanaryRow(CanaryB)}
  <2>1. rows = [rows EXCEPT ![r] = rows[r] \cup {}]
    BY <1>0 DEF GateTypeOK
  <2>2. CASE SeedFromSample(r)
    BY <2>1, <2>2 DEF SeedFromSample
  <2>3. CASE SeedFromFixture(r)
    BY <2>1, <2>3 DEF SeedFromFixture
  <2> QED
    BY <1>b, <2>2, <2>3
<1>1. GateTypeOK'
  <2>1. rows[r] \cup new \in SUBSET Row
    BY <1>0, CanaryRows DEF GateTypeOK
  <2>2. rows' \in [Relations -> SUBSET Row]
    BY <1>0, <1>c, <2>1 DEF GateTypeOK
  <2>3. seed' \in [Relations -> {"pending", "sampled", "fixture", "skipped"}]
    BY <1>0, <1>c DEF GateTypeOK
  <2> QED
    BY <1>0, <1>a, <2>2, <2>3 DEF GateTypeOK
<1>2. TypeOK'
  BY <1>0, <1>1 DEF TypeOK, Command
<1>3. Lifecycle'
  BY <1>0 DEF SeedRelation, Command, Lifecycle, Early, Checking, Leaving
<1>4. Seeding'
  <2>1. ASSUME NEW s \in Relations, seed'[s] \in {"sampled", "fixture"}
        PROVE  {CanaryRow(CanaryA), CanaryRow(CanaryB)} \subseteq rows'[s]
    <3>1. CASE s = r
      BY <1>0, <1>c, <2>1, <3>1 DEF GateTypeOK
    <3>2. CASE s # r
      BY <1>0, <1>c, <2>1, <3>2 DEF GateTypeOK, Seeding
    <3> QED
      BY <3>1, <3>2
  <2> QED
    BY <1>a, <2>1 DEF Seeding, Checking
<1>5. Checked'
  BY <1>0 DEF SeedRelation, Checked, Lifecycle, Early, Checking, Scoped
<1>6. Codes'
  BY <1>0 DEF SeedRelation, Command, Codes, Checked, Early, Checking, CodeSays
<1> QED
  BY <1>2, <1>3, <1>4, <1>5, <1>6 DEF GateInv

\* SeedDone keeps the invariant.
LEMMA SeedDoneInv ==
    ASSUME GateInv, SeedDone, Command
    PROVE  GateInv'
<1>0. TypeOK /\ GateTypeOK /\ Lifecycle /\ Seeding /\ Checked /\ Codes
  BY DEF GateInv, TypeOK
<1>1. GateTypeOK'
  BY <1>0 DEF SeedDone, GateTypeOK
<1>2. TypeOK'
  BY <1>0, <1>1 DEF TypeOK, Command
<1>3. Lifecycle'
  BY <1>0 DEF SeedDone, Command, Lifecycle, Early, Checking, Leaving
<1>4. Seeding'
  BY <1>0 DEF SeedDone, Seeding, Seeded, Scoped, Checking
<1>5. Checked'
  BY <1>0 DEF SeedDone, Checked, Lifecycle, Early, Checking, Scoped
<1>6. Codes'
  BY <1>0 DEF SeedDone, Command, Codes, Checked, Early, Checking, CodeSays
<1> QED
  BY <1>2, <1>3, <1>4, <1>5, <1>6 DEF GateInv

\* CreateRestrictedRole keeps the invariant.
LEMMA CreateRestrictedRoleInv ==
    ASSUME GateInv, CreateRestrictedRole, Command
    PROVE  GateInv'
<1>0. TypeOK /\ GateTypeOK /\ Lifecycle /\ Seeding /\ Checked /\ Codes
  BY DEF GateInv, TypeOK
<1>1. GateTypeOK'
  BY <1>0 DEF CreateRestrictedRole, Return, GateTypeOK
<1>2. TypeOK'
  BY <1>0, <1>1 DEF TypeOK, Command
<1>3. Lifecycle'
  BY <1>0 DEF CreateRestrictedRole, Return, Command, Lifecycle, Early, Checking, Leaving
<1>4. Seeding'
  BY <1>0 DEF CreateRestrictedRole, Return, Seeding, Seeded, Scoped, Checking
<1>5. Checked'
  BY <1>0 DEF CreateRestrictedRole, Return, Checked, Lifecycle, Early, Checking, Scoped
<1>6. Codes'
  BY <1>0 DEF CreateRestrictedRole, Return, Command, Codes, Checked, Early, Checking,
     CodeSays, Before
<1> QED
  BY <1>2, <1>3, <1>4, <1>5, <1>6 DEF GateInv

\* EnableRLS keeps the invariant.
LEMMA EnableRLSInv ==
    ASSUME GateInv, EnableRLS, Command
    PROVE  GateInv'
<1>0. TypeOK /\ GateTypeOK /\ Lifecycle /\ Seeding /\ Checked /\ Codes
  BY DEF GateInv, TypeOK
<1>1. GateTypeOK'
  BY <1>0 DEF EnableRLS, GateTypeOK
<1>2. TypeOK'
  BY <1>0, <1>1 DEF TypeOK, Command
<1>3. Lifecycle'
  BY <1>0 DEF EnableRLS, Command, Lifecycle, Early, Checking, Leaving
<1>4. Seeding'
  BY <1>0 DEF EnableRLS, Seeding, Seeded, Scoped, Checking
<1>5. Checked'
  BY <1>0 DEF EnableRLS, Checked, Lifecycle, Early, Checking, Scoped
<1>6. Codes'
  BY <1>0 DEF EnableRLS, Command, Codes, Checked, Early, Checking, CodeSays
<1> QED
  BY <1>2, <1>3, <1>4, <1>5, <1>6 DEF GateInv

\* CheckA2 keeps the invariant.
LEMMA CheckA2Inv ==
    ASSUME GateInv, CheckA2, Command
    PROVE  GateInv'
<1>0. TypeOK /\ GateTypeOK /\ Lifecycle /\ Seeding /\ Checked /\ Codes
  BY DEF GateInv, TypeOK
<1>a. PICK o \in {"passed", "failed"} : proof' = [proof EXCEPT !["A2"] = o]
  BY <1>0 DEF CheckA2, Outcomes
<1>1. GateTypeOK'
  <2>1. proof' \in [Checks -> {"unchecked", "passed", "failed"}]
    BY <1>0, <1>a DEF GateTypeOK
  <2> QED
    BY <1>0, <2>1 DEF CheckA2, GateTypeOK
<1>2. TypeOK'
  BY <1>0, <1>1 DEF TypeOK, Command
<1>3. Lifecycle'
  BY <1>0 DEF CheckA2, Command, Lifecycle, Early, Checking, Leaving
<1>4. Seeding'
  BY <1>0 DEF CheckA2, Seeding, Seeded, Scoped, Checking
<1>5. Checked'
  <2>1. /\ proof'["A2"] # "unchecked"
        /\ \A c \in Checks \ {"A2"} : proof'[c] = proof[c]
    BY <1>0, <1>a DEF GateTypeOK, Checks
  <2> QED
    BY <1>0, <2>1 DEF CheckA2, Checked, Checks, Early, Checking, Scoped
<1>6. Codes'
  BY <1>0 DEF CheckA2, Command, Codes, Checked, Early, Checking, CodeSays, Before
<1> QED
  BY <1>2, <1>3, <1>4, <1>5, <1>6 DEF GateInv

\* CheckA3 keeps the invariant.
LEMMA CheckA3Inv ==
    ASSUME GateInv, CheckA3, Command
    PROVE  GateInv'
<1>0. TypeOK /\ GateTypeOK /\ Lifecycle /\ Seeding /\ Checked /\ Codes
  BY DEF GateInv, TypeOK
<1>a. PICK o \in {"passed", "failed"} : proof' = [proof EXCEPT !["A3"] = o]
  BY <1>0 DEF CheckA3, Outcomes
<1>1. GateTypeOK'
  <2>1. proof' \in [Checks -> {"unchecked", "passed", "failed"}]
    BY <1>0, <1>a DEF GateTypeOK
  <2> QED
    BY <1>0, <2>1 DEF CheckA3, GateTypeOK
<1>2. TypeOK'
  BY <1>0, <1>1 DEF TypeOK, Command
<1>3. Lifecycle'
  BY <1>0 DEF CheckA3, Command, Lifecycle, Early, Checking, Leaving
<1>4. Seeding'
  BY <1>0 DEF CheckA3, Seeding, Seeded, Scoped, Checking
<1>5. Checked'
  <2>1. /\ proof'["A3"] # "unchecked"
        /\ \A c \in Checks \ {"A3"} : proof'[c] = proof[c]
    BY <1>0, <1>a DEF GateTypeOK, Checks
  <2> QED
    BY <1>0, <2>1 DEF CheckA3, Checked, Checks, Early, Checking, Scoped
<1>6. Codes'
  BY <1>0 DEF CheckA3, Command, Codes, Checked, Early, Checking, CodeSays, Before
<1> QED
  BY <1>2, <1>3, <1>4, <1>5, <1>6 DEF GateInv

\* OpenRestricted keeps the invariant.
LEMMA OpenRestrictedInv ==
    ASSUME GateInv, OpenRestricted, Command
    PROVE  GateInv'
<1>0. TypeOK /\ GateTypeOK /\ Lifecycle /\ Seeding /\ Checked /\ Codes
  BY DEF GateInv, TypeOK
<1>1. GateTypeOK'
  BY <1>0 DEF OpenRestricted, GateTypeOK
<1>2. TypeOK'
  BY <1>0, <1>1 DEF TypeOK, Command
<1>3. Lifecycle'
  BY <1>0 DEF OpenRestricted, Command, Lifecycle, Early, Checking, Leaving
<1>4. Seeding'
  BY <1>0 DEF OpenRestricted, Seeding, Seeded, Scoped, Checking
<1>5. Checked'
  BY <1>0 DEF OpenRestricted, Checked, Lifecycle, Early, Checking, Scoped
<1>6. Codes'
  BY <1>0 DEF OpenRestricted, Command, Codes, Checked, Early, Checking, CodeSays
<1> QED
  BY <1>2, <1>3, <1>4, <1>5, <1>6 DEF GateInv

\* CheckTable keeps the invariant.
LEMMA CheckTableInv ==
    ASSUME GateInv, CheckTable, Command
    PROVE  GateInv'
<1>0. TypeOK /\ GateTypeOK /\ Lifecycle /\ Seeding /\ Checked /\ Codes
  BY DEF GateInv, TypeOK
<1>a. /\ pc = "tables"
      /\ UNCHANGED <<target, policy, pc, probe, role, rows, rls, seed, code>>
  BY <1>0 DEF CheckTable
<1>b. PICK r \in Relations :
        /\ IsNext(r, tableProof)
        /\ tableProof' = tableProof \cup {r}
        /\ IF seed[r] = "skipped" THEN UNCHANGED proof
           ELSE \E a1 \in Outcomes(Withholds(r)), a4 \in Outcomes(Reproduces(r)) :
                  proof' = [proof EXCEPT !["A1"] = Fold(@, a1), !["A4"] = Fold(@, a4)]
  BY <1>0 DEF CheckTable
<1>c. ASSUME seed[r] # "skipped"
      PROVE  /\ proof' \in [Checks -> {"unchecked", "passed", "failed"}]
             /\ proof'["A1"] # "unchecked" /\ proof'["A4"] # "unchecked"
             /\ \A c \in Checks \ {"A1", "A4"} : proof'[c] = proof[c]
             /\ proof'["A4"] = "passed" =>
                  Reproduces(r) /\ proof["A4"] \in {"unchecked", "passed"}
  <2>1. PICK a1 \in Outcomes(Withholds(r)), a4 \in Outcomes(Reproduces(r)) :
          proof' = [proof EXCEPT !["A1"] = Fold(@, a1), !["A4"] = Fold(@, a4)]
    BY <1>b, <1>c
  <2>2. /\ a1 \in {"passed", "failed"} /\ a4 \in {"passed", "failed"}
        /\ a4 = "passed" => Reproduces(r)
    BY <2>1 DEF Outcomes
  <2>3. /\ Fold(proof["A1"], a1) \in {"passed", "failed"}
        /\ Fold(proof["A4"], a4) \in {"passed", "failed"}
        /\ Fold(proof["A4"], a4) = "passed" => a4 = "passed" /\ proof["A4"] # "failed"
    BY <2>2 DEF Fold
  <2>4. /\ proof' = [proof EXCEPT !["A1"] = Fold(proof["A1"], a1),
                                  !["A4"] = Fold(proof["A4"], a4)]
        /\ proof \in [Checks -> {"unchecked", "passed", "failed"}]
    BY <1>0, <2>1 DEF GateTypeOK
  <2> QED
    BY <2>2, <2>3, <2>4 DEF Checks
<1>1. GateTypeOK'
  <2>1. proof' \in [Checks -> {"unchecked", "passed", "failed"}]
    BY <1>0, <1>b, <1>c DEF GateTypeOK
  <2> QED
    BY <1>0, <1>a, <1>b, <2>1 DEF GateTypeOK
<1>2. TypeOK'
  BY <1>0, <1>1 DEF TypeOK, Command
<1>3. Lifecycle'
  BY <1>0 DEF CheckTable, Command, Lifecycle, Early, Checking, Leaving
<1>4. Seeding'
  BY <1>0 DEF CheckTable, Seeding, Seeded, Scoped, Checking
<1>5. Checked'
  <2>1. r \in Scoped /\ Scoped' = Scoped
    BY <1>a, <1>b DEF IsNext, Scoped
  <2>2. \A s \in Relations : Reproduces(s)' <=> Reproduces(s)
    BY <1>a DEF Reproduces, Visible, Owned, Admits
  <2>3. CASE seed[r] = "skipped"
    <3>1. UNCHANGED proof
      BY <1>b, <2>3
    <3> QED
      BY <1>0, <1>a, <1>b, <2>1, <2>2, <2>3, <3>1
         DEF Checked, Early, Checking, GateTypeOK
  <2>4. CASE seed[r] # "skipped"
    <3>1. \/ proof["A4"] = "passed"
          \/ proof["A4"] = "failed"
          \/ proof["A4"] = "unchecked" /\ \A s \in tableProof : seed[s] = "skipped"
      BY <1>0 DEF Checked, GateTypeOK, Checks
    <3> QED
      BY <1>0, <1>a, <1>b, <1>c, <2>1, <2>2, <2>4, <3>1
         DEF Checked, Early, Checking, GateTypeOK, Checks
  <2> QED
    BY <2>3, <2>4
<1>6. Codes'
  BY <1>0 DEF CheckTable, Command, Codes, Checked, Early, Checking, CodeSays, Before
<1> QED
  BY <1>2, <1>3, <1>4, <1>5, <1>6 DEF GateInv

\* Judge keeps the invariant.
LEMMA JudgeInv ==
    ASSUME GateInv, Judge, Command
    PROVE  GateInv'
<1>0. TypeOK /\ GateTypeOK /\ Lifecycle /\ Seeding /\ Checked /\ Codes
  BY DEF GateInv, TypeOK
<1>a. ~PolicyProven => CodeSays(ExitCode) /\ ExitCode \in {2, 10, 11, 12, 13}
  BY <1>0, ExitCodeSays DEF Judge, GateTypeOK, Checked
<1>1. GateTypeOK'
  BY <1>0, <1>a DEF Judge, Return, GateTypeOK
<1>2. TypeOK'
  BY <1>0, <1>1 DEF TypeOK, Command
<1>3. Lifecycle'
  BY <1>0 DEF Judge, Return, Command, Lifecycle, Early, Checking, Leaving
<1>4. Seeding'
  BY <1>0 DEF Judge, Return, Seeding, Seeded, Scoped, Checking
<1>5. Checked'
  BY <1>0 DEF Judge, Return, Checked, Lifecycle, Early, Checking, Scoped, PolicyProven,
         Reproduces, Visible, Owned, Admits
<1>6. Codes'
  <2>1. CASE PolicyProven
    BY <1>0, <2>1 DEF Judge, Command, Codes, Early, Checking, CodeSays
  <2>2. CASE ~PolicyProven
    BY <1>0, <1>a, <2>2 DEF Judge, Return, Command, Codes, Early, Checking, CodeSays
  <2> QED
    BY <2>1, <2>2
<1> QED
  BY <1>2, <1>3, <1>4, <1>5, <1>6 DEF GateInv

\* DatabaseError keeps the invariant.
LEMMA DatabaseErrorInv ==
    ASSUME GateInv, DatabaseError, Command
    PROVE  GateInv'
<1>0. TypeOK /\ GateTypeOK /\ Lifecycle /\ Seeding /\ Checked /\ Codes
  BY DEF GateInv, TypeOK
<1>1. GateTypeOK'
  BY <1>0 DEF DatabaseError, Return, GateTypeOK
<1>2. TypeOK'
  BY <1>0, <1>1 DEF TypeOK, Command
<1>3. Lifecycle'
  BY <1>0 DEF DatabaseError, Return, Command, Lifecycle, Early, Checking, Leaving
<1>4. Seeding'
  BY <1>0 DEF DatabaseError, Return, Seeding, Seeded, Scoped, Checking
<1>5. Checked'
  BY <1>0 DEF DatabaseError, Return, Checked, Lifecycle, Early, Checking, Scoped
<1>6. Codes'
  BY <1>0 DEF DatabaseError, Return, Command, Codes, Checked, Early, Checking, CodeSays, Before
<1> QED
  BY <1>2, <1>3, <1>4, <1>5, <1>6 DEF GateInv

\* DropRole keeps the invariant.
LEMMA DropRoleInv ==
    ASSUME GateInv, DropRole, Command
    PROVE  GateInv'
<1>0. TypeOK /\ GateTypeOK /\ Lifecycle /\ Seeding /\ Checked /\ Codes
  BY DEF GateInv, TypeOK
<1>1. GateTypeOK'
  BY <1>0 DEF DropRole, GateTypeOK
<1>2. TypeOK'
  BY <1>0, <1>1 DEF TypeOK, Command
<1>3. Lifecycle'
  BY <1>0 DEF DropRole, Command, Lifecycle, Early, Checking, Leaving
<1>4. Seeding'
  BY <1>0 DEF DropRole, Seeding, Seeded, Scoped, Checking
<1>5. Checked'
  BY <1>0 DEF DropRole, Checked, Lifecycle, Early, Checking, Scoped
<1>6. Codes'
  BY <1>0 DEF DropRole, Command, Codes, Checked, Early, Checking, CodeSays
<1> QED
  BY <1>2, <1>3, <1>4, <1>5, <1>6 DEF GateInv

\* DropProbe keeps the invariant.
LEMMA DropProbeInv ==
    ASSUME GateInv, DropProbe, Command
    PROVE  GateInv'
<1>0. TypeOK /\ GateTypeOK /\ Lifecycle /\ Seeding /\ Checked /\ Codes
  BY DEF GateInv, TypeOK
<1>1. GateTypeOK'
  BY <1>0 DEF DropProbe, GateTypeOK
<1>2. TypeOK'
  BY <1>0, <1>1 DEF TypeOK, Command
<1>3. Lifecycle'
  BY <1>0 DEF DropProbe, Command, Lifecycle, Early, Checking, Leaving
<1>4. Seeding'
  BY <1>0 DEF DropProbe, Seeding, Seeded, Scoped, Checking
<1>5. Checked'
  BY <1>0 DEF DropProbe, Checked, Lifecycle, Early, Checking, Scoped
<1>6. Codes'
  BY <1>0 DEF DropProbe, Command, Codes, Checked, Early, Checking, CodeSays
<1> QED
  BY <1>2, <1>3, <1>4, <1>5, <1>6 DEF GateInv

\* ProvenReturns keeps the invariant.
LEMMA ProvenReturnsInv ==
    ASSUME GateInv, ProvenReturns, Command
    PROVE  GateInv'
<1>0. TypeOK /\ GateTypeOK /\ Lifecycle /\ Seeding /\ Checked /\ Codes
  BY DEF GateInv, TypeOK
<1>1. GateTypeOK'
  BY <1>0 DEF ProvenReturns, Return, GateTypeOK
<1>2. TypeOK'
  BY <1>0, <1>1 DEF TypeOK, Command
<1>3. Lifecycle'
  BY <1>0 DEF ProvenReturns, Return, Command, Lifecycle, Early, Checking, Leaving
<1>4. Seeding'
  BY <1>0 DEF ProvenReturns, Return, Seeding, Seeded, Scoped, Checking
<1>5. Checked'
  BY <1>0 DEF ProvenReturns, Return, Checked, Lifecycle, Early, Checking, Scoped
<1>6. Codes'
  BY <1>0 DEF ProvenReturns, Return, Command, Codes, Checked, Early, Checking, CodeSays
<1> QED
  BY <1>2, <1>3, <1>4, <1>5, <1>6 DEF GateInv

\* Interrupted keeps the invariant.
LEMMA InterruptedInv ==
    ASSUME GateInv, Interrupted, Command
    PROVE  GateInv'
<1>0. TypeOK /\ GateTypeOK /\ Lifecycle /\ Seeding /\ Checked /\ Codes
  BY DEF GateInv, TypeOK
<1>1. GateTypeOK'
  BY <1>0 DEF Interrupted, GateTypeOK
<1>2. TypeOK'
  BY <1>0, <1>1 DEF TypeOK, Command
<1>3. Lifecycle'
  BY <1>0 DEF Interrupted, Command, Lifecycle, Early, Checking, Leaving
<1>4. Seeding'
  BY <1>0 DEF Interrupted, Seeding, Seeded, Scoped, Checking
<1>5. Checked'
  BY <1>0 DEF Interrupted, Checked, Lifecycle, Early, Checking, Scoped
<1>6. Codes'
  BY <1>0 DEF Interrupted, Command, Codes, Checked, Early, Checking, CodeSays
<1> QED
  BY <1>2, <1>3, <1>4, <1>5, <1>6 DEF GateInv

\* Replay keeps the invariant.
LEMMA ReplayInv ==
    ASSUME GateInv, NEW q \in Queries, Replay(q)
    PROVE  GateInv'
<1>0. TypeOK /\ GateTypeOK /\ Lifecycle /\ Seeding /\ Checked /\ Codes
  BY DEF GateInv, TypeOK
<1>a. /\ UNCHANGED <<target, policy, pc, probe, role, rows, rls, seed, proof,
                     tableProof, code>>
      /\ UNCHANGED <<report, exit>> /\ pc = "proven"
  BY <1>0 DEF Replay, gateVars
<1>1. GateTypeOK'
  BY <1>0, <1>a DEF GateTypeOK
<1>2. TypeOK'
  <2>1. PICK j \in Judgements(q) : verdicts' = Append(verdicts, j)
    BY <1>0 DEF Replay
  <2>2. verdicts' \in Seq(Verdict)
    BY <1>0, <2>1, JudgementType DEF TypeOK
  <2> QED
    BY <1>0, <1>1, <1>a, <2>2 DEF TypeOK
<1>3. Lifecycle'
  BY <1>0, <1>a DEF Lifecycle
<1>4. Seeding'
  BY <1>0, <1>a DEF Seeding, Scoped, Seeded
<1>5. Checked'
  BY <1>0, <1>a DEF Checked, Scoped, PolicyProven, Reproduces, Visible, Owned, Admits
<1>6. Codes'
  BY <1>0, <1>a DEF Codes, Early, Checking, CodeSays
<1> QED
  BY <1>2, <1>3, <1>4, <1>5, <1>6 DEF GateInv

\* UsageError keeps the invariant.
LEMMA UsageErrorInv ==
    ASSUME GateInv, UsageError
    PROVE  GateInv'
<1>0. TypeOK /\ GateTypeOK /\ Lifecycle /\ Seeding /\ Checked /\ Codes
  BY DEF GateInv, TypeOK
<1>a. /\ UNCHANGED <<target, policy, probe, role, rows, rls, seed, proof,
                     tableProof, code, verdicts>>
      /\ pc' = "exited"
  BY <1>0 DEF UsageError, Exit
<1>1. GateTypeOK'
  BY <1>0, <1>a DEF GateTypeOK
<1>2. TypeOK'
  BY <1>0, <1>1, <1>a DEF TypeOK, UsageError, Exit
<1>3. Lifecycle'
  BY <1>0, <1>a DEF Lifecycle, UsageError, Early, Checking, Leaving
<1>4. Seeding'
  BY <1>0, <1>a DEF Seeding, Scoped, Seeded, Checking
<1>5. Checked'
  BY <1>0, <1>a DEF Checked, Early, Checking, Scoped
<1>6. Codes'
  BY <1>0, <1>a, FailingChecks
     DEF Codes, UsageError, Exit, CodeSays, Early, Checking, Leaving
<1> QED
  BY <1>2, <1>3, <1>4, <1>5, <1>6 DEF GateInv

\* Abort keeps the invariant.
LEMMA AbortInv ==
    ASSUME GateInv, Abort
    PROVE  GateInv'
<1>0. TypeOK /\ GateTypeOK /\ Lifecycle /\ Seeding /\ Checked /\ Codes
  BY DEF GateInv, TypeOK
<1>a. /\ UNCHANGED <<target, policy, probe, role, rows, rls, seed, proof,
                     tableProof, code, verdicts>>
      /\ pc' = "exited"
  BY <1>0 DEF Abort, Exit
<1>1. GateTypeOK'
  BY <1>0, <1>a DEF GateTypeOK
<1>2. TypeOK'
  BY <1>0, <1>1, <1>a DEF TypeOK, GateTypeOK, Abort, Exit
<1>3. Lifecycle'
  BY <1>0, <1>a DEF Lifecycle, Abort, Early, Checking, Leaving
<1>4. Seeding'
  BY <1>0, <1>a DEF Seeding, Scoped, Seeded, Checking
<1>5. Checked'
  BY <1>0, <1>a DEF Checked, Early, Checking, Scoped
<1>6. Codes'
  BY <1>0, <1>a DEF Codes, Abort, Exit, CodeSays, Early, Checking
<1> QED
  BY <1>2, <1>3, <1>4, <1>5, <1>6 DEF GateInv

\* Write keeps the invariant.
LEMMA WriteInv ==
    ASSUME GateInv, Write
    PROVE  GateInv'
<1>0. TypeOK /\ GateTypeOK /\ Lifecycle /\ Seeding /\ Checked /\ Codes
  BY DEF GateInv, TypeOK
<1>a. /\ UNCHANGED <<target, policy, probe, role, rows, rls, seed, proof,
                     tableProof, code, verdicts>>
      /\ pc' = "exited"
  BY <1>0 DEF Write, Exit
<1>1. GateTypeOK'
  BY <1>0, <1>a DEF GateTypeOK
<1>2. TypeOK'
  <2>1. exit' \in {0, 1, 3}
    BY <1>0 DEF Write, Exit
  <2> QED
    BY <1>0, <1>1, <1>a, <2>1 DEF TypeOK
<1>3. Lifecycle'
  BY <1>0, <1>a DEF Lifecycle, Write, Early, Checking, Leaving
<1>4. Seeding'
  BY <1>0, <1>a DEF Seeding, Scoped, Seeded, Checking
<1>5. Checked'
  BY <1>0, <1>a DEF Checked, Early, Checking, Scoped
<1>6. Codes'
  <2>1. exit' \in {0, 1, 3} /\ code = 0
    BY <1>0 DEF Write, Exit
  <2> QED
    BY <1>0, <1>a, <2>1, FailingChecks DEF Codes, CodeSays, Early, Checking
<1> QED
  BY <1>2, <1>3, <1>4, <1>5, <1>6 DEF GateInv

\* Every step of the command keeps the invariant.
LEMMA StepInv == GateInv /\ [Next]_vars => GateInv'
<1> SUFFICES ASSUME GateInv, [Next]_vars
             PROVE  GateInv'
  OBVIOUS
<1>1. CASE UNCHANGED vars
  <2>0. TypeOK /\ GateTypeOK /\ Lifecycle /\ Seeding /\ Checked /\ Codes
    BY DEF GateInv, TypeOK
  <2>1. TypeOK' /\ Lifecycle'
    BY <2>0, <1>1 DEF vars, gateVars, TypeOK, GateTypeOK, Lifecycle
  <2>2. Seeding'
    BY <2>0, <1>1 DEF vars, gateVars, Seeding, Scoped, Seeded
  <2>3. Checked'
    BY <2>0, <1>1 DEF vars, gateVars, Checked, Scoped, PolicyProven,
                      Reproduces, Visible, Owned, Admits
  <2>4. Codes'
    BY <2>0, <1>1 DEF vars, gateVars, Codes, CodeSays
  <2> QED
    BY <2>1, <2>2, <2>3, <2>4 DEF GateInv
<1>2. CASE (GateStep \/ ProvenReturns \/ Interrupted) /\ UNCHANGED <<verdicts, report, exit>>
  <2>1. Command
    BY <1>2 DEF Command
  <2> QED
    BY <1>2, <2>1, ConnectInv, CreateProbeInv, OpenProbeInv, SeedRelationInv,
       SeedDoneInv, CreateRestrictedRoleInv, EnableRLSInv, CheckA2Inv, CheckA3Inv,
       OpenRestrictedInv, CheckTableInv, JudgeInv, DatabaseErrorInv, DropRoleInv,
       DropProbeInv, ProvenReturnsInv, InterruptedInv
       DEF GateStep
<1>3. CASE \E q \in Queries : Replay(q)
  BY <1>3, ReplayInv
<1> QED
  BY <1>1, <1>2, <1>3, UsageErrorInv, AbortInv, WriteInv DEF Next

-----------------------------------------------------------------------------
(* What follows from it. *)

\* GateInv holds in every state of the command.
THEOREM GateInductive == Spec => []GateInv
  BY InitInv, StepInv, PTL DEF Spec

\* Every variable of the gate and of the command has its type.
THEOREM GateTypeCorrect == Spec => []TypeOK
<1>1. GateInv => TypeOK
  BY DEF GateInv
<1> QED
  BY <1>1, GateInductive, PTL

\* While a query is judged, no relation it can be attributed to shows a tenant
\* another tenant's row, canary A's own aside; what it hides of a tenant's own,
\* the target's restrictive policies hide; it has a row to leak, and every
\* declared relation has row-level security (runOracleGate, onProven).
THEOREM OracleIsSound == Spec => []JudgedByASoundOracle
<1>1. GateInv => JudgedByASoundOracle
  <2> SUFFICES ASSUME GateInv, pc = "proven"
               PROVE  JudgedByASoundOracle
    BY DEF JudgedByASoundOracle
  <2>0. TypeOK /\ Lifecycle /\ Seeding /\ Checked /\ Codes /\ GateTypeOK
    BY DEF GateInv, TypeOK
  <2>1. Scoped \subseteq rls /\ Scoped \subseteq tableProof /\ PolicyProven
    BY <2>0 DEF Seeding, Checked, Checking
  <2>2. RowLevel # {}
    <3>1. proof["A1"] = "passed"
      BY <2>1 DEF PolicyProven, Checks
    <3>2. PICK r \in tableProof : seed[r] # "skipped"
      BY <2>0, <3>1 DEF Checked
    <3>3. r \in Scoped /\ r \in Seeded
      BY <2>0, <3>2 DEF Checked, Seeding, Checking
    <3> QED
      BY <2>0, <3>2, <3>3 DEF RowLevel, Seeded, GateTypeOK
  <2>3. ASSUME NEW r \in RowLevel
        PROVE  /\ \A t \in Tenants :
                    /\ Visible(r, t) \subseteq Owned(r, t) \cup Owned(r, CanaryA)
                    /\ Owned(r, t) \ Visible(r, t) \subseteq target[r].hides
               /\ Owned(r, CanaryA) \cap target[r].hides = {}
               /\ Owned(r, CanaryB) # {}
    <3>1. /\ r \in Relations /\ r \in rls /\ r \in tableProof
          /\ seed[r] \in {"sampled", "fixture"}
      BY <2>0, <2>1, ScopedRelations DEF RowLevel, GateTypeOK
    <3>2. {CanaryRow(CanaryA), CanaryRow(CanaryB)} \subseteq rows[r]
      BY <2>0, <3>1 DEF Seeding
    <3>3. Reproduces(r)
      <4>1. proof["A4"] = "passed"
        BY <2>1 DEF PolicyProven, Checks
      <4> QED
        BY <2>0, <3>1, <4>1 DEF Checked, Checking
    <3>4. CanaryRow(CanaryB).tenant = CanaryB
      BY DEF CanaryRow
    <3>5. Owned(r, CanaryB) # {}
      BY <3>2, <3>4 DEF Owned
    <3> QED
      BY <3>1, <3>3, <3>5, OneCanaryIsEnough
  <2> QED
    BY <2>1, <2>2, <2>3 DEF JudgedByASoundOracle
<1> QED
  BY <1>1, GateInductive, PTL

\* An error code means that nothing was reported or replayed, and a code of 10
\* to 13 names the first check that failed (exitCodeFor).
THEOREM CodesAreTrue == Spec => []AbortsSayWhy
<1>1. GateInv => AbortsSayWhy
  <2> SUFFICES ASSUME GateInv PROVE AbortsSayWhy
    OBVIOUS
  <2>1. code # 0 => report = NoReport /\ verdicts = <<>>
    BY DEF GateInv, Codes
  <2>2. exit \in DOMAIN Before => CodeSays(exit)
    BY DEF GateInv, Codes
  <2> QED
    BY <2>1, <2>2 DEF AbortsSayWhy, CodeSays
<1> QED
  BY <1>1, GateInductive, PTL

\* No path to an exit leaves the probe database in place without having tried
\* to drop it, and queries are replayed only while it and the role exist (the
\* deferred calls of runOracleGate).
THEOREM ProbeGoesAway == Spec => []ProbeIsDropped
<1>1. GateInv => ProbeIsDropped
  BY DEF GateInv, Lifecycle, ProbeIsDropped, Checking
<1> QED
  BY <1>1, GateInductive, PTL

-----------------------------------------------------------------------------
(* The report adds up, and the rate decides over the exit status. *)

\* The unattributable queries of one population.
InPopulation(p) ==
    {i \in DOMAIN verdicts :
        verdicts[i].verdict = "UNATTRIBUTABLE" /\ verdicts[i].population = p}

\* Every unattributable query is in a population; what was reported on is
\* seeded or skipped; the report is of the state it was written in, and the
\* exit status of its rate.
Reporting ==
    /\ \A i \in DOMAIN verdicts :
         verdicts[i].verdict = "UNATTRIBUTABLE" =>
            verdicts[i].population \in Populations
    /\ tableProof \subseteq Seeded
    /\ pc \in {"drop_role", "drop_probe", "returned"} /\ code = 0 =>
         Scoped \subseteq tableProof
    /\ exit = 3 => report # NoReport
    /\ report # NoReport =>
         /\ pc = "exited"
         /\ Scoped \subseteq tableProof
         /\ report = Report
         /\ exit = IF Exceeds(report.rates.rowLevel) THEN 3 ELSE 0

\* The size of a finite set made of two disjoint parts.
LEMMA TwoParts ==
    ASSUME NEW S, IsFiniteSet(S), NEW A \in SUBSET S, NEW B \in SUBSET S,
           A \cap B = {}
    PROVE  /\ Cardinality(A) \in Nat /\ Cardinality(B) \in Nat
           /\ Cardinality(A \cup B) = Cardinality(A) + Cardinality(B)
<1>1. IsFiniteSet(A) /\ IsFiniteSet(B)
  BY FS_Subset
<1>2. Cardinality(A) \in Nat /\ Cardinality(B) \in Nat
  BY <1>1, FS_CardinalityType
<1>3. Cardinality(A \cap B) = 0
  BY FS_EmptySet
<1>4. Cardinality(A \cup B) = Cardinality(A) + Cardinality(B) - Cardinality(A \cap B)
  BY <1>1, FS_Union
<1> QED
  BY <1>2, <1>3, <1>4

\* Every query has one verdict, every unattributable one a population, and
\* only what is safe is vacuous (buildReport's counts).
LEMMA CountsAddUp ==
    ASSUME verdicts \in Seq(Verdict),
           \A i \in DOMAIN verdicts :
             verdicts[i].verdict = "UNATTRIBUTABLE" =>
                verdicts[i].population \in Populations
    PROVE  /\ Counts.safe \in Nat /\ Counts.vacuous \in Nat
           /\ Counts.leak \in Nat /\ Counts.unattributable \in Nat
           /\ \A p \in Populations : Counts.population[p] \in Nat
           /\ Counts.vacuous <= Counts.safe
           /\ Counts.safe + Counts.leak + Counts.unattributable = Len(verdicts)
           /\ Counts.unattributable =
                Counts.population["no_declared_table"]
                + Counts.population["structural_only"]
                + Counts.population["row_level_unattributed"]
                + Counts.population["non_query"]
<1> DEFINE I == DOMAIN verdicts
           S == {i \in I : verdicts[i].verdict = "SAFE"}
           V == {i \in I : verdicts[i].verdict = "SAFE" /\ verdicts[i].vacuous}
           L == {i \in I : verdicts[i].verdict = "LEAK"}
           U == {i \in I : verdicts[i].verdict = "UNATTRIBUTABLE"}
           P1 == InPopulation("no_declared_table")
           P2 == InPopulation("structural_only")
           P3 == InPopulation("row_level_unattributed")
           P4 == InPopulation("non_query")
<1>1. /\ Counts.safe = Cardinality(S)
      /\ Counts.vacuous = Cardinality(V)
      /\ Counts.leak = Cardinality(L)
      /\ Counts.unattributable = Cardinality(U)
  BY DEF Counts, Count, IsSafe, IsVacuous, IsLeak, IsUnattributable
<1>2. \A p \in Populations : Counts.population[p] = Cardinality(InPopulation(p))
  BY DEF Counts, Count, IsUnattributable, InPopulation
<1>3. I = 1..Len(verdicts) /\ Len(verdicts) \in Nat
  <2> HIDE DEF Verdict
  <2> QED
    OBVIOUS
<1>4. IsFiniteSet(I) /\ Cardinality(I) = Len(verdicts)
  BY <1>3, FS_Interval
<1>5. \A i \in I : verdicts[i] \in Verdict
  <2> HIDE DEF Verdict
  <2> QED
    OBVIOUS
<1>6. \A i \in I : verdicts[i].verdict \in {"SAFE", "LEAK", "UNATTRIBUTABLE"}
  BY <1>5 DEF Verdict
<1>7. I = (S \cup L) \cup U
  BY <1>6
<1>8. Cardinality(I) = Cardinality(S) + Cardinality(L) + Cardinality(U)
  <2> HIDE DEF I
  <2>1. S \cap L = {} /\ (S \cup L) \cap U = {}
    OBVIOUS
  <2>2. /\ S \in SUBSET I /\ L \in SUBSET I /\ U \in SUBSET I
        /\ S \cup L \in SUBSET I
    OBVIOUS
  <2> HIDE DEF S, L, U
  <2>3. Cardinality(S \cup L) = Cardinality(S) + Cardinality(L)
    BY <1>4, <2>1, <2>2, TwoParts, ZenonT(60)
  <2>4. Cardinality((S \cup L) \cup U) = Cardinality(S \cup L) + Cardinality(U)
    BY <1>4, <2>1, <2>2, TwoParts, ZenonT(60)
  <2> QED
    BY <1>7, <2>3, <2>4
<1>9. /\ Cardinality(S) \in Nat /\ Cardinality(V) \in Nat
      /\ Cardinality(L) \in Nat /\ Cardinality(U) \in Nat
      /\ \A p \in Populations : Cardinality(InPopulation(p)) \in Nat
  <2>1. ASSUME NEW A \in SUBSET I
        PROVE  Cardinality(A) \in Nat
    BY <1>4, FS_Subset, FS_CardinalityType
  <2>2. S \in SUBSET I /\ V \in SUBSET I /\ L \in SUBSET I /\ U \in SUBSET I
    OBVIOUS
  <2>3. \A p \in Populations : InPopulation(p) \in SUBSET I
    BY DEF InPopulation
  <2> QED
    BY <2>1, <2>2, <2>3
<1>10. Cardinality(V) <= Cardinality(S)
  <2>1. V \in SUBSET S /\ S \in SUBSET I
    OBVIOUS
  <2>2. IsFiniteSet(S)
    BY <1>4, <2>1, FS_Subset
  <2> QED
    BY <2>1, <2>2, FS_Subset
<1>11. Cardinality(U) = Cardinality(P1) + Cardinality(P2)
                          + Cardinality(P3) + Cardinality(P4)
  <2> DEFINE P == (P1 \cup P2) \cup P3
  <2>1. U = P \cup P4
    BY DEF InPopulation, Populations
  <2>2. P1 \in SUBSET I /\ P2 \in SUBSET I /\ P1 \cap P2 = {}
    BY DEF InPopulation
  <2>3. P1 \cup P2 \in SUBSET I /\ P3 \in SUBSET I /\ (P1 \cup P2) \cap P3 = {}
    BY DEF InPopulation
  <2>4. P \in SUBSET I /\ P4 \in SUBSET I /\ P \cap P4 = {}
    BY DEF InPopulation
  <2> HIDE DEF I, U, P1, P2, P3, P4
  <2>5. /\ Cardinality(P1 \cup P2) = Cardinality(P1) + Cardinality(P2)
        /\ Cardinality(P1) \in Nat /\ Cardinality(P2) \in Nat
    BY <1>4, <2>2, TwoParts, ZenonT(60)
  <2>6. /\ Cardinality(P) = Cardinality(P1 \cup P2) + Cardinality(P3)
        /\ Cardinality(P3) \in Nat
    BY <1>4, <2>3, TwoParts, ZenonT(60)
  <2> HIDE DEF P
  <2>7. /\ Cardinality(P \cup P4) = Cardinality(P) + Cardinality(P4)
        /\ Cardinality(P4) \in Nat
    BY <1>4, <2>4, TwoParts, ZenonT(60)
  <2> QED
    BY <2>1, <2>5, <2>6, <2>7
<1>12. {"no_declared_table", "structural_only", "row_level_unattributed", "non_query"}
         \subseteq Populations
  BY DEF Populations
<1> HIDE DEF I, S, V, L, U, P1, P2, P3, P4
<1>13. /\ Counts.population["no_declared_table"] = Cardinality(P1)
       /\ Counts.population["structural_only"] = Cardinality(P2)
       /\ Counts.population["row_level_unattributed"] = Cardinality(P3)
       /\ Counts.population["non_query"] = Cardinality(P4)
  BY <1>2, <1>12 DEF P1, P2, P3, P4
<1> QED
  BY <1>1, <1>2, <1>4, <1>8, <1>9, <1>10, <1>11, <1>13

\* A query replayed joins a population if it is not attributed.
LEMMA JudgementPopulation ==
    ASSUME NEW q \in Queries, NEW j \in Judgements(q), j.verdict = "UNATTRIBUTABLE"
    PROVE  j.population \in Populations
<1>1. Population(q) \in Populations
  BY DEF Population, Populations
<1>2. PICK v \in {"SAFE", "LEAK", "UNATTRIBUTABLE"}, vac \in BOOLEAN :
        j = Judgement(q, v, vac)
  BY DEF Judgements
<1> QED
  BY <1>1, <1>2 DEF Judgement

\* Nothing has been judged or reported on at first.
LEMMA InitReporting == Init => Reporting
  BY DEF Init, GateInit, Reporting, Running

\* Every step keeps the report true.
LEMMA StepReporting ==
    ASSUME GateInv, Reporting, [Next]_vars
    PROVE  Reporting'
<1>0. TypeOK /\ GateTypeOK /\ Lifecycle /\ Seeding /\ Checked /\ Codes
  BY DEF GateInv, TypeOK
<1>1. CASE UNCHANGED vars
  BY <1>1 DEF vars, gateVars, Reporting, Seeded, Scoped, Report, Counts, Count,
              Tables
<1>2. ASSUME pc # "exited", UNCHANGED <<report, exit>>,
             \A i \in DOMAIN verdicts' :
               verdicts'[i].verdict = "UNATTRIBUTABLE" =>
                  verdicts'[i].population \in Populations,
             (tableProof \subseteq Seeded)',
             (pc \in {"drop_role", "drop_probe", "returned"} /\ code = 0 =>
                Scoped \subseteq tableProof)'
      PROVE  Reporting'
  <2>1. report = NoReport /\ exit # 3
    BY <1>0, <1>2 DEF Reporting, Codes
  <2> QED
    BY <1>2, <2>1 DEF Reporting
<1>3. ASSUME NEW q \in Queries, Replay(q)
      PROVE  Reporting'
  <2>1. PICK j \in Judgements(q) : verdicts' = Append(verdicts, j)
    BY <1>3 DEF Replay
  <2>2. \A i \in DOMAIN verdicts' :
           \/ i \in DOMAIN verdicts /\ verdicts'[i] = verdicts[i]
           \/ verdicts'[i] = j
    <3>1. verdicts \in Seq(Verdict)
      BY <1>0 DEF TypeOK
    <3> HIDE DEF Verdict
    <3> QED
      BY <2>1, <3>1
  <2> QED
    BY <1>2, <1>3, <2>1, <2>2, JudgementPopulation
       DEF Replay, gateVars, Reporting, Seeded, Scoped
<1>4. CASE SeedRelation /\ Command
  <2>1. \A r \in Relations : seed'[r] # seed[r] => seed'[r] # "pending"
    BY <1>0, <1>4 DEF SeedRelation, SeedFromSample, SeedFromFixture, GateTypeOK
  <2> QED
    BY <1>0, <1>2, <1>4, <2>1 DEF SeedRelation, Command, Reporting, Seeded, Scoped
<1>5. CASE CheckTable /\ Command
  <2>1. tableProof' \subseteq Seeded
    BY <1>0, <1>5 DEF CheckTable, IsNext, Reporting, Seeding, Checking
  <2> QED
    BY <1>2, <1>5, <2>1 DEF CheckTable, Command, Reporting, Seeded, Scoped
<1>6. CASE Judge /\ Command
  <2>1. ~PolicyProven => ExitCode # 0
    BY DEF ExitCode
  <2> QED
    BY <1>2, <1>6, <2>1 DEF Judge, Return, Command, Reporting, Seeded, Scoped
<1>7. CASE ProvenReturns /\ Command
  <2>1. Scoped \subseteq tableProof
    BY <1>0, <1>7 DEF ProvenReturns, Checked
  <2> QED
    BY <1>2, <1>7, <2>1 DEF ProvenReturns, Return, Command, Reporting, Seeded, Scoped
<1>8. CASE /\ \/ Connect \/ CreateProbe \/ OpenProbe \/ SeedDone
              \/ CreateRestrictedRole \/ EnableRLS \/ CheckA2 \/ CheckA3
              \/ OpenRestricted \/ DatabaseError \/ Interrupted
           /\ Command
  BY <1>2, <1>8
     DEF Connect, CreateProbe, OpenProbe, SeedDone, CreateRestrictedRole,
         EnableRLS, CheckA2, CheckA3, OpenRestricted, DatabaseError, Interrupted,
         Return, Command, Reporting, Seeded, Scoped
<1>9. CASE (DropRole \/ DropProbe) /\ Command
  BY <1>2, <1>9 DEF DropRole, DropProbe, Command, Reporting, Seeded, Scoped
<1>10. CASE UsageError \/ Abort
  <2>1. exit' # 3 /\ report' = NoReport /\ pc' = "exited"
    BY <1>0, <1>10 DEF UsageError, Abort, Exit, Codes, GateTypeOK
  <2> QED
    BY <1>10, <2>1 DEF UsageError, Abort, Exit, Reporting, Seeded
<1>11. CASE Write
  <2>1. report = NoReport /\ ~report.written
    BY <1>0, <1>11 DEF Write, Codes, NoReport
  <2>2. Report.written
    BY DEF Report
  <2>3. Report' = Report
    BY <1>11 DEF Write, Exit, Report, Counts, Count, Tables
  <2>4. report' = NoReport \/ report' = Report
    BY <1>11, <2>1 DEF Write
  <2>5. CASE report' = NoReport
    BY <1>11, <2>1, <2>5 DEF Write, Exit, Reporting, Seeded
  <2>6. CASE report' = Report
    <3>1. exit' = IF Exceeds(report'.rates.rowLevel) THEN 3 ELSE 0
      BY <1>11, <2>2, <2>6 DEF Write, Exit
    <3>2. report' # NoReport
      BY <2>2, <2>6 DEF NoReport
    <3>3. /\ pc' = "exited"
          /\ UNCHANGED <<verdicts, tableProof, seed, policy>>
      BY <1>11 DEF Write, Exit
    <3>4. (tableProof \subseteq Seeded)' /\ (Scoped \subseteq tableProof)'
      BY <1>11, <3>3 DEF Write, Reporting, Seeded, Scoped
    <3> QED
      BY <2>3, <2>6, <3>1, <3>2, <3>3, <3>4 DEF Reporting
  <2> QED
    BY <2>4, <2>5, <2>6
<1> QED
  <2>1. CASE (GateStep \/ ProvenReturns \/ Interrupted) /\ Command
    BY <1>4, <1>5, <1>6, <1>7, <1>8, <1>9, <2>1 DEF GateStep
  <2> QED
    BY <1>1, <1>3, <1>10, <1>11, <2>1 DEF Next, Command

LEMMA ReportingInductive == Spec => []Reporting
<1>1. GateInv /\ Reporting /\ [Next]_vars => Reporting'
  BY StepReporting
<1> QED
  BY <1>1, InitReporting, GateInductive, PTL DEF Spec

\* An unattributable query is counted with the row-level relations exactly when
\* it names one and is a data query.
Sorted ==
    \A i \in DOMAIN verdicts :
        verdicts[i].verdict = "UNATTRIBUTABLE" =>
            (verdicts[i].population = "row_level_unattributed" <=>
               /\ verdicts[i].population # "non_query"
               /\ verdicts[i].tables \cap RowLevel # {})

\* It stays so: the proof depths are settled before the first query is replayed.
LEMMA SortedInductive == Spec => []Sorted
<1>1. Init => Sorted
  BY DEF Init, Sorted
<1>2. GateInv /\ Sorted /\ [Next]_vars => Sorted'
  <2> SUFFICES ASSUME GateInv, Sorted, [Next]_vars
               PROVE  Sorted'
    OBVIOUS
  <2>1. CASE UNCHANGED <<verdicts, policy, seed>>
    BY <2>1 DEF Sorted, RowLevel, Scoped
  <2>2. CASE SeedRelation /\ UNCHANGED verdicts
    <3>1. verdicts = <<>>
      BY <2>2 DEF GateInv, Codes, SeedRelation, Early
    <3> QED
      BY <2>2, <3>1 DEF Sorted
  <2>3. ASSUME NEW q \in Queries, Replay(q)
        PROVE  Sorted'
    <3>1. RowLevel' = RowLevel
      BY <2>3 DEF Replay, gateVars, RowLevel, Scoped
    <3>2. PICK j \in Judgements(q) : verdicts' = Append(verdicts, j)
      BY <2>3 DEF Replay
    <3>3. j.verdict = "UNATTRIBUTABLE" =>
            (j.population = "row_level_unattributed" <=>
               j.population # "non_query" /\ j.tables \cap RowLevel # {})
      <4>1. PICK v \in {"SAFE", "LEAK", "UNATTRIBUTABLE"}, vac \in BOOLEAN :
              j = Judgement(q, v, vac)
        BY <3>2 DEF Judgements
      <4>2. q.nonquery \in BOOLEAN
        BY <2>3, CommandAssumption
      <4>3. Population(q) = "row_level_unattributed" <=>
              Population(q) # "non_query" /\ q.tables \cap RowLevel # {}
        BY <4>2 DEF Population
      <4> QED
        BY <4>1, <4>3 DEF Judgement
    <3>4. verdicts \in Seq(Verdict)
      BY DEF GateInv, TypeOK
    <3>5. \A i \in DOMAIN verdicts' :
             \/ i \in DOMAIN verdicts /\ verdicts'[i] = verdicts[i]
             \/ verdicts'[i] = j
      <4> HIDE DEF Verdict
      <4> QED
        BY <3>2, <3>4
    <3> QED
      BY <3>1, <3>3, <3>5 DEF Sorted
  <2>4. CASE UNCHANGED vars
    BY <2>1, <2>4 DEF vars, gateVars
  <2>5. CASE (GateStep \/ ProvenReturns \/ Interrupted) /\ UNCHANGED <<verdicts, report, exit>>
    BY <2>1, <2>2, <2>5
       DEF GateStep, Connect, CreateProbe, OpenProbe, SeedDone, CreateRestrictedRole,
           EnableRLS, CheckA2, CheckA3, OpenRestricted, CheckTable, Judge,
           DatabaseError, DropRole, DropProbe, ProvenReturns, Interrupted
  <2>6. CASE UsageError \/ Abort \/ Write
    BY <2>1, <2>6 DEF UsageError, Abort, Write, Exit
  <2> QED
    BY <2>3, <2>4, <2>5, <2>6 DEF Next
<1> QED
  BY <1>1, <1>2, GateInductive, PTL DEF Spec

\* The four denominators are nested, and no numerator exceeds its own
\* (unattributableRateBreakdown, of counts that add up).
LEMMA RatesAreNested ==
    ASSUME verdicts \in Seq(Verdict),
           \A i \in DOMAIN verdicts :
             verdicts[i].verdict = "UNATTRIBUTABLE" =>
                verdicts[i].population \in Populations
    PROVE  LET r == Breakdown(Counts, Len(verdicts))
           IN /\ r.rowLevel.denominator <= r.declared.denominator
              /\ r.declared.denominator <= r.app.denominator
              /\ r.app.denominator <= r.all.denominator
              /\ r.rowLevel.unattributable <= r.rowLevel.denominator
              /\ r.rowLevel.unattributable \in Nat
              /\ r.rowLevel.denominator \in Nat
<1> DEFINE c == Counts
           p == c.population
<1>1. /\ c.safe \in Nat /\ c.vacuous \in Nat /\ c.leak \in Nat
      /\ c.unattributable \in Nat /\ c.vacuous <= c.safe
      /\ c.safe + c.leak + c.unattributable = Len(verdicts)
      /\ c.unattributable = p["no_declared_table"] + p["structural_only"]
                            + p["row_level_unattributed"] + p["non_query"]
  BY CountsAddUp
<1>2. /\ p["no_declared_table"] \in Nat /\ p["structural_only"] \in Nat
      /\ p["row_level_unattributed"] \in Nat /\ p["non_query"] \in Nat
  <2>1. \A x \in Populations : p[x] \in Nat
    BY CountsAddUp
  <2> HIDE DEF p
  <2> QED
    BY <2>1 DEF Populations
<1> HIDE DEF c, p
<1>3. Breakdown(c, Len(verdicts)) =
        [all |-> Rate(c.unattributable, Len(verdicts)),
         app |-> Rate(c.unattributable - p["non_query"],
                      Len(verdicts) - p["non_query"]),
         declared |-> Rate(p["structural_only"] + p["row_level_unattributed"],
                           Attributed(c) + p["structural_only"]
                           + p["row_level_unattributed"]),
         rowLevel |-> Rate(p["row_level_unattributed"],
                           Attributed(c) + p["row_level_unattributed"])]
  BY DEF Breakdown, p
<1>4. Attributed(c) = (c.safe - c.vacuous) + c.leak
  BY DEF Attributed
<1>5. LET r == Breakdown(c, Len(verdicts))
      IN /\ r.rowLevel.denominator <= r.declared.denominator
         /\ r.declared.denominator <= r.app.denominator
         /\ r.app.denominator <= r.all.denominator
         /\ r.rowLevel.unattributable <= r.rowLevel.denominator
         /\ r.rowLevel.unattributable \in Nat
         /\ r.rowLevel.denominator \in Nat
  <2> DEFINE undeclared == p["no_declared_table"]
             structural == p["structural_only"]
             unattributed == p["row_level_unattributed"]
             nonquery == p["non_query"]
             attributed == Attributed(c)
             vacuous == c.vacuous
             total == Len(verdicts)
             r == Breakdown(c, total)
  <2>1. /\ undeclared \in Nat /\ structural \in Nat
        /\ unattributed \in Nat /\ nonquery \in Nat
        /\ attributed \in Nat /\ vacuous \in Nat
    BY <1>1, <1>2, <1>4
  <2>2. total = attributed + vacuous + undeclared + structural
                + unattributed + nonquery
    <3>1. attributed + vacuous = c.safe + c.leak
      BY <1>1, <1>4
    <3>2. total = (attributed + vacuous) + c.unattributable
      BY <1>1, <3>1
    <3>3. c.unattributable = undeclared + structural + unattributed + nonquery
      BY <1>1
    <3> HIDE DEF undeclared, structural, unattributed, nonquery, attributed,
                 vacuous, total
    <3> QED
      BY <2>1, <3>2, <3>3
  <2>3. /\ r.all.denominator = total
        /\ r.app.denominator = total - nonquery
        /\ r.declared.denominator = attributed + structural + unattributed
        /\ r.rowLevel.denominator = attributed + unattributed
        /\ r.rowLevel.unattributable = unattributed
    BY <1>3 DEF Rate
  <2> HIDE DEF undeclared, structural, unattributed, nonquery, attributed,
               vacuous, total, r
  <2>4. /\ attributed + unattributed <= attributed + structural + unattributed
        /\ attributed + structural + unattributed <= total - nonquery
        /\ total - nonquery <= total
        /\ unattributed <= attributed + unattributed
        /\ attributed + unattributed \in Nat
    BY <2>1, <2>2
  <2>5. /\ r.rowLevel.denominator <= r.declared.denominator
        /\ r.declared.denominator <= r.app.denominator
        /\ r.app.denominator <= r.all.denominator
        /\ r.rowLevel.unattributable <= r.rowLevel.denominator
        /\ r.rowLevel.unattributable \in Nat
        /\ r.rowLevel.denominator \in Nat
    BY <2>1, <2>3, <2>4
  <2> QED
    BY <2>5 DEF r, total
<1> QED
  BY <1>5 DEF c

\* The share of the row-level relations is a share of the verdicts themselves.
LEMMA ShareOfVerdicts ==
    ASSUME verdicts \in Seq(Verdict), Sorted
    PROVE  /\ Counts.population["row_level_unattributed"] =
                Cardinality(LeftUnattributed)
           /\ (Counts.safe - Counts.vacuous) + Counts.leak
                + Counts.population["row_level_unattributed"] =
                Cardinality(LeftUnattributed \cup JudgedOnRows)
<1> DEFINE I == DOMAIN verdicts
           S == {i \in I : verdicts[i].verdict = "SAFE"}
           V == {i \in I : verdicts[i].verdict = "SAFE" /\ verdicts[i].vacuous}
           N == {i \in I : verdicts[i].verdict = "SAFE" /\ ~verdicts[i].vacuous}
           L == {i \in I : verdicts[i].verdict = "LEAK"}
           U == LeftUnattributed
<1>1. /\ Counts.safe = Cardinality(S)
      /\ Counts.vacuous = Cardinality(V)
      /\ Counts.leak = Cardinality(L)
  BY DEF Counts, Count, IsSafe, IsVacuous, IsLeak
<1>2. Counts.population["row_level_unattributed"] = Cardinality(U)
  <2>1. U = InPopulation("row_level_unattributed")
    BY DEF LeftUnattributed, InPopulation, Sorted
  <2>2. "row_level_unattributed" \in Populations
    BY DEF Populations
  <2>3. \A p \in Populations : Counts.population[p] = Cardinality(InPopulation(p))
    BY DEF Counts, Count, IsUnattributable, InPopulation
  <2> QED
    BY <2>1, <2>2, <2>3
<1>3. IsFiniteSet(I)
  <2>1. I = 1..Len(verdicts) /\ Len(verdicts) \in Nat
    <3> HIDE DEF Verdict
    <3> QED
      OBVIOUS
  <2> QED
    BY <2>1, FS_Interval
<1>4. S = V \cup N /\ JudgedOnRows = N \cup L
  BY DEF JudgedOnRows
<1>5. /\ V \in SUBSET I /\ N \in SUBSET I /\ L \in SUBSET I /\ U \in SUBSET I
      /\ N \cup L \in SUBSET I
  BY DEF LeftUnattributed
<1>6. V \cap N = {} /\ N \cap L = {} /\ U \cap (N \cup L) = {}
  BY DEF LeftUnattributed
<1> HIDE DEF I, S, V, N, L, U
<1>7. /\ Cardinality(S) = Cardinality(V) + Cardinality(N)
      /\ Cardinality(V) \in Nat /\ Cardinality(N) \in Nat
  BY <1>3, <1>4, <1>5, <1>6, TwoParts, ZenonT(60)
<1>8. /\ Cardinality(N \cup L) = Cardinality(N) + Cardinality(L)
      /\ Cardinality(L) \in Nat
  BY <1>3, <1>5, <1>6, TwoParts, ZenonT(60)
<1>9. /\ Cardinality(U \cup (N \cup L)) = Cardinality(U) + Cardinality(N \cup L)
      /\ Cardinality(U) \in Nat
  <2> DEFINE E == N \cup L
  <2>1. E \in SUBSET I /\ U \cap E = {}
    BY <1>5, <1>6
  <2> HIDE DEF E
  <2>2. Cardinality(U \cup E) = Cardinality(U) + Cardinality(E) /\ Cardinality(U) \in Nat
    BY <1>3, <1>5, <2>1, TwoParts, ZenonT(60)
  <2> QED
    BY <2>2 DEF E
<1> QED
  BY <1>1, <1>2, <1>4, <1>7, <1>8, <1>9 DEF U

\* The lists, counts and rates of a report account for every scoped relation
\* and every query replayed, whatever their number (buildReport).
THEOREM ReportIsComplete == Spec => []ReportAddsUp
<1>1. GateInv /\ Reporting => ReportAddsUp
  <2> SUFFICES ASSUME GateInv, Reporting, report.written
               PROVE  ReportAddsUp
    BY DEF ReportAddsUp
  <2>0. TypeOK /\ GateTypeOK /\ Checked
    BY DEF GateInv, TypeOK
  <2>1. report = Report /\ Scoped = tableProof /\ tableProof \subseteq Seeded
    BY <2>0 DEF Reporting, NoReport, Checked
  <2>2. /\ report.rowLevel = Tables({"sampled", "fixture"})
        /\ report.structuralOnly = Tables({"skipped"})
        /\ report.counts = Counts
        /\ report.rates = Breakdown(Counts, Len(verdicts))
    BY <2>1 DEF Report
  <2>3. \A r \in tableProof : seed[r] \in {"sampled", "fixture", "skipped"}
    BY <2>0, <2>1 DEF GateTypeOK, Seeded
  <2>4. /\ report.rowLevel \cup report.structuralOnly = Scoped
        /\ report.rowLevel \cap report.structuralOnly = {}
    BY <2>1, <2>2, <2>3 DEF Tables
  <2>5. verdicts \in Seq(Verdict)
    BY <2>0 DEF TypeOK
  <2>6. \A i \in DOMAIN verdicts :
          verdicts[i].verdict = "UNATTRIBUTABLE" =>
             verdicts[i].population \in Populations
    BY DEF Reporting
  <2>7. LET c == report.counts
            p == c.population
        IN /\ c.safe + c.leak + c.unattributable = Len(verdicts)
           /\ c.unattributable =
                p["no_declared_table"] + p["structural_only"]
                + p["row_level_unattributed"] + p["non_query"]
    BY <2>2, <2>5, <2>6, CountsAddUp
  <2>8. LET r == report.rates
        IN /\ r.rowLevel.denominator <= r.declared.denominator
           /\ r.declared.denominator <= r.app.denominator
           /\ r.app.denominator <= r.all.denominator
           /\ r.rowLevel.unattributable <= r.rowLevel.denominator
    BY <2>2, <2>5, <2>6, RatesAreNested
  <2> QED
    BY <2>4, <2>7, <2>8 DEF ReportAddsUp
<1> QED
  BY <1>1, GateInductive, ReportingInductive, PTL

\* A run whose report is written ends in 3 exactly when the share of queries
\* left unattributed, among those of row-level relations that rest on rows, is
\* above the ceiling, and in 0 otherwise (checkUnattributableCeiling).
THEOREM RateDecides == Spec => []RateFails
<1>1. GateInv /\ Reporting /\ Sorted => RateFails
  <2> SUFFICES ASSUME GateInv, Reporting, Sorted, report # NoReport
               PROVE  RateFails
    BY DEF RateFails, Reporting, NoReport
  <2> DEFINE c == Counts
             n == c.population["row_level_unattributed"]
             rate == report.rates.rowLevel
             u == Cardinality(LeftUnattributed)
             d == Cardinality(LeftUnattributed \cup JudgedOnRows)
  <2>0. verdicts \in Seq(Verdict)
    BY DEF GateInv, TypeOK
  <2>1. \A i \in DOMAIN verdicts :
          verdicts[i].verdict = "UNATTRIBUTABLE" =>
             verdicts[i].population \in Populations
    BY DEF Reporting
  <2>2. /\ report = Report
        /\ exit = IF Exceeds(rate) THEN 3 ELSE 0
    BY DEF Reporting
  <2>3. /\ report.written
        /\ rate = Breakdown(Counts, Len(verdicts)).rowLevel
    BY <2>2 DEF Report
  <2>4. rate = [unattributable |-> n,
                denominator |-> ((c.safe - c.vacuous) + c.leak) + n]
    BY <2>3 DEF Breakdown, Rate, Attributed
  <2>5. n = u /\ ((c.safe - c.vacuous) + c.leak) + n = d
    BY <2>0, ShareOfVerdicts
  <2>6. /\ n \in Nat /\ rate.denominator \in Nat
        /\ n <= rate.denominator
    BY <2>0, <2>1, <2>3, <2>4, RatesAreNested
  <2>7. Ceiling[1] \in Nat /\ Ceiling[2] \in Nat
    BY CommandAssumption
  <2> HIDE DEF c, n, rate, u, d
  <2>8. rate.unattributable = u /\ rate.denominator = d /\ u \in Nat /\ d \in Nat
    BY <2>4, <2>5, <2>6
  <2>9. d = 0 => ~(u * Ceiling[2] > Ceiling[1] * d)
    <3>1. d = 0 => u = 0
      BY <2>4, <2>5, <2>6, <2>8
    <3> QED
      BY <2>7, <3>1
  <2>10. Exceeds(rate) <=> u * Ceiling[2] > Ceiling[1] * d
    BY <2>8, <2>9 DEF Exceeds
  <2> QED
    BY <2>2, <2>3, <2>10 DEF RateFails, u, d
<1> QED
  BY <1>1, GateInductive, ReportingInductive, SortedInductive, PTL
=============================================================================
