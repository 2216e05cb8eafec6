---------------------------- MODULE GuardrailProofs ----------------------------
(***************************************************************************)
(* Theorems about the guardrail and the attribution it shares with the     *)
(* differ, for any statements, arguments, databases, reviews and           *)
(* migrations: what a query that was let through has read and named, and   *)
(* what a trace makes of its parameters.                                   *)
(***************************************************************************)
EXTENDS Guardrail, FiniteSetTheorems, TLAPS

\* The relation an entry of the policy is about.
Rel(p) == [schema |-> p.schema, name |-> p.name]

\* What the policy calls unscoped was a table without a tenant column when it
\* was inferred: a review only makes scoped entries.
UnscopedAsInferred ==
    \A p \in policy :
        p.class = "unscoped" =>
            /\ inferred[Rel(p)] # Absent
            /\ inferred[Rel(p)].kind \in {"table", "partitioned"}
            /\ Candidates(inferred[Rel(p)].columns) = {}

\* The policy has not changed since the query was checked.
LetThrough == pc \in {"checked", "ran"} => ErrorOf(call) = "none"

GuardrailInv == TypeOK /\ UnscopedAsInferred /\ LetThrough

-----------------------------------------------------------------------------
(* The policy. *)

\* A relation is its schema and its name.
LEMMA RelationIsItsName ==
    ASSUME NEW r \in Relations
    PROVE  r = [schema |-> r.schema, name |-> r.name] /\ r.schema \in Nat
  BY GuardrailAssumption

\* Classify of a relation that is listed: an entry with one tenant column if
\* it is scoped, and unscoped only if it is a table without candidates.
LEMMA ClassifiedType ==
    ASSUME NEW d \in DB, NEW r \in Relations, d[r] # Absent, d[r].kind \in Listed
    PROVE  LET p == Classified(r, d[r])
           IN /\ p \in PolicyRelation
              /\ Rel(p) = r
              /\ IF p.class = "scoped" THEN \E c \in Columns : p.columns = {c}
                 ELSE p.columns = {}
              /\ p.class = "unscoped" =>
                   /\ d[r].kind \in {"table", "partitioned"}
                   /\ Candidates(d[r].columns) = {}
<1> DEFINE p == Classified(r, d[r])
           columns == d[r].columns
<1>1. d[r] \in Definition
  BY DEF DB
<1>2. columns \subseteq Columns
  BY <1>1 DEF Definition
<1>3. Candidates(columns) \subseteq Columns /\ IsFiniteSet(Candidates(columns))
  BY <1>2, SchemaAssumption, FS_Subset DEF Candidates
<1>4. Cardinality(Candidates(columns)) = 1 => \E c : Candidates(columns) = {c}
  BY <1>3, FS_Singleton
<1>5. /\ p.schema = r.schema /\ p.name = r.name
      /\ p.class = Classify(d[r].kind, columns)
      /\ p.columns = IF p.class = "scoped" THEN Candidates(columns) ELSE {}
  BY DEF Classified
<1>6. p.class \in Classes
  BY <1>5 DEF Classify, Classes
<1>7. p.class = "scoped" => \E c \in Columns : p.columns = {c}
  <2> HIDE DEF p, columns
  <2> SUFFICES ASSUME p.class = "scoped"
               PROVE  \E c \in Columns : p.columns = {c}
    OBVIOUS
  <2>1. Cardinality(Candidates(columns)) = 1
    BY <1>5 DEF Classify
  <2>2. PICK c : Candidates(columns) = {c}
    BY <1>4, <2>1
  <2> QED
    BY <1>3, <1>5, <2>2
<1>8. p.class = "unscoped" =>
        /\ d[r].kind \in {"table", "partitioned"}
        /\ Candidates(columns) = {}
  BY <1>5 DEF Classify, Listed
<1>9. p \in PolicyRelation
  <2>1. p.columns \in SUBSET Columns
    BY <1>3, <1>5
  <2> QED
    BY <1>5, <1>6, <2>1 DEF PolicyRelation, Classified
<1> QED
  BY <1>5, <1>7, <1>8, <1>9, RelationIsItsName DEF Rel

-----------------------------------------------------------------------------
(* The invariant is inductive. *)

LEMMA InitInv == Init => GuardrailInv
  BY GuardrailAssumption
     DEF Init, GuardrailInv, TypeOK, UnscopedAsInferred, LetThrough, Errors

LEMMA StepInv ==
    ASSUME GuardrailInv, [Next]_vars
    PROVE  GuardrailInv'
<1>0. TypeOK /\ UnscopedAsInferred /\ LetThrough
  BY DEF GuardrailInv
<1> USE DEF Rel
<1>1. CASE UNCHANGED vars
  BY <1>0, <1>1 DEF vars, GuardrailInv, TypeOK, UnscopedAsInferred, LetThrough,
                    ErrorOf
<1>2. CASE InferPolicy
  <2>1. /\ policy' = Infer(db) /\ inferred' = db /\ pc' = "review"
        /\ UNCHANGED <<db, migrated, call, error>>
    BY <1>2 DEF InferPolicy
  <2>2. ASSUME NEW p \in policy'
        PROVE  \E r \in Relations :
                 /\ db[r] # Absent /\ db[r].kind \in Listed
                 /\ p = Classified(r, db[r])
    BY <2>1 DEF Infer
  <2>3. ASSUME NEW p \in policy'
        PROVE  /\ p \in PolicyRelation
               /\ Rel(p) \in Relations
               /\ p = Classified(Rel(p), db[Rel(p)])
               /\ IF p.class = "scoped" THEN \E c \in Columns : p.columns = {c}
                  ELSE p.columns = {}
               /\ p.class = "unscoped" =>
                    /\ db[Rel(p)] # Absent
                    /\ db[Rel(p)].kind \in {"table", "partitioned"}
                    /\ Candidates(db[Rel(p)].columns) = {}
    <3> HIDE DEF Rel
    <3>1. PICK r \in Relations : /\ db[r] # Absent /\ db[r].kind \in Listed
                                 /\ p = Classified(r, db[r])
      BY <2>2
    <3>2. db \in DB
      BY <1>0 DEF TypeOK
    <3> QED
      BY <3>1, <3>2, ClassifiedType
  <2>4. TypeOK'
    <3>1. \A p, q \in policy' : p.schema = q.schema /\ p.name = q.name => p = q
      BY <2>3
    <3> QED
      BY <1>0, <2>1, <2>3, <3>1 DEF TypeOK
  <2>5. UnscopedAsInferred'
    BY <2>1, <2>3 DEF UnscopedAsInferred
  <2> QED
    BY <2>1, <2>4, <2>5 DEF GuardrailInv, LetThrough
<1>3. CASE Review
  <2>1. PICK p \in policy, r \in Relations :
          /\ r.schema = p.schema /\ r.name = p.name
          /\ \E c \in Candidates(inferred[r].columns) :
               policy' = (policy \ {p}) \cup
                         {[p EXCEPT !.class = "scoped", !.columns = {c}]}
    BY <1>3 DEF Review
  <2>2. PICK c \in Candidates(inferred[r].columns) :
          policy' = (policy \ {p}) \cup
                    {[p EXCEPT !.class = "scoped", !.columns = {c}]}
    BY <2>1
  <2> DEFINE n == [p EXCEPT !.class = "scoped", !.columns = {c}]
  <2>3. pc = "review" /\ UNCHANGED <<db, migrated, inferred, pc, call, error>>
    BY <1>3 DEF Review
  <2>4. c \in Columns
    BY SchemaAssumption DEF Candidates
  <2>5. p \in PolicyRelation
    BY <1>0 DEF TypeOK
  <2>6. /\ n \in PolicyRelation
        /\ n.class = "scoped" /\ n.columns = {c}
        /\ n.schema = p.schema /\ n.name = p.name
    BY <2>4, <2>5 DEF PolicyRelation, Classes
  <2> HIDE DEF n
  <2>7. policy' = (policy \ {p}) \cup {n}
    BY <2>2 DEF n
  <2>8. \A q \in policy' : q = n \/ (q \in policy /\ q # p)
    BY <2>7
  <2>9. TypeOK'
    <3>1. policy' \subseteq PolicyRelation
      BY <1>0, <2>6, <2>8 DEF TypeOK
    <3>2. \A q \in policy' : [schema |-> q.schema, name |-> q.name] \in Relations
      BY <1>0, <2>6, <2>8 DEF TypeOK
    <3>3. \A q \in policy' :
            IF q.class = "scoped" THEN \E k \in Columns : q.columns = {k}
            ELSE q.columns = {}
      BY <1>0, <2>4, <2>6, <2>8 DEF TypeOK
    <3>4. \A q1, q2 \in policy' :
            q1.schema = q2.schema /\ q1.name = q2.name => q1 = q2
      <4>1. \A q1, q2 \in policy :
              q1.schema = q2.schema /\ q1.name = q2.name => q1 = q2
        BY <1>0 DEF TypeOK
      <4> QED
        BY <2>1, <2>6, <2>8, <4>1
    <3> QED
      BY <1>0, <2>3, <3>1, <3>2, <3>3, <3>4 DEF TypeOK
  <2>10. UnscopedAsInferred'
    BY <1>0, <2>3, <2>6, <2>8 DEF UnscopedAsInferred
  <2> QED
    BY <2>3, <2>9, <2>10 DEF GuardrailInv, LetThrough
<1>4. CASE Wrap
  BY <1>0, <1>4 DEF Wrap, GuardrailInv, TypeOK, UnscopedAsInferred, LetThrough
<1>5. CASE Migrate
  <2>1. PICK m \in Migrations : db' = [db EXCEPT ![m[1]] = m[2]]
    BY <1>5 DEF Migrate
  <2>2. db' \in DB
    BY <1>0, <2>1, GuardrailAssumption DEF TypeOK, DB
  <2>3. migrated' \in 0..MaxMigrations
    BY <1>0, <1>5, GuardrailAssumption DEF Migrate, TypeOK
  <2>4. UNCHANGED <<policy, inferred, pc, call, error>>
    BY <1>5 DEF Migrate
  <2>5. ErrorOf(call)' = ErrorOf(call)
    BY <2>4 DEF ErrorOf
  <2> QED
    BY <1>0, <2>2, <2>3, <2>4, <2>5
       DEF GuardrailInv, TypeOK, UnscopedAsInferred, LetThrough
<1>6. ASSUME NEW s \in Statements, NEW args \in Arguments, NEW tenant \in Contexts,
             Call(s, args, tenant)
      PROVE  GuardrailInv'
  BY <1>0, <1>6 DEF Call, GuardrailInv, TypeOK, UnscopedAsInferred, LetThrough
<1>7. CASE Check
  <2>1. ErrorOf(call) \in Errors
    BY DEF ErrorOf, Errors
  <2>2. ErrorOf(call)' = ErrorOf(call)
    BY <1>7 DEF Check, ErrorOf
  <2> QED
    BY <1>0, <1>7, <2>1, <2>2
       DEF Check, GuardrailInv, TypeOK, UnscopedAsInferred, LetThrough
<1>8. CASE Run
  <2>1. ErrorOf(call)' = ErrorOf(call)
    BY <1>8 DEF Run, ErrorOf
  <2> QED
    BY <1>0, <1>8, <2>1 DEF Run, GuardrailInv, TypeOK, UnscopedAsInferred, LetThrough
<1>9. CASE Return
  BY <1>0, <1>9
     DEF Return, GuardrailInv, TypeOK, UnscopedAsInferred, LetThrough, Errors
<1> QED
  BY <1>1, <1>2, <1>3, <1>4, <1>5, <1>6, <1>7, <1>8, <1>9 DEF Next

LEMMA Inductive == Spec => []GuardrailInv
  BY InitInv, StepInv, PTL DEF Spec

-----------------------------------------------------------------------------
(* Attribution. *)

\* A right-hand side is unattributable, no predicate, or a parameter's text.
LEMMA ReadingForm ==
    ASSUME NEW rhs, NEW params
    PROVE  /\ Reading(rhs, params) \in
                {Unattributable, NoPredicate, Resolved(params[rhs.index].text)}
           /\ rhs.kind = "param" =>
                Reading(rhs, params) \in
                    {Unattributable, Resolved(params[rhs.index].text)}
  BY DEF Reading

\* An attribution to a tenant is that tenant.
LEMMA ExtractForm ==
    ASSUME NEW q, NEW rels, NEW params
    PROVE  LET e == ExtractTenant(q, rels, params)
           IN e.kind = "resolved" => e = Resolved(e.value)
<1> DEFINE scoped == ScopedNamed(rels, q.names \cup q.aliases)
           found == {c \in q.compares :
                       \E r \in scoped : \E col \in r.columns : Finds(c.column, col)}
           values == {a \in {Reading(c.rhs, params) : c \in found} :
                        a.kind = "resolved"}
<1>1. \A rhs : Reading(rhs, params).kind = "resolved" =>
                 Reading(rhs, params) = Resolved(Reading(rhs, params).value)
  BY ReadingForm DEF Unattributable, NoPredicate, Resolved
<1>2. Unattributable.kind # "resolved" /\ NoPredicate.kind # "resolved"
  BY DEF Unattributable, NoPredicate
<1>3. \A a \in values : a = Resolved(a.value)
  BY <1>1
<1>4. values # {} => (CHOOSE a \in values : TRUE) \in values
  OBVIOUS
<1>5. FromComparisons(q, rels, params) \in
         {Unattributable, NoPredicate, CHOOSE a \in values : TRUE}
      /\ (values = {} => FromComparisons(q, rels, params) \in
                             {Unattributable, NoPredicate})
  BY DEF FromComparisons
<1>6. \/ FromInsert(q, rels, params) = Unattributable
      \/ \E rhs : FromInsert(q, rels, params) = Reading(rhs, params)
  BY DEF FromInsert
<1> HIDE DEF values
<1> QED
  BY <1>1, <1>2, <1>3, <1>4, <1>5, <1>6 DEF ExtractTenant

\* A query that is let through has a tenant in its context, no name nobody
\* could classify, and names either no scoped relation or that tenant.
LEMMA CheckedMeans ==
    ASSUME GuardrailInv, Ran
    PROVE  /\ call.statement \in Statements /\ call.args \in Arguments
           /\ call.tenant # EmptyText
           /\ ~Blocked(call.statement.text, policy)
           /\ \/ ~AnyScoped(call.statement.text, policy)
              \/ ExtractTenant(call.statement.text, policy, Params)
                   = Resolved(call.tenant)
<1> DEFINE q == call.statement.text
           e == ExtractTenant(q, policy, Params)
           r == CheckTenant(q, policy, Params, call.tenant)
<1>1. call \in [statement : Statements, args : Arguments, tenant : Contexts]
  BY DEF GuardrailInv, TypeOK, Ran
<1>2. ErrorOf(call) = "none"
  BY DEF GuardrailInv, LetThrough, Ran
<1>3. call.tenant # EmptyText /\ r.verdict = "SAFE"
  BY <1>2 DEF ErrorOf, Params
<1>4. ~Blocked(q, policy)
  BY <1>3 DEF CheckTenant, Result
<1>5. AnyScoped(q, policy) =>
        /\ e.kind # "unattributable" /\ e.kind # "no_predicate"
        /\ e.value = call.tenant
  BY <1>3, <1>4 DEF CheckTenant, Result
<1>6. e.kind \in {"unattributable", "no_predicate", "resolved"}
  <2>1. \A rhs, params :
           Reading(rhs, params).kind \in {"unattributable", "no_predicate", "resolved"}
    BY ReadingForm DEF Unattributable, NoPredicate, Resolved
  <2>2. /\ Unattributable.kind = "unattributable"
        /\ NoPredicate.kind = "no_predicate"
    BY DEF Unattributable, NoPredicate
  <2>3. \/ FromInsert(q, policy, Params) = Unattributable
        \/ \E rhs : FromInsert(q, policy, Params) = Reading(rhs, Params)
    BY DEF FromInsert
  <2>4. \/ FromComparisons(q, policy, Params) \in {Unattributable, NoPredicate}
        \/ FromComparisons(q, policy, Params).kind = "resolved"
    BY DEF FromComparisons
  <2> QED
    BY <2>1, <2>2, <2>3, <2>4 DEF ExtractTenant
<1>7. e.kind = "resolved" => e = Resolved(e.value)
  BY ExtractForm
<1> QED
  BY <1>1, <1>3, <1>4, <1>5, <1>6, <1>7

\* The policy has at most one entry for a name it knows no other relation by.
LEMMA OneEntry ==
    ASSUME GuardrailInv, NEW r \in Relations, Unshadowed(r),
           NEW p \in ByName(policy, r.name)
    PROVE  /\ p \in policy /\ Rel(p) = r
           /\ \A o \in ByName(policy, r.name) : o = p
<1>1. \A o \in ByName(policy, r.name) :
        o \in policy /\ o.name = r.name /\ o.schema = r.schema
  BY DEF ByName, Unshadowed
<1>2. \A o \in policy : o.schema = p.schema /\ o.name = p.name => o = p
  BY <1>1 DEF GuardrailInv, TypeOK
<1>3. r = [schema |-> r.schema, name |-> r.name]
  BY RelationIsItsName
<1> QED
  BY <1>1, <1>2, <1>3 DEF Rel

\* A relation in plain sight of a query that is let through without a tenant
\* is in the policy, as one without a tenant column.
LEMMA SeenIsUnscoped ==
    ASSUME GuardrailInv, NEW q, NEW r \in Relations, Unshadowed(r),
           r.name \in q.names \ q.ctes,
           ~Blocked(q, policy), ~AnyScoped(q, policy)
    PROVE  \E p \in ByName(policy, r.name) : p.class = "unscoped"
<1>1. ByName(policy, r.name) # {}
  BY DEF Blocked
<1>2. PICK p : p \in ByName(policy, r.name)
  BY <1>1
<1>3. /\ p \in policy /\ Rel(p) = r
      /\ \A o \in ByName(policy, r.name) : o = p
  BY <1>2, OneEntry
<1>4. p.schema \in Nat
  BY <1>3, RelationIsItsName DEF Rel
<1>5. LastOf(ByName(policy, r.name)) = p
  <2>1. \A s \in ByName(policy, r.name) : p.schema >= s.schema
    BY <1>3, <1>4
  <2> QED
    BY <1>2, <1>3, <2>1 DEF LastOf
<1>6. p.class # "unclassifiable" /\ p.class # "scoped"
  BY <1>1, <1>5 DEF Blocked, AnyScoped
<1>7. p.class \in Classes
  BY <1>3 DEF GuardrailInv, TypeOK, PolicyRelation
<1> QED
  BY <1>2, <1>6, <1>7 DEF Classes

-----------------------------------------------------------------------------
(* What a query that ran has read and named. *)

\* Every variable of the guardrail has its type, and the policy never has two
\* entries for a relation nor a scoped one without its column, whatever
\* database it was inferred from and whatever was reviewed (Infer, WriteYAML).
THEOREM GuardrailTypeCorrect == Spec => []TypeOK
<1>1. GuardrailInv => TypeOK
  BY DEF GuardrailInv
<1> QED
  BY <1>1, Inductive, PTL

\* A query that ran has read no tenant's rows unless it names the tenant of its
\* context (DB.check), on every database that still is, where the query reads,
\* as it was inferred; views and functions included.
THEOREM ReadsAreClaimed == Spec => []TenantedRowsAreClaimed
<1>1. GuardrailInv => TenantedRowsAreClaimed
  <2> SUFFICES ASSUME GuardrailInv, Ran, InPlainSight(call.statement),
                      \A r \in call.statement.reads : UpToDate(r) /\ Unshadowed(r)
               PROVE  \/ \A r \in Reached(call.statement.reads) : ~Tenanted(r)
                      \/ /\ call.tenant # EmptyText
                         /\ ExtractTenant(call.statement.text, policy, Params)
                              = Resolved(call.tenant)
    BY DEF TenantedRowsAreClaimed
  <2> DEFINE s == call.statement
  <2>1. s \in Statements /\ call.tenant # EmptyText /\ ~Blocked(s.text, policy)
    BY CheckedMeans
  <2>2. s.reads \in SUBSET Relations
    BY <2>1, GuardrailAssumption
  <2>3. SUFFICES ASSUME ~AnyScoped(s.text, policy)
                 PROVE  \A r \in Reached(s.reads) : ~Tenanted(r)
    BY CheckedMeans
  <2>4. ASSUME NEW r \in s.reads
        PROVE  ~Tenanted(r) /\ (db[r] # Absent => db[r].over = {})
    <3>1. r \in Relations /\ UpToDate(r) /\ Unshadowed(r)
      BY <2>2
    <3>2. r.name \in s.text.names \ s.text.ctes
      BY DEF InPlainSight
    <3>3. PICK p \in ByName(policy, r.name) : p.class = "unscoped"
      BY <2>1, <2>3, <3>1, <3>2, SeenIsUnscoped
    <3>4. p \in policy /\ Rel(p) = r
      BY <3>1, OneEntry
    <3>5. /\ inferred[r].kind \in {"table", "partitioned"}
          /\ inferred[r] # Absent
          /\ Candidates(inferred[r].columns) = {}
      BY <3>3, <3>4 DEF GuardrailInv, UnscopedAsInferred
    <3>6. db[r] = inferred[r]
      BY <3>1 DEF UpToDate
    <3>7. db[r] \in Definition
      BY <3>1, <3>5, <3>6 DEF GuardrailInv, TypeOK, DB
    <3>8. db[r].over = {}
      BY <3>5, <3>6, <3>7 DEF Definition
    <3> QED
      BY <3>5, <3>6, <3>8 DEF Tenanted
  <2>5. Reached(s.reads) \subseteq s.reads
    <3> HIDE DEF s
    <3>1. \A t \in s.reads : db[t] # Absent => db[t].over \subseteq s.reads
      BY <2>4
    <3> QED
      BY <2>2, <3>1 DEF Reached
  <2> QED
    BY <2>4, <2>5
<1> QED
  BY <1>1, Inductive, PTL

\* FromComparisons gives a tenant only if every comparison it finds does, and
\* the same.
LEMMA ComparisonsAgree ==
    ASSUME NEW q, NEW rels, NEW params, NEW v,
           FromComparisons(q, rels, params) = Resolved(v),
           NEW p \in ScopedNamed(rels, q.names \cup q.aliases),
           NEW c \in q.compares, c.column \in p.columns, c.rhs.kind = "param"
    PROVE  params[c.rhs.index].text = v
<1> DEFINE scoped == ScopedNamed(rels, q.names \cup q.aliases)
           found == {d \in q.compares :
                       \E r \in scoped : \E col \in r.columns : Finds(d.column, col)}
           readings == {Reading(d.rhs, params) : d \in found}
           values == {a \in readings : a.kind = "resolved"}
<1>1. /\ Resolved(v).kind = "resolved" /\ Resolved(v).value = v
      /\ Unattributable.kind # "resolved" /\ NoPredicate.kind # "resolved"
  BY DEF Resolved, Unattributable, NoPredicate
<1>2. /\ Unattributable \notin readings
      /\ ~ \E a, b \in values : a # b
      /\ values # {}
      /\ Resolved(v) = CHOOSE a \in values : TRUE
  BY <1>1 DEF FromComparisons
<1>3. Reading(c.rhs, params) \in readings
  BY DEF Finds
<1>4. Reading(c.rhs, params) = Resolved(params[c.rhs.index].text)
  BY <1>2, <1>3, ReadingForm
<1>5. Reading(c.rhs, params) \in values
  <2>1. Reading(c.rhs, params).kind = "resolved"
    BY <1>4 DEF Resolved
  <2> HIDE DEF readings
  <2> QED
    BY <1>3, <2>1
<1>6. Reading(c.rhs, params) = Resolved(v)
  <2> HIDE DEF values
  <2> QED
    BY <1>2, <1>5
<1> QED
  BY <1>4, <1>6 DEF Resolved

\* FromComparisons gives no tenant to a statement without comparisons.
LEMMA NothingCompared ==
    ASSUME NEW q, NEW rels, NEW params, NEW v, q.compares = {}
    PROVE  FromComparisons(q, rels, params) # Resolved(v)
<1>1. FromComparisons(q, rels, params) \in {Unattributable, NoPredicate}
  BY DEF FromComparisons
<1> QED
  BY <1>1 DEF Unattributable, NoPredicate, Resolved

\* A query that ran gives no tenant column of the relations it accesses, in a
\* comparison or in a row it inserts, another tenant than its context's
\* (ErrWrongTenant), however many it joins and whatever the policy.
THEOREM NamesItsTenant == Spec => []NoOtherTenantIsNamed
<1>1. GuardrailInv => NoOtherTenantIsNamed
  <2> SUFFICES ASSUME GuardrailInv, Ran, InPlainSight(call.statement),
                      SaysOnce(call.statement),
                      \A r \in call.statement.reads : Unshadowed(r)
               PROVE  Named(call.statement) \subseteq {call.tenant}
    BY DEF NoOtherTenantIsNamed
  <2> DEFINE s == call.statement
             q == s.text
             v == call.tenant
  <2>1. s \in Statements /\ ~Blocked(q, policy)
    BY CheckedMeans
  <2>2. /\ s.reads \in SUBSET Relations /\ q \in Statement
        /\ \A i, j \in q.inserts : i = j
    BY <2>1, GuardrailAssumption
  <2>3. ASSUME NEW rels \in SUBSET s.reads, NEW col \in TenantColumns(rels)
        PROVE  \E p \in policy : /\ Rel(p) \in rels
                                 /\ p \in ByName(policy, Rel(p).name)
                                 /\ p.class = "scoped" /\ p.columns = {col}
    <3>1. PICK p \in policy : Rel(p) \in rels /\ col \in p.columns
      BY DEF TenantColumns, Rel
    <3>2. IF p.class = "scoped" THEN \E c \in Columns : p.columns = {c}
          ELSE p.columns = {}
      BY DEF GuardrailInv, TypeOK
    <3> QED
      BY <3>1, <3>2 DEF Rel, ByName
  <2> HIDE DEF s
  <2>4. CASE ~AnyScoped(q, policy)
    <3>1. ASSUME NEW rels \in SUBSET s.reads
          PROVE  TenantColumns(rels) = {}
      <4> SUFFICES ASSUME NEW col \in TenantColumns(rels) PROVE FALSE
        OBVIOUS
      <4>1. PICK p \in policy : /\ Rel(p) \in rels
                                /\ p \in ByName(policy, Rel(p).name)
                                /\ p.class = "scoped"
        BY <2>3
      <4>2. /\ Rel(p) \in Relations /\ Unshadowed(Rel(p))
            /\ Rel(p).name \in q.names \ q.ctes
        BY <2>2, <4>1 DEF InPlainSight, s
      <4>3. PICK o \in ByName(policy, Rel(p).name) : o.class = "unscoped"
        BY <2>1, <2>4, <4>2, SeenIsUnscoped
      <4> QED
        BY <4>1, <4>2, <4>3, OneEntry
    <3>2. Compared(s) = {}
      BY <3>1 DEF Compared
    <3>3. Inserted(s) = {}
      <4> DEFINE into == {r \in s.reads : \E ins \in q.inserts : r.name = ins.into}
      <4>1. TenantColumns(into) = {}
        BY <3>1
      <4> SUFFICES ASSUME NEW x \in Inserted(s) PROVE FALSE
        OBVIOUS
      <4>2. \E col \in TenantColumns(into) : TRUE
        BY DEF Inserted
      <4> QED
        BY <4>1, <4>2
    <3> QED
      BY <3>2, <3>3 DEF Named, s
  <2>5. CASE ExtractTenant(q, policy, Params) = Resolved(v)
    <3>0. Resolved(v) # Unattributable
      BY DEF Resolved, Unattributable
    <3>1. ASSUME NEW x \in Compared(s), x.kind = "param"
          PROVE  Params[x.index].text = v
      <4>1. PICK c \in q.compares : c.rhs = x /\ c.column \in TenantColumns(s.reads)
        BY <3>1 DEF Compared
      <4>2. PICK p \in policy : /\ Rel(p) \in s.reads
                                /\ p.class = "scoped" /\ p.columns = {c.column}
        BY <2>3, <4>1
      <4>3. p \in ScopedNamed(policy, q.names \cup q.aliases)
        BY <4>2 DEF ScopedNamed, InPlainSight, Rel, s
      <4>4. q.inserts = {}
        BY <4>1 DEF SaysOnce, s
      <4>5. FromComparisons(q, policy, Params) = Resolved(v)
        BY <2>5, <3>0, <4>4 DEF ExtractTenant, ReadsInsert
      <4>6. c.column \in p.columns /\ c.rhs.kind = "param"
        BY <3>1, <4>1, <4>2
      <4>7. Params[c.rhs.index].text = v
        BY <4>1, <4>3, <4>5, <4>6, ComparisonsAgree
      <4> QED
        BY <4>1, <4>7
    <3>2. ASSUME NEW x \in Inserted(s), x.kind = "param"
          PROVE  Params[x.index].text = v
      <4> DEFINE into == {r \in s.reads : \E ins \in q.inserts : r.name = ins.into}
      <4>1. PICK row \in UNION {Range(ins.values) : ins \in q.inserts},
                 col \in TenantColumns(into) : x = row[col]
        BY DEF Inserted
      <4>2. PICK ins \in q.inserts : row \in Range(ins.values)
        BY <4>1
      <4>3. PICK p \in policy : /\ Rel(p) \in into
                                /\ p \in ByName(policy, Rel(p).name)
                                /\ p.class = "scoped" /\ p.columns = {col}
        BY <2>3
      <4>4. Rel(p) \in s.reads /\ p.name = ins.into
        BY <2>2, <4>2, <4>3 DEF Rel
      <4>5. Len(ins.values) = 1 /\ q.compares = {}
        BY <4>2 DEF SaysOnce, s
      <4>6. ins.values \in Seq([Columns -> Rhs])
        <5>1. ins \in Insert
          BY <2>2, <4>2 DEF Statement
        <5> QED
          BY <5>1 DEF Insert
      <4>7. row = ins.values[1]
        <5>1. DOMAIN ins.values = {1}
          BY <4>5, <4>6
        <5> QED
          BY <4>2, <5>1 DEF Range
      <4>8. p \in ScopedNamed(policy, {ins.into})
        BY <4>3, <4>4 DEF ScopedNamed
      <4>9. /\ \A o \in ScopedNamed(policy, {ins.into}) : o = p
            /\ p.schema \in Nat
        <5>1. Rel(p) \in Relations /\ Unshadowed(Rel(p)) /\ Rel(p).name = ins.into
          BY <2>2, <4>4 DEF Rel, s
        <5>2. \A o \in ScopedNamed(policy, {ins.into}) : o \in ByName(policy, Rel(p).name)
          BY <5>1 DEF ScopedNamed, ByName
        <5>3. Rel(p).schema \in Nat
          BY <5>1, RelationIsItsName
        <5> QED
          BY <4>3, <5>1, <5>2, <5>3, OneEntry DEF Rel
      <4>10. FirstOf(ScopedNamed(policy, {ins.into})) = p
        <5>1. \A o \in ScopedNamed(policy, {ins.into}) : p.schema <= o.schema
          BY <4>9
        <5> QED
          BY <4>8, <4>9, <5>1 DEF FirstOf
      <4>11. (CHOOSE i \in q.inserts : TRUE) = ins
        BY <2>2, <4>2
      <4>12. (CHOOSE c \in p.columns : TRUE) = col
        BY <4>3
      <4>13. FromInsert(q, policy, Params) = Resolved(v)
        BY <2>5, <3>0, <4>5, NothingCompared DEF ExtractTenant
      <4>14. Reading(x, Params) = Resolved(v)
        BY <3>0, <4>1, <4>7, <4>10, <4>11, <4>12, <4>13 DEF FromInsert
      <4>15. Reading(x, Params) = Resolved(Params[x.index].text)
        BY <3>0, <3>2, <4>14, ReadingForm
      <4> QED
        BY <4>14, <4>15 DEF Resolved
    <3> QED
      BY <3>1, <3>2 DEF Named, s
  <2> QED
    BY <2>4, <2>5, CheckedMeans DEF s
<1> QED
  BY <1>1, Inductive, PTL

-----------------------------------------------------------------------------
(* The trace, and the audit of it. *)

\* An attribution depends on the texts of the parameters, and on no other
\* part of them once they are decoded.
LEMMA TextsDecide ==
    ASSUME NEW q, NEW rels, NEW params, NEW others,
           DOMAIN params = DOMAIN others,
           \A i \in DOMAIN params : params[i].text = others[i].text,
           ~Undecoded(params), ~Undecoded(others)
    PROVE  ExtractTenant(q, rels, params) = ExtractTenant(q, rels, others)
<1>1. \A rhs : Reading(rhs, params) = Reading(rhs, others)
  BY DEF Reading
<1>2. \A C : {Reading(c.rhs, params) : c \in C} = {Reading(c.rhs, others) : c \in C}
  BY <1>1
<1>3. FromComparisons(q, rels, params) = FromComparisons(q, rels, others)
  BY <1>2 DEF FromComparisons
<1>4. FromInsert(q, rels, params) = FromInsert(q, rels, others)
  BY <1>1 DEF FromInsert
<1> QED
  BY <1>3, <1>4 DEF ExtractTenant

\* A captured value read back: its text as JSON has it, if it was known.
LEMMA ReadBackText ==
    ASSUME NEW null \in BOOLEAN, NEW text \in Texts, NEW format \in Formats
    PROVE  LET p == CapturedParam(null, text, format)
               r == ReadBack(p)
           IN /\ r.null = null
              /\ r.known = (null \/ format # "undescribed")
              /\ r.text = IF ~null /\ format # "undescribed" THEN Utf8[text]
                          ELSE EmptyText
              /\ KeepsWhatIsKnown(p)
<1>1. CASE null
  BY <1>1 DEF CapturedParam, ReadBack, EmitParam, DecodeParam, KeepsWhatIsKnown
<1>2. CASE ~null /\ format = "undescribed"
  BY <1>2 DEF CapturedParam, ReadBack, EmitParam, DecodeParam, KeepsWhatIsKnown
<1>3. CASE ~null /\ format # "undescribed"
  BY <1>3 DEF CapturedParam, ReadBack, EmitParam, DecodeParam, KeepsWhatIsKnown
<1> QED
  BY <1>1, <1>2, <1>3

\* The arguments of a call under way.
LEMMA ArgumentTypes ==
    ASSUME GuardrailInv, Asked
    PROVE  /\ call.args \in Seq(Argument)
           /\ \A i \in DOMAIN call.args :
                /\ call.args[i].kind \in {"plain", "printed", "nil"}
                /\ call.args[i].text \in Texts
<1>1. call.args \in Seq(Argument)
  BY GuardrailAssumption DEF GuardrailInv, TypeOK, Asked
<1>2. \A i \in DOMAIN call.args : call.args[i] \in Argument
  <2> HIDE DEF Argument
  <2> QED
    BY <1>1
<1> QED
  BY <1>1, <1>2 DEF Argument, Asked, Fails

\* What is read of an INSERT is decided by the column of its relation.
LEMMA ColumnsDecide ==
    ASSUME NEW q, NEW params, NEW rels, NEW others,
           LET into == (CHOOSE ins \in q.inserts : TRUE).into
           IN ScopedNamed(rels, {into}) = ScopedNamed(others, {into})
    PROVE  FromInsert(q, rels, params) = FromInsert(q, others, params)
<1> DEFINE ins == CHOOSE ins \in q.inserts : TRUE
           Cols(s) == FirstOf(ScopedNamed(s, {ins.into})).columns
           One(C) == CHOOSE c \in C : TRUE
           Read(s) == IF ins.list = "short" THEN Unattributable
                      ELSE Reading(ins.values[1][One(Cols(s))], params)
<1>1. Cols(rels) = Cols(others)
  OBVIOUS
<1>2. Read(rels) = Read(others)
  <2> HIDE DEF Cols, ins, One
  <2> QED
    BY <1>1
<1> QED
  BY <1>2, Zenon DEF FromInsert

\* An attribution depends on those scoped relations only that the text mentions.
LEMMA MentionedDecide ==
    ASSUME NEW q, NEW params, NEW rowLevel \in RowLevels,
           ScopedNamed(policy, Mentioned(q)) \subseteq rowLevel
    PROVE  ExtractTenant(q, rowLevel, params) = ExtractTenant(q, policy, params)
<1>1. \A N \in SUBSET Mentioned(q) : ScopedNamed(rowLevel, N) = ScopedNamed(policy, N)
  BY DEF RowLevels, ScopedNamed
<1>2. q.names \cup q.aliases \in SUBSET Mentioned(q)
  BY DEF Mentioned
<1>3. \A ins \in q.inserts : {ins.into} \in SUBSET Mentioned(q)
  BY DEF Mentioned
<1>4. FromComparisons(q, rowLevel, params) = FromComparisons(q, policy, params)
  <2>1. ScopedNamed(rowLevel, q.names \cup q.aliases) =
          ScopedNamed(policy, q.names \cup q.aliases)
    BY <1>1, <1>2
  <2> QED
    BY <2>1 DEF FromComparisons
<1>5. ReadsInsert(q, rowLevel) <=> ReadsInsert(q, policy)
  BY <1>1, <1>3 DEF ReadsInsert
<1>6. ASSUME ReadsInsert(q, policy)
      PROVE  FromInsert(q, rowLevel, params) = FromInsert(q, policy, params)
  <2> DEFINE ins == CHOOSE ins \in q.inserts : TRUE
  <2>1. ins \in q.inserts
    BY <1>6 DEF ReadsInsert
  <2>2. ScopedNamed(rowLevel, {ins.into}) = ScopedNamed(policy, {ins.into})
    BY <1>1, <1>3, <2>1
  <2> QED
    BY <2>2, ColumnsDecide
<1> QED
  BY <1>4, <1>5, <1>6 DEF ExtractTenant

\* Fewer relations find fewer comparisons: what they agree on is what all do.
LEMMA FewerComparisons ==
    ASSUME NEW q, NEW params, NEW rowLevel \in RowLevels,
           FromComparisons(q, policy, params).kind = "resolved",
           FromComparisons(q, rowLevel, params).kind = "resolved"
    PROVE  FromComparisons(q, rowLevel, params) = FromComparisons(q, policy, params)
<1> DEFINE Scope(rels) == ScopedNamed(rels, q.names \cup q.aliases)
           Found(rels) == {c \in q.compares :
                             \E r \in Scope(rels) :
                                \E col \in r.columns : Finds(c.column, col)}
           Readings(rels) == {Reading(c.rhs, params) : c \in Found(rels)}
           Values(rels) == {a \in Readings(rels) : a.kind = "resolved"}
<1>1. Unattributable.kind # "resolved" /\ NoPredicate.kind # "resolved"
  BY DEF Unattributable, NoPredicate
<1>2. ASSUME NEW rels, FromComparisons(q, rels, params).kind = "resolved"
      PROVE  /\ FromComparisons(q, rels, params) \in Values(rels)
             /\ \A a, b \in Values(rels) : a = b
  <2>1. /\ Scope(rels) # {}
        /\ Unattributable \notin Readings(rels)
        /\ ~\E a, b \in Values(rels) : a # b
        /\ Values(rels) # {}
    BY <1>1, <1>2 DEF FromComparisons
  <2>2. FromComparisons(q, rels, params) = CHOOSE a \in Values(rels) : TRUE
    BY <2>1 DEF FromComparisons
  <2> HIDE DEF Values
  <2> QED
    BY <2>1, <2>2
<1>3. Values(rowLevel) \subseteq Values(policy)
  <2>1. Scope(rowLevel) \subseteq Scope(policy)
    BY DEF ScopedNamed, RowLevels
  <2> HIDE DEF Scope
  <2>2. Found(rowLevel) \subseteq Found(policy)
    BY <2>1
  <2> HIDE DEF Found
  <2> QED
    BY <2>2
<1> HIDE DEF Values
<1> QED
  BY <1>2, <1>3

\* With fewer relations a plain INSERT is read from the same VALUES list, or
\* not at all.
LEMMA FewerRelations ==
    ASSUME NEW q, NEW params, NEW rowLevel \in RowLevels,
           InsertsPlainly(q), \A a, b \in q.inserts : a = b,
           ExtractTenant(q, policy, params).kind = "resolved",
           ExtractTenant(q, rowLevel, params).kind = "resolved"
    PROVE  ExtractTenant(q, rowLevel, params) = ExtractTenant(q, policy, params)
<1>1. Unattributable.kind # "resolved" /\ NoPredicate.kind # "resolved"
  BY DEF Unattributable, NoPredicate
<1>2. ~Undecoded(params)
  BY <1>1 DEF ExtractTenant
<1>3. ReadsInsert(q, rowLevel) => ReadsInsert(q, policy)
  BY DEF ReadsInsert, ScopedNamed, RowLevels
<1>4. CASE ~ReadsInsert(q, policy)
  BY <1>2, <1>3, <1>4, FewerComparisons DEF ExtractTenant
<1>5. CASE ReadsInsert(q, policy)
  <2> DEFINE ins == CHOOSE ins \in q.inserts : TRUE
  <2>1. ins \in q.inserts
    BY <1>5 DEF ReadsInsert
  <2>2. CASE ReadsInsert(q, rowLevel)
    <3>1. ScopedNamed(rowLevel, {ins.into}) # {}
      BY <2>1, <2>2 DEF ReadsInsert
    <3>2. ScopedNamed(rowLevel, {ins.into}) = ScopedNamed(policy, {ins.into})
      BY <2>1, <3>1 DEF InsertsPlainly, ScopedNamed, RowLevels
    <3>3. FromInsert(q, rowLevel, params) = FromInsert(q, policy, params)
      BY <3>2, ColumnsDecide
    <3> QED
      BY <1>2, <1>5, <2>2, <3>3 DEF ExtractTenant
  <2>3. CASE ~ReadsInsert(q, rowLevel)
    <3>1. ExtractTenant(q, rowLevel, params) = FromComparisons(q, rowLevel, params)
      BY <1>2, <2>3 DEF ExtractTenant
    <3>2. q.compares = {}
      BY <2>1 DEF InsertsPlainly
    <3>3. FromComparisons(q, rowLevel, params) \in {Unattributable, NoPredicate}
      BY <3>2 DEF FromComparisons
    <3> QED
      BY <1>1, <3>1, <3>3
  <2> QED
    BY <2>2, <2>3
<1> QED
  BY <1>4, <1>5

\* The audit of a trace attributes a query to the tenant the guardrail read
\* out of it, or to none because a parameter could not be decoded, if every
\* scoped relation it mentions was proven at row level; whichever were, it
\* attributes a query the guardrail read a tenant out of to that tenant or to
\* none. For any statement, parameter formats and policy (ExtractTenant,
\* DecodeEvents, paramsFromArgs), if Go prints the arguments as PostgreSQL does
\* and JSON keeps them.
THEOREM AuditAgrees == Spec => []TiersAgree
<1>1. GuardrailInv => TiersAgree
  <2> SUFFICES ASSUME GuardrailInv, Asked,
                      \A i \in DOMAIN call.args :
                         /\ call.args[i].kind # "printed"
                         /\ Utf8[call.args[i].text] = call.args[i].text,
                      NEW formats \in [DOMAIN call.args -> Formats],
                      NEW rowLevel \in RowLevels
               PROVE  LET q == call.statement.text
                          traced == Traced(formats)
                          audited == ExtractTenant(q, rowLevel, traced)
                          read == ExtractTenant(q, policy, Params)
                      IN /\ ScopedNamed(policy, Mentioned(q)) \subseteq rowLevel =>
                               audited = IF Undecoded(traced) THEN Unattributable
                                         ELSE read
                         /\ (/\ InsertsPlainly(q)
                             /\ read.kind = "resolved" /\ audited.kind = "resolved")
                               => audited = read
    BY DEF TiersAgree
  <2>1. CASE Undecoded(Traced(formats))
    <3>1. ExtractTenant(call.statement.text, rowLevel, Traced(formats)) = Unattributable
      BY <2>1 DEF ExtractTenant
    <3> QED
      BY <2>1, <3>1 DEF Unattributable
  <2>2. CASE ~Undecoded(Traced(formats))
    <3>1. DOMAIN Traced(formats) = DOMAIN call.args /\ DOMAIN Params = DOMAIN call.args
      BY DEF Traced, Params, ParamsFromArgs
    <3>2. ~Undecoded(Params)
      BY <3>1 DEF Undecoded, Params, ParamsFromArgs, ParamOf
    <3>3. ASSUME NEW i \in DOMAIN call.args
          PROVE  Traced(formats)[i].text = Params[i].text
      <4> DEFINE a == call.args[i]
                 r == ReadBack(CapturedParam(a.kind = "nil", a.text, formats[i]))
      <4>1. a.kind \in {"plain", "nil"} /\ a.text \in Texts
        BY ArgumentTypes
      <4>2. Traced(formats)[i] = r
        BY DEF Traced
      <4>3. /\ r.null = (a.kind = "nil")
            /\ r.known = (a.kind = "nil" \/ formats[i] # "undescribed")
            /\ r.text = IF a.kind # "nil" /\ formats[i] # "undescribed"
                        THEN Utf8[a.text] ELSE EmptyText
        <5>1. CASE a.kind = "nil"
          BY <5>1 DEF CapturedParam, ReadBack, EmitParam, DecodeParam
        <5>2. CASE a.kind # "nil" /\ formats[i] = "undescribed"
          BY <5>2 DEF CapturedParam, ReadBack, EmitParam, DecodeParam
        <5>3. CASE a.kind # "nil" /\ formats[i] # "undescribed"
          BY <5>3 DEF CapturedParam, ReadBack, EmitParam, DecodeParam
        <5> QED
          BY <5>1, <5>2, <5>3
      <4>4. r.null \/ r.known
        BY <2>2, <3>1, <4>2 DEF Undecoded
      <4>5. Params[i].text = IF a.kind = "nil" THEN EmptyText ELSE a.text
        BY <4>1 DEF Params, ParamsFromArgs, ParamOf
      <4> HIDE DEF r
      <4> QED
        BY <4>1, <4>2, <4>3, <4>4, <4>5
    <3>4. ExtractTenant(call.statement.text, rowLevel, Traced(formats)) =
            ExtractTenant(call.statement.text, rowLevel, Params)
      BY <2>2, <3>1, <3>2, <3>3, TextsDecide
    <3>5. \A a, b \in call.statement.text.inserts : a = b
      BY GuardrailAssumption DEF GuardrailInv, TypeOK, Asked
    <3> QED
      BY <2>2, <3>4, <3>5, MentionedDecide, FewerRelations
  <2> QED
    BY <2>1, <2>2
<1> QED
  BY <1>1, Inductive, PTL

\* A trace keeps what identifies a parameter's value and never makes known a
\* value that was not (Recorder.Emit, DecodeEvents), whatever its text.
THEOREM TraceIsFaithful == Spec => []TraceKeepsWhatIsKnown
<1>1. GuardrailInv => TraceKeepsWhatIsKnown
  BY ArgumentTypes, ReadBackText DEF TraceKeepsWhatIsKnown
<1> QED
  BY <1>1, Inductive, PTL
=============================================================================
