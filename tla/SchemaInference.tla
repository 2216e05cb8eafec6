--------------------------- MODULE SchemaInference ---------------------------
(***************************************************************************)
(* Which relations of a database are tenant-scoped, as far as their kind   *)
(* and columns tell (internal/schema/schema.go): the classes of the policy *)
(* file.                                                                   *)
(***************************************************************************)
EXTENDS Naturals, FiniteSets

CONSTANTS
    Relations,         \* [schema, name] of relations; schemas are numbered as
                       \* their names sort
    Columns,           \* names of columns
    CandidateColumns,  \* column names taken to indicate tenancy
    Absent             \* no relation

ASSUME SchemaAssumption == IsFiniteSet(Columns) /\ CandidateColumns \subseteq Columns

\* What pg_class lists, and what it does not or relationQuery leaves out.
Listed == {"table", "partitioned", "view", "matview", "foreign"}
Kinds == Listed \cup {"partition", "function"}

\* A relation: its columns, and what a view or a function reads.
Definition ==
    [kind : Kinds \ {"table", "partitioned", "partition"},
     columns : SUBSET Columns, over : SUBSET Relations]
    \cup
    [kind : {"table", "partitioned", "partition"},
     columns : SUBSET Columns, over : {{}}]

Classes == {"scoped", "unscoped", "unclassifiable"}

\* A relation of the policy file, with its tenant column if it is scoped.
PolicyRelation == [schema : {r.schema : r \in Relations},
                   name : {r.name : r \in Relations},
                   class : Classes, columns : SUBSET Columns]

Candidates(columns) == columns \cap CandidateColumns

Classify(kind, columns) ==
    IF kind \in {"view", "matview", "foreign"} THEN "unclassifiable"
    ELSE IF Cardinality(Candidates(columns)) = 1 THEN "scoped"
    ELSE IF Candidates(columns) = {} THEN "unscoped"
    ELSE "unclassifiable"

\* One relation of the policy file.
Classified(r, def) ==
    LET class == Classify(def.kind, def.columns)
    IN [schema |-> r.schema, name |-> r.name, class |-> class,
        columns |-> IF class = "scoped" THEN Candidates(def.columns) ELSE {}]

\* Infer: every relation the query lists.
Infer(db) ==
    {Classified(r, db[r]) : r \in {s \in Relations :
                                     db[s] # Absent /\ db[s].kind \in Listed}}
=============================================================================
