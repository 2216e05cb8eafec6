------------------------------ MODULE Attribution ------------------------------
(***************************************************************************)
(* What a statement's text says of its tenant: ExtractTenant, which Tier 1 *)
(* binds a replay to (internal/differ/extract.go), and CheckTenant, which  *)
(* Tier 2 lets a query run on (tier2.go).                                  *)
(*                                                                         *)
(* A statement is what the regular expressions find in it: the names after *)
(* FROM, JOIN, INTO and UPDATE, their aliases, the names WITH declares,    *)
(* the comparisons "column = ...", and of an INSERT the column and VALUES  *)
(* lists.  Names are in lower case.  The order of comparisons only decides *)
(* which reason is given, so they are a set.                               *)
(***************************************************************************)
EXTENDS Trace, SchemaInference

CONSTANTS
    Names,       \* names of relations, unqualified
    EndsWith     \* <<c, d>>: the name c ends with the name d

ASSUME AttributionAssumption == EndsWith \subseteq Columns \X Columns

\* The right-hand side of a comparison, or an entry of a VALUES list ("none" in
\* a column that is not listed); index is 0 unless it is a parameter.
Rhs == [kind : {"param", "subquery", "other", "none"}, index : Nat]

\* An INSERT with a column list: the rows of its VALUES list by column.
Insert == [into : Names, list : {"matches", "short", "none"},
           values : Seq([Columns -> Rhs])]

Statement == [names : SUBSET Names, aliases : SUBSET Names,
              ctes : SUBSET Names,
              compares : SUBSET [column : Columns, rhs : Rhs],
              inserts : SUBSET Insert]   \* at most one

-----------------------------------------------------------------------------
(* ExtractTenant. *)

Unattributable == [kind |-> "unattributable", value |-> EmptyText]
NoPredicate == [kind |-> "no_predicate", value |-> EmptyText]
Resolved(v) == [kind |-> "resolved", value |-> v]
Attribution == [kind : {"unattributable", "no_predicate", "resolved"},
                value : Texts]

\* What one right-hand side says of the tenant.
Reading(rhs, params) ==
    IF rhs.kind = "subquery" THEN Unattributable
    ELSE IF rhs.kind \in {"other", "none"} THEN NoPredicate
    ELSE IF rhs.index \notin DOMAIN params THEN Unattributable
    ELSE Resolved(params[rhs.index].text)

Undecoded(params) == \E i \in DOMAIN params : ~params[i].null /\ ~params[i].known

ScopedNamed(rels, names) == {r \in rels : r.class = "scoped" /\ r.name \in names}

\* The first of several relations of one name.
FirstOf(rels) == CHOOSE r \in rels : \A s \in rels : r.schema <= s.schema

\* extractFromInsert, where it applies: the first row of the VALUES list.
ReadsInsert(q, rels) ==
    \E ins \in q.inserts : ins.list # "none" /\ ScopedNamed(rels, {ins.into}) # {}

FromInsert(q, rels, params) ==
    LET ins == CHOOSE ins \in q.inserts : TRUE
        columns == FirstOf(ScopedNamed(rels, {ins.into})).columns
    IN IF ins.list = "short" THEN Unattributable
       ELSE Reading(ins.values[1][CHOOSE c \in columns : TRUE], params)

\* tenantCompareRegex has no word boundary before the column.
Finds(compared, column) == compared = column \/ <<compared, column>> \in EndsWith

\* Faulty: of several comparisons the first found counts.
FromComparisonsAny(q, rels, params) ==
    LET scoped == ScopedNamed(rels, q.names \cup q.aliases)
        found == {c \in q.compares :
                    \E r \in scoped : \E col \in r.columns : Finds(c.column, col)}
        readings == {Reading(c.rhs, params) : c \in found}
        values == {a \in readings : a.kind = "resolved"}
    IN IF scoped = {} THEN Unattributable
       ELSE IF values # {} THEN CHOOSE a \in values : TRUE
       ELSE IF readings = {} THEN NoPredicate
       ELSE CHOOSE a \in readings : TRUE

\* Every comparison with the tenant column of a scoped relation the text
\* names: they must not disagree.
FromComparisons(q, rels, params) ==
    LET scoped == ScopedNamed(rels, q.names \cup q.aliases)
        found == {c \in q.compares :
                    \E r \in scoped : \E col \in r.columns : Finds(c.column, col)}
        readings == {Reading(c.rhs, params) : c \in found}
        values == {a \in readings : a.kind = "resolved"}
    IN IF scoped = {} THEN Unattributable
       ELSE IF Unattributable \in readings THEN Unattributable
       ELSE IF \E a, b \in values : a # b THEN Unattributable
       ELSE IF values = {} THEN NoPredicate
       ELSE CHOOSE a \in values : TRUE

ExtractTenant(q, rels, params) ==
    IF Undecoded(params) THEN Unattributable
    ELSE IF ReadsInsert(q, rels) THEN FromInsert(q, rels, params)
    ELSE FromComparisons(q, rels, params)

-----------------------------------------------------------------------------
(* CheckTenant. *)

\* byName: of several relations of one name the last is looked up.
LastOf(rels) == CHOOSE r \in rels : \A s \in rels : r.schema >= s.schema

ByName(rels, n) == {r \in rels : r.name = n}

\* Faulty: a name nobody classified is assumed harmless (TGD-BL-43).
BlockedIfUnclassifiable(q, rels) ==
    \E n \in q.names \ q.ctes :
        /\ ByName(rels, n) # {}
        /\ LastOf(ByName(rels, n)).class = "unclassifiable"

\* resolveReferences: a name that resolves to nothing or to a relation nobody
\* could classify.
Blocked(q, rels) ==
    \E n \in q.names \ q.ctes :
        ByName(rels, n) # {} => LastOf(ByName(rels, n)).class = "unclassifiable"

AnyScoped(q, rels) ==
    \E n \in q.names \ q.ctes :
        ByName(rels, n) # {} /\ LastOf(ByName(rels, n)).class = "scoped"

Result(verdict, tenant) == [verdict |-> verdict, tenant |-> tenant]

CheckTenant(q, rels, params, intended) ==
    LET attr == ExtractTenant(q, rels, params)
    IN IF Blocked(q, rels) THEN Result("UNATTRIBUTABLE", EmptyText)
       ELSE IF ~AnyScoped(q, rels) THEN Result("SAFE", EmptyText)
       ELSE IF attr.kind = "unattributable" THEN Result("UNATTRIBUTABLE", EmptyText)
       ELSE IF attr.kind = "no_predicate" THEN Result("LEAK", EmptyText)
       ELSE Result(IF attr.value = intended THEN "SAFE" ELSE "LEAK", attr.value)
=============================================================================
