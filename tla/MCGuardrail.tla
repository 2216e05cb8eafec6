------------------------------ MODULE MCGuardrail ------------------------------
(***************************************************************************)
(* Two relations named orders in two schemas, users, and recent, which may *)
(* be a view or a function over orders; migrations that add, drop, replace *)
(* and re-key them.  One application's statements: correct, wrong, and of  *)
(* the kinds a text scan cannot see through.                               *)
(***************************************************************************)
EXTENDS Guardrail, TLC

CONSTANTS acme, globex, empty, null, printed, latin, mangled

o1 == [schema |-> 1, name |-> "orders"]
o2 == [schema |-> 2, name |-> "orders"]
u1 == [schema |-> 1, name |-> "users"]
r1 == [schema |-> 1, name |-> "recent"]

MCRelations == {o1, o2, u1, r1}
MCNames == {"orders", "users", "recent", "tmp"}
MCColumns == {"id", "tenant_id", "org_id", "old_tenant_id"}
MCCandidates == {"tenant_id", "org_id"}
MCEndsWith == {<<"old_tenant_id", "tenant_id">>}
MCTexts == {acme, globex, empty, null, printed, latin, mangled}
MCUtf8 == [t \in MCTexts |-> IF t = latin THEN mangled ELSE t]
MCGoText == [t \in MCTexts |-> printed]
MCContexts == {acme, empty}

Def(kind, columns, over) == [kind |-> kind, columns |-> columns, over |-> over]
Table(columns) == Def("table", columns, {})
Orders == Table({"id", "tenant_id"})
Composite == Def("partitioned", {"tenant_id", "org_id"}, {})
Global == Table({"id"})
View == Def("view", {"id"}, {o1})
Function == Def("function", {}, {o1})

DBOf(a, b, c, d) == (o1 :> a) @@ (o2 :> b) @@ (u1 :> c) @@ (r1 :> d)
MCDatabases ==
    {DBOf(a, b, c, d) : a \in {Orders, Composite}, b \in {Absent, Global},
                        c \in {Global, Orders}, d \in {Absent, View}}
MCMigrations ==
    {<<o1, Table({"org_id"})>>, <<o2, Orders>>, <<o2, Absent>>,
     <<u1, Orders>>, <<u1, View>>, <<r1, View>>, <<r1, Function>>, <<r1, Global>>}

P(i) == [kind |-> "param", index |-> i]
Sub == [kind |-> "subquery", index |-> 0]
Other == [kind |-> "other", index |-> 0]
Unlisted == [kind |-> "none", index |-> 0]
C(c, r) == [column |-> c, rhs |-> r]
Tenant(r) == C("tenant_id", r)

Text(names, compares) ==
    [names |-> names, aliases |-> {}, ctes |-> {}, compares |-> compares, inserts |-> {}]
S(text, reads) == [text |-> text, reads |-> reads]
Select(names, compares, reads) == S(Text(names, compares), reads)
With(text, ctes) == [text EXCEPT !.ctes = ctes]
As(text, aliases) == [text EXCEPT !.aliases = aliases]
Insert1(list, rows, compares) ==
    [Text({"orders"}, compares) EXCEPT
        !.inserts = {[into |-> "orders", list |-> list, values |-> rows]}]
Row(t, i) == [c \in MCColumns |-> CASE c = "tenant_id" -> t
                                    [] c = "id" -> i
                                    [] OTHER -> Unlisted]

MCStatements ==
    {Select({"orders"}, {Tenant(P(1))}, {o1}),
     Select({"orders"}, {C("org_id", P(1))}, {o1}),
     Select({"orders"}, {}, {o1}),
     Select({"orders"}, {Tenant(Other)}, {o1}),
     Select({"orders"}, {Tenant(Sub)}, {o1}),
     Select({"orders"}, {Tenant(P(3))}, {o1}),
     Select({"orders"}, {C("old_tenant_id", P(1))}, {o1}),
     Select({"orders"}, {Tenant(P(1))}, {o2}),
     Select({"orders", "users"}, {Tenant(P(1)), Tenant(P(2))}, {o1, u1}),
     Select({"users"}, {Tenant(P(1))}, {u1}),
     Select({"users"}, {}, {u1, o1}),
     Select({"users"}, {Tenant(P(1))}, {u1, o1}),
     Select({"users"}, {}, {u1}),
     Select({"recent"}, {Tenant(P(1))}, {r1}),
     Select({"recent"}, {}, {r1}),
     Select({}, {}, {}),
     S(As(Text({"recent"}, {Tenant(P(1))}), {"orders"}), {r1}),
     S(With(Text({"orders", "tmp"}, {Tenant(P(1))}), {"tmp"}), {o1}),
     S(With(Text({"orders"}, {}), {"orders"}), {o1}),
     S(Insert1("matches", <<Row(P(1), P(2))>>, {}), {o1}),
     S(Insert1("matches", <<Row(P(1), P(2)), Row(P(2), P(1))>>, {}), {o1}),
     S(Insert1("matches", <<Row(Unlisted, P(1))>>, {}), {o1}),
     S(Insert1("short", <<Row(P(1), P(2))>>, {}), {o1}),
     S(Insert1("none", <<Row(Other, Other)>>, {Tenant(P(1))}), {o1})}

A(k, t) == [kind |-> k, text |-> t]
MCArguments ==
    {<<A("plain", acme), A("plain", acme)>>,
     <<A("plain", acme), A("plain", globex)>>,
     <<A("plain", globex), A("plain", acme)>>,
     <<A("nil", empty), A("plain", acme)>>,
     <<A("printed", acme), A("nil", empty)>>,
     <<A("plain", latin), A("plain", acme)>>,
     <<A("plain", acme), A("failing", empty)>>}
=============================================================================
