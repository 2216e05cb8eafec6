----------------------------- MODULE MCGateCommand -----------------------------
(***************************************************************************)
(* Two relations that may or may not be declared, may or may not be        *)
(* seedable and may come with a policy of their own, and queries that name *)
(* either, both or neither.                                                *)
(***************************************************************************)
EXTENDS GateCommand

CONSTANTS users, orders, acme, shared, canaryA, canaryB

MCRelations == {users, orders}
MCValues == {acme, shared}

R(id, t) == [id |-> id, tenant |-> t]
T(rs, s, h, f) == [rows |-> rs, shows |-> s, hides |-> h, fixture |-> f]

Two == {R(1, acme), R(2, acme)}
Mixed == {R(1, acme), R(2, shared)}
Canaries == {CanaryRow(canaryA), CanaryRow(canaryB)}
Plain == T(Two, {}, {}, "none")

\* Unseedable or seeded from a fixture; without policies; open to all; open
\* for the rows of one tenant; closed to all; hiding an archived row, or one of
\* the canaries; showing one of them.
MCTargets ==
    {T({}, {}, {}, f) : f \in {"none", "malformed", "two"}}
    \cup {Plain,
          T(Two, Two \cup Canaries, {}, "none"),
          T(Mixed, {R(2, shared)}, {}, "none"),
          T(Two, {}, Two \cup Canaries, "none"),
          T(Mixed, {}, {R(2, shared)}, "none")}
    \cup {T(Two, {}, {c}, "none") : c \in Canaries}
    \cup {T(Two, {c}, {}, "none") : c \in Canaries}

\* A target without policies of its own, seedable or not.
SimpleTargets == {Plain, T({}, {}, {}, "none")}

D(r, c) == [rel |-> r, class |-> c]
MCPolicies ==
    {<<>>,
     <<D(users, "unclassifiable")>>,
     <<D(users, "unscoped"), D(orders, "scoped")>>,
     <<D(users, "scoped"), D(orders, "scoped")>>}
BothScoped == {<<D(users, "scoped"), D(orders, "scoped")>>}

Q(ts, n) == [tables |-> ts, nonquery |-> n]
MCQueries ==
    {Q(ts, FALSE) : ts \in SUBSET MCRelations} \cup {Q({}, TRUE), Q({users}, TRUE)}

OneThird == <<1, 3>>
=============================================================================
