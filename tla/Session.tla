------------------------------- MODULE Session -------------------------------
(***************************************************************************)
(* The prepared-statement state of one captured PostgreSQL connection      *)
(* (internal/capture/session.go), and the messages it is fed               *)
(* (internal/capture/protocol.go).                                         *)
(*                                                                         *)
(* A message is a record.  SQL text and statement names are opaque; a      *)
(* bound parameter is known by the type it was encoded as (enc), and       *)
(* Decodes says which types decodeBinary can read such a payload as: a     *)
(* payload read as another type of the same width gives a wrong value, not *)
(* an error.  Messages the code ignores are of type "Sync" (frontend:      *)
(* Sync, Execute, Flush, a body too short for its fields) and "Other"      *)
(* (backend).                                                              *)
(***************************************************************************)
EXTENDS Naturals, Sequences

CONSTANTS
    Names,      \* statement names
    Unnamed,    \* the empty statement name
    SQLs,       \* SQL texts
    NoSQL,      \* what a lookup of an absent statement returns
    OIDs,       \* parameter and column type OIDs
    NoOID,      \* OID 0, never captured
    Decodes     \* <<oid, enc>>: decodeBinary reads an enc payload as oid

Formats == {"text", "binary"}
WireParam == [null : BOOLEAN, enc : OIDs]

FrontMsg ==
    [type : {"Parse"}, name : Names, sql : SQLs]
    \cup [type : {"Bind"}, stmt : Names,
          formats : Seq(Formats), params : Seq(WireParam)]
    \cup [type : {"Describe", "Close"}, kind : {"S", "P"}, name : Names]
    \cup [type : {"Query"}, sql : SQLs]
    \cup [type : {"Sync"}]

BackMsg ==
    [type : {"ParameterDescription", "RowDescription"}, oids : Seq(OIDs)]
    \cup [type : {"Other"}]

ASSUME SessionAssumption ==
    /\ Unnamed \in Names
    /\ NoSQL \notin SQLs
    /\ NoOID \notin OIDs
    /\ Decodes \subseteq OIDs \X OIDs

VARIABLES
    stmts,            \* SQL of each open statement, NoSQL for the others
    pendingDescribe,  \* names of Describe('S') not answered yet, oldest first
    lastDescribed,    \* name the latest ParameterDescription was given to
    paramOIDs,        \* parameter types captured per statement, <<>> if none
    rowOIDs,          \* column types captured per statement, <<>> if none
    event             \* what the handler returned for the latest message

sessionVars ==
    <<stmts, pendingDescribe, lastDescribed, paramOIDs, rowOIDs, event>>

Param == [known : BOOLEAN, oid : OIDs \cup {NoOID}]
EventKinds == {"none", "parse", "bind", "close", "query",
               "param_description", "row_description"}
Event == [kind : EventKinds, stmt : Names, sql : SQLs \cup {NoSQL},
          resolved : BOOLEAN, params : Seq(Param)]

Ev(kind, stmt, sql, resolved, params) ==
    [kind |-> kind, stmt |-> stmt, sql |-> sql,
     resolved |-> resolved, params |-> params]

NoEvent == Ev("none", Unnamed, NoSQL, FALSE, <<>>)

NewSession ==
    /\ stmts = [n \in Names |-> NoSQL]
    /\ pendingDescribe = <<>>
    /\ lastDescribed = Unnamed
    /\ paramOIDs = [n \in Names |-> <<>>]
    /\ rowOIDs = [n \in Names |-> <<>>]
    /\ event = NoEvent

-----------------------------------------------------------------------------
(* Parameters of a Bind. *)

\* Zero format codes mean text for all, one applies to all, else one each.
FormatOf(m, i) ==
    IF Len(m.formats) = 1 THEN m.formats[1]
    ELSE IF i <= Len(m.formats) THEN m.formats[i] ELSE "text"

\* Faulty: types beyond the parameters bound are ignored.
CorrelationAtLeast(m) == Len(paramOIDs[m.stmt]) >= Len(m.params)

\* The arity guard: as many types captured as parameters bound.
CorrelationOK(m) == Len(paramOIDs[m.stmt]) = Len(m.params)

\* A parameter that needs a type and has one to try.
HasType(m, i) ==
    /\ ~m.params[i].null
    /\ FormatOf(m, i) = "binary"
    /\ paramOIDs[m.stmt] # <<>>
    /\ CorrelationOK(m)

ResolvedParam(m, i) ==
    LET p == m.params[i]
        oids == paramOIDs[m.stmt]
    IN [known |-> \/ p.null
                  \/ FormatOf(m, i) = "text"
                  \/ HasType(m, i) /\ <<oids[i], p.enc>> \in Decodes,
        oid |-> IF HasType(m, i) THEN oids[i] ELSE NoOID]

ResolveParams(m) == [i \in 1..Len(m.params) |-> ResolvedParam(m, i)]

-----------------------------------------------------------------------------
(* Frontend messages. *)

\* Faulty: a name already open keeps its SQL.
HandleParseKeepsFirst(m) ==
    /\ m.type = "Parse"
    /\ stmts' = [stmts EXCEPT ![m.name] = IF @ = NoSQL THEN m.sql ELSE @]
    /\ event' = Ev("parse", m.name, m.sql, FALSE, <<>>)
    /\ UNCHANGED <<pendingDescribe, lastDescribed, paramOIDs, rowOIDs>>

HandleParse(m) ==
    /\ m.type = "Parse"
    /\ stmts' = [stmts EXCEPT ![m.name] = m.sql]
    /\ event' = Ev("parse", m.name, m.sql, FALSE, <<>>)
    /\ UNCHANGED <<pendingDescribe, lastDescribed, paramOIDs, rowOIDs>>

HandleBind(m) ==
    /\ m.type = "Bind"
    /\ event' = Ev("bind", m.stmt, stmts[m.stmt], stmts[m.stmt] # NoSQL,
                   ResolveParams(m))
    /\ UNCHANGED <<stmts, pendingDescribe, lastDescribed, paramOIDs, rowOIDs>>

\* Faulty: portals are queued as statements are.
HandleDescribeAny(m) ==
    /\ m.type = "Describe"
    /\ pendingDescribe' = Append(pendingDescribe, m.name)
    /\ event' = NoEvent
    /\ UNCHANGED <<stmts, lastDescribed, paramOIDs, rowOIDs>>

\* Faulty: the latest Describe is answered first.
HandleDescribeLast(m) ==
    /\ m.type = "Describe"
    /\ pendingDescribe' = IF m.kind = "S" THEN <<m.name>> \o pendingDescribe
                                          ELSE pendingDescribe
    /\ event' = NoEvent
    /\ UNCHANGED <<stmts, lastDescribed, paramOIDs, rowOIDs>>

HandleDescribe(m) ==
    /\ m.type = "Describe"
    /\ pendingDescribe' = IF m.kind = "S" THEN Append(pendingDescribe, m.name)
                                          ELSE pendingDescribe
    /\ event' = NoEvent
    /\ UNCHANGED <<stmts, lastDescribed, paramOIDs, rowOIDs>>

\* Faulty: a closed statement stays open (TGD-BL-12).
HandleCloseKeeps(m) ==
    /\ m.type = "Close"
    /\ event' = IF m.kind = "S" THEN Ev("close", m.name, NoSQL, FALSE, <<>>)
                                ELSE NoEvent
    /\ UNCHANGED <<stmts, pendingDescribe, lastDescribed, paramOIDs, rowOIDs>>

HandleClose(m) ==
    /\ m.type = "Close"
    /\ \/ /\ m.kind = "S"
          /\ stmts' = [stmts EXCEPT ![m.name] = NoSQL]
          /\ event' = Ev("close", m.name, NoSQL, FALSE, <<>>)
       \/ /\ m.kind = "P"
          /\ event' = NoEvent
          /\ UNCHANGED stmts
    /\ UNCHANGED <<pendingDescribe, lastDescribed, paramOIDs, rowOIDs>>

HandleQuery(m) ==
    /\ m.type = "Query"
    /\ event' = Ev("query", Unnamed, m.sql, TRUE, <<>>)
    /\ UNCHANGED <<stmts, pendingDescribe, lastDescribed, paramOIDs, rowOIDs>>

HandleIgnored(m) ==
    /\ m.type \in {"Sync", "Other"}
    /\ event' = NoEvent
    /\ UNCHANGED <<stmts, pendingDescribe, lastDescribed, paramOIDs, rowOIDs>>

Handle(m) ==
    \/ HandleParse(m)
    \/ HandleBind(m)
    \/ HandleDescribe(m)
    \/ HandleClose(m)
    \/ HandleQuery(m)
    \/ HandleIgnored(m)

-----------------------------------------------------------------------------
(* Backend messages. *)

\* Faulty: the types go to the statement described before.
HandleParamDescLate(m) ==
    /\ m.type = "ParameterDescription"
    /\ pendingDescribe # <<>>
    /\ pendingDescribe' = Tail(pendingDescribe)
    /\ lastDescribed' = Head(pendingDescribe)
    /\ paramOIDs' = [paramOIDs EXCEPT ![lastDescribed] = m.oids]
    /\ event' = Ev("param_description", Head(pendingDescribe), NoSQL, TRUE, <<>>)
    /\ UNCHANGED <<stmts, rowOIDs>>

\* Faulty: the last type of the reply is not read and stays 0.
HandleParamDescShort(m) ==
    /\ m.type = "ParameterDescription"
    /\ pendingDescribe # <<>>
    /\ pendingDescribe' = Tail(pendingDescribe)
    /\ lastDescribed' = Head(pendingDescribe)
    /\ paramOIDs' = [paramOIDs EXCEPT ![Head(pendingDescribe)] =
                        [m.oids EXCEPT ![Len(m.oids)] = NoOID]]
    /\ event' = Ev("param_description", Head(pendingDescribe), NoSQL, TRUE, <<>>)
    /\ UNCHANGED <<stmts, rowOIDs>>

\* The reply names no statement: the oldest outstanding Describe gets it.
HandleParamDesc(m) ==
    /\ m.type = "ParameterDescription"
    /\ \/ /\ pendingDescribe = <<>>
          /\ event' = Ev("param_description", Unnamed, NoSQL, FALSE, <<>>)
          /\ UNCHANGED <<pendingDescribe, lastDescribed, paramOIDs>>
       \/ /\ pendingDescribe # <<>>
          /\ LET name == Head(pendingDescribe)
             IN /\ pendingDescribe' = Tail(pendingDescribe)
                /\ lastDescribed' = name
                /\ paramOIDs' = [paramOIDs EXCEPT ![name] = m.oids]
                /\ event' = Ev("param_description", name, NoSQL, TRUE, <<>>)
    /\ UNCHANGED <<stmts, rowOIDs>>

HandleRowDesc(m) ==
    /\ m.type = "RowDescription"
    /\ rowOIDs' = IF lastDescribed # Unnamed
                  THEN [rowOIDs EXCEPT ![lastDescribed] = m.oids]
                  ELSE rowOIDs
    /\ event' = Ev("row_description", lastDescribed, NoSQL,
                   lastDescribed # Unnamed, <<>>)
    /\ UNCHANGED <<stmts, pendingDescribe, lastDescribed, paramOIDs>>

HandleBackend(m) ==
    \/ HandleParamDesc(m)
    \/ HandleRowDesc(m)
    \/ HandleIgnored(m)

-----------------------------------------------------------------------------
\* Every field of the session holds a value of its Go type, and an event is
\* one the recorder can write.
TypeOK ==
    /\ stmts \in [Names -> SQLs \cup {NoSQL}]
    /\ pendingDescribe \in Seq(Names)
    /\ lastDescribed \in Names
    /\ paramOIDs \in [Names -> Seq(OIDs)]
    /\ rowOIDs \in [Names -> Seq(OIDs)]
    /\ event \in Event
=============================================================================
