---------------------------- MODULE SessionHistory ----------------------------
(***************************************************************************)
(* A Session fed any interleaving of its two streams, with the history its *)
(* correctness is stated against: the messages handled, the statement      *)
(* names a description was asked for, and the descriptions attributed.     *)
(***************************************************************************)
EXTENDS Session, FiniteSetsExt

CONSTANTS
    FrontMsgs,    \* frontend messages the client may send
    BackMsgs,     \* backend messages the server may send
    MaxMessages   \* bound on the messages handled

ASSUME HistoryAssumption ==
    /\ FrontMsgs \subseteq FrontMsg
    /\ BackMsgs \subseteq BackMsg
    /\ MaxMessages \in Nat

VARIABLES
    log,       \* messages handled, both directions
    asked,     \* names of the Describe('S') messages handled
    captured   \* [name, oids] of the descriptions attributed to a name

historyVars == <<log, asked, captured>>
vars == <<sessionVars, historyVars>>

Init ==
    /\ NewSession
    /\ log = <<>>
    /\ asked = <<>>
    /\ captured = <<>>

Remember(m) ==
    /\ Len(log) < MaxMessages
    /\ log' = Append(log, m)

FeedFrontend(m) ==
    /\ Handle(m)
    /\ Remember(m)
    /\ asked' = IF m.type = "Describe" /\ m.kind = "S"
                THEN Append(asked, m.name) ELSE asked
    /\ UNCHANGED captured

FeedBackend(m) ==
    /\ HandleBackend(m)
    /\ Remember(m)
    /\ captured' = IF m.type = "ParameterDescription" /\ event'.resolved
                   THEN Append(captured, [name |-> event'.stmt, oids |-> m.oids])
                   ELSE captured
    /\ UNCHANGED asked

Next ==
    \/ \E m \in FrontMsgs : FeedFrontend(m)
    \/ \E m \in BackMsgs : FeedBackend(m)

Spec == Init /\ [][Next]_vars

HistoryTypeOK ==
    /\ TypeOK
    /\ log \in Seq(FrontMsgs \cup BackMsgs)
    /\ asked \in Seq(Names)
    /\ captured \in Seq([name : Names, oids : Seq(OIDs)])

-----------------------------------------------------------------------------
\* Positions in the log of the messages that open or close a statement.
Touches(n) ==
    {i \in DOMAIN log :
        /\ log[i].type \in {"Parse", "Close"}
        /\ log[i].name = n
        /\ log[i].type = "Close" => log[i].kind = "S"}

\* A Bind is resolved exactly when the latest Parse or Close('S') of the name
\* on this connection is a Parse, and then to that Parse's SQL: never to a
\* closed statement's (session.go, Event and the TGD-BL-12 note in handle).
BindNamesOpenStatement ==
    event.kind = "bind" =>
        LET T == Touches(event.stmt)
            open == T # {} /\ log[Max(T)].type = "Parse"
        IN /\ event.resolved = open
           /\ event.sql = IF open THEN log[Max(T)].sql ELSE NoSQL

\* Replies are attributed first asked, first answered, none lost and none
\* invented: the names asked for are the names answered so far followed by
\* the queue (session.go, pendingDescribe).
AnsweredInOrder ==
    /\ Len(asked) = Len(captured) + Len(pendingDescribe)
    /\ \A i \in 1..Len(captured) : captured[i].name = asked[i]
    /\ \A i \in 1..Len(pendingDescribe) :
          pendingDescribe[i] = asked[Len(captured) + i]

\* A binary parameter is known only if the latest description attributed to
\* its statement has one type per parameter and this one can be decoded;
\* on a count mismatch no parameter of the Bind is (session.go, resolveParams).
DecodedOnlyAsDescribed ==
    event.kind = "bind" =>
        LET bind == log[Len(log)]
            D == {j \in DOMAIN captured : captured[j].name = bind.stmt}
        IN \A i \in DOMAIN bind.params :
              (/\ event.params[i].known
               /\ ~bind.params[i].null
               /\ FormatOf(bind, i) = "binary")
              => /\ D # {}
                 /\ LET oids == captured[Max(D)].oids
                    IN /\ Len(oids) = Len(bind.params)
                       /\ event.params[i].oid = oids[i]
                       /\ <<oids[i], bind.params[i].enc>> \in Decodes
=============================================================================
