---------------------------- MODULE SessionProofs ----------------------------
(***************************************************************************)
(* Theorems about a Session fed any interleaving of its two streams.       *)
(***************************************************************************)
EXTENDS SessionHistory, CaptureLemmas

-----------------------------------------------------------------------------
\* The types of the session and of its history, whatever is fed to it.
THEOREM TypeCorrect == Spec => []HistoryTypeOK
<1>1. Init => HistoryTypeOK
  <2>1. ASSUME Init PROVE HistoryTypeOK
    <3>1. <<>> \in Seq(Param)
      OBVIOUS
    <3>2. NoEvent \in Event
      BY <3>1, EvType, SessionAssumption DEF NoEvent, EventKinds
    <3> QED
      BY <2>1, <3>2, SessionAssumption
         DEF Init, NewSession, HistoryTypeOK, TypeOK
  <2> QED
    BY <2>1
<1>2. HistoryTypeOK /\ [Next]_vars => HistoryTypeOK'
  <2> SUFFICES ASSUME HistoryTypeOK, [Next]_vars
               PROVE  HistoryTypeOK'
    OBVIOUS
  <2> USE DEF HistoryTypeOK
  <2>1. ASSUME NEW m \in FrontMsgs, FeedFrontend(m)
        PROVE  HistoryTypeOK'
    <3>1. m \in FrontMsg
      BY HistoryAssumption
    <3>2. TypeOK'
      BY <2>1, <3>1, HandleType DEF FeedFrontend
    <3>3. m.type = "Describe" => m.name \in Names
      BY <3>1 DEF FrontMsg
    <3>4. asked' \in Seq(Names)
      BY <2>1, <3>3 DEF FeedFrontend
    <3> QED
      BY <2>1, <3>2, <3>4 DEF FeedFrontend, Remember
  <2>2. ASSUME NEW m \in BackMsgs, FeedBackend(m)
        PROVE  HistoryTypeOK'
    <3>1. m \in BackMsg
      BY HistoryAssumption
    <3>3. m.type \in {"ParameterDescription", "RowDescription"}
             => m.oids \in Seq(OIDs)
      BY <3>1 DEF BackMsg
    <3>2. TypeOK'
      BY <2>2, <3>3, HandleBackendType DEF FeedBackend
    <3>4. event'.stmt \in Names
      BY <3>2 DEF TypeOK, Event
    <3>5. m.type = "ParameterDescription" =>
             [name |-> event'.stmt, oids |-> m.oids]
                \in [name : Names, oids : Seq(OIDs)]
      BY <3>3, <3>4
    <3>6. captured' \in Seq([name : Names, oids : Seq(OIDs)])
      <4>1. CASE m.type = "ParameterDescription" /\ event'.resolved
        <5> DEFINE c == [name |-> event'.stmt, oids |-> m.oids]
        <5>1. c \in [name : Names, oids : Seq(OIDs)]
          BY <3>5, <4>1
        <5>2. captured' = Append(captured, c)
          BY <2>2, <4>1 DEF FeedBackend
        <5> HIDE DEF c
        <5> QED
          BY <5>1, <5>2
      <4>2. CASE ~(m.type = "ParameterDescription" /\ event'.resolved)
        BY <2>2, <4>2 DEF FeedBackend
      <4> QED
        BY <4>1, <4>2
    <3> QED
      BY <2>2, <3>2, <3>6 DEF FeedBackend, Remember
  <2>3. CASE UNCHANGED vars
    BY <2>3 DEF vars, sessionVars, historyVars, TypeOK
  <2> QED
    BY <2>1, <2>2, <2>3 DEF Next
<1> QED
  BY <1>1, <1>2, PTL DEF Spec

\* The names asked for are always the names answered, in order, followed by
\* the queue: no description is attributed out of turn, twice, or to a
\* statement nobody asked about.
THEOREM AnswersAreInOrder == Spec => []AnsweredInOrder
<1>1. Init => AnsweredInOrder
  BY DEF Init, NewSession, AnsweredInOrder
<1>2. HistoryTypeOK /\ AnsweredInOrder /\ [Next]_vars => AnsweredInOrder'
  <2> SUFFICES ASSUME HistoryTypeOK, AnsweredInOrder, [Next]_vars
               PROVE  AnsweredInOrder'
    OBVIOUS
  <2>0. /\ asked \in Seq(Names)
        /\ captured \in Seq([name : Names, oids : Seq(OIDs)])
        /\ pendingDescribe \in Seq(Names)
    BY DEF HistoryTypeOK, TypeOK
  <2>1. ASSUME NEW m \in FrontMsgs, FeedFrontend(m)
        PROVE  AnsweredInOrder'
    <3>1. captured' = captured
      BY <2>1 DEF FeedFrontend
    <3>2. CASE m.type = "Describe" /\ m.kind = "S"
      <4>1. m.name \in Names
        BY <3>2, HistoryAssumption DEF FrontMsg
      <4>2. /\ asked' = Append(asked, m.name)
            /\ pendingDescribe' = Append(pendingDescribe, m.name)
        BY <2>1, <3>2
           DEF FeedFrontend, Handle, HandleParse, HandleBind, HandleDescribe,
               HandleClose, HandleQuery, HandleIgnored
      <4>3. /\ Len(asked') = Len(asked) + 1
            /\ asked'[Len(asked) + 1] = m.name
            /\ \A i \in 1..Len(asked) : asked'[i] = asked[i]
        BY <2>0, <4>1, <4>2
      <4>4. /\ Len(pendingDescribe') = Len(pendingDescribe) + 1
            /\ pendingDescribe'[Len(pendingDescribe) + 1] = m.name
            /\ \A i \in 1..Len(pendingDescribe) :
                  pendingDescribe'[i] = pendingDescribe[i]
        BY <2>0, <4>1, <4>2
      <4>5. /\ Len(asked) \in Nat
            /\ Len(captured) \in Nat
            /\ Len(pendingDescribe) \in Nat
        BY <2>0
      <4>6. Len(asked') = Len(captured') + Len(pendingDescribe')
        BY <3>1, <4>3, <4>4, <4>5 DEF AnsweredInOrder
      <4>7. \A i \in 1..Len(captured') : captured'[i].name = asked'[i]
        BY <3>1, <4>3, <4>5 DEF AnsweredInOrder
      <4>8. ASSUME NEW i \in 1..Len(pendingDescribe')
            PROVE  pendingDescribe'[i] = asked'[Len(captured') + i]
        <5>1. CASE i = Len(pendingDescribe) + 1
          BY <3>1, <4>3, <4>4, <4>5, <5>1 DEF AnsweredInOrder
        <5>2. CASE i # Len(pendingDescribe) + 1
          <6>1. /\ i \in 1..Len(pendingDescribe)
                /\ Len(captured) + i \in 1..Len(asked)
            BY <4>4, <4>5, <5>2 DEF AnsweredInOrder
          <6> QED
            BY <3>1, <4>3, <4>4, <6>1 DEF AnsweredInOrder
        <5> QED
          BY <5>1, <5>2
      <4> QED
        BY <4>6, <4>7, <4>8 DEF AnsweredInOrder
    <3>3. CASE ~(m.type = "Describe" /\ m.kind = "S")
      <4>1. asked' = asked /\ pendingDescribe' = pendingDescribe
        BY <2>1, <3>3
           DEF FeedFrontend, Handle, HandleParse, HandleBind, HandleDescribe,
               HandleClose, HandleQuery, HandleIgnored
      <4> QED
        BY <3>1, <4>1 DEF AnsweredInOrder
    <3> QED
      BY <3>2, <3>3
  <2>2. ASSUME NEW m \in BackMsgs, FeedBackend(m)
        PROVE  AnsweredInOrder'
    <3>1. asked' = asked
      BY <2>2 DEF FeedBackend
    <3>2. CASE m.type = "ParameterDescription" /\ pendingDescribe # <<>>
      <4>1. HandleParamDesc(m)
        BY <2>2, <3>2
           DEF FeedBackend, HandleBackend, HandleRowDesc, HandleIgnored
      <4>2. /\ pendingDescribe' = Tail(pendingDescribe)
            /\ event' = Ev("param_description", Head(pendingDescribe), NoSQL,
                           TRUE, <<>>)
        BY <3>2, <4>1 DEF HandleParamDesc
      <4>3. event'.stmt = Head(pendingDescribe) /\ event'.resolved = TRUE
        BY <4>2 DEF Ev
      <4>4. captured' =
              Append(captured, [name |-> Head(pendingDescribe), oids |-> m.oids])
        BY <2>2, <3>2, <4>3 DEF FeedBackend
      <4>5. m.oids \in Seq(OIDs)
        BY <3>2, HistoryAssumption DEF BackMsg
      <4> DEFINE c == [name |-> Head(pendingDescribe), oids |-> m.oids]
      <4>6. c \in [name : Names, oids : Seq(OIDs)]
        BY <2>0, <3>2, <4>5
      <4>7. /\ Len(captured') = Len(captured) + 1
            /\ captured'[Len(captured) + 1].name = Head(pendingDescribe)
            /\ \A i \in 1..Len(captured) : captured'[i] = captured[i]
        BY <2>0, <4>4, <4>6
      <4>8. /\ Len(pendingDescribe') = Len(pendingDescribe) - 1
            /\ \A i \in 1..Len(pendingDescribe') :
                  pendingDescribe'[i] = pendingDescribe[i + 1]
            /\ Head(pendingDescribe) = pendingDescribe[1]
            /\ Len(pendingDescribe) \in Nat \ {0}
        BY <2>0, <3>2, <4>2
      <4>9. Len(asked) \in Nat /\ Len(captured) \in Nat
        BY <2>0
      <4> HIDE DEF c
      <4>10. Len(asked') = Len(captured') + Len(pendingDescribe')
        <5>1. Len(asked) = Len(captured) + Len(pendingDescribe)
          BY DEF AnsweredInOrder
        <5>2. /\ Len(captured') = Len(captured) + 1
              /\ Len(pendingDescribe') = Len(pendingDescribe) - 1
              /\ Len(pendingDescribe) \in Nat \ {0}
          BY <4>7, <4>8
        <5>3. Len(asked') = Len(asked)
          BY <3>1
        <5> QED
          BY <4>9, <5>1, <5>2, <5>3
      <4>11. ASSUME NEW i \in 1..Len(captured')
             PROVE  captured'[i].name = asked'[i]
        <5>1. CASE i = Len(captured) + 1
          <6>1. pendingDescribe[1] = asked[Len(captured) + 1]
            BY <4>8 DEF AnsweredInOrder
          <6> QED
            BY <3>1, <4>7, <4>8, <5>1, <6>1
        <5>2. CASE i # Len(captured) + 1
          <6>1. i \in 1..Len(captured)
            BY <4>7, <4>9, <5>2
          <6> QED
            BY <3>1, <4>7, <6>1 DEF AnsweredInOrder
        <5> QED
          BY <5>1, <5>2
      <4>12. ASSUME NEW i \in 1..Len(pendingDescribe')
             PROVE  pendingDescribe'[i] = asked'[Len(captured') + i]
        <5>1. i + 1 \in 1..Len(pendingDescribe)
          BY <4>8
        <5>2. pendingDescribe[i + 1] = asked[Len(captured) + (i + 1)]
          BY <5>1 DEF AnsweredInOrder
        <5>3. Len(captured') + i = Len(captured) + (i + 1)
          BY <4>7, <4>9
        <5> QED
          BY <3>1, <4>8, <5>2, <5>3
      <4> QED
        BY <4>10, <4>11, <4>12 DEF AnsweredInOrder
    <3>3. CASE ~(m.type = "ParameterDescription" /\ pendingDescribe # <<>>)
      <4>1. pendingDescribe' = pendingDescribe
        BY <2>2, <3>3
           DEF FeedBackend, HandleBackend, HandleParamDesc, HandleRowDesc,
               HandleIgnored
      <4>2. m.type = "ParameterDescription" => ~event'.resolved
        BY <2>2, <3>3
           DEF FeedBackend, HandleBackend, HandleParamDesc, HandleRowDesc,
               HandleIgnored, Ev
      <4>3. captured' = captured
        BY <2>2, <4>2 DEF FeedBackend
      <4> QED
        BY <3>1, <4>1, <4>3 DEF AnsweredInOrder
    <3> QED
      BY <3>2, <3>3
  <2>3. CASE UNCHANGED vars
    BY <2>3 DEF vars, sessionVars, historyVars, AnsweredInOrder
  <2> QED
    BY <2>1, <2>2, <2>3 DEF Next
<1> QED
  BY <1>1, <1>2, TypeCorrect, PTL DEF Spec

-----------------------------------------------------------------------------
(* What a Bind is resolved to.  The session keeps no history; what it keeps *)
(* of a statement is what the history says of it last.                      *)

\* A position in S that no other one follows.
IsLast(k, S) == k \in S /\ \A j \in S : j <= k

\* Positions of the descriptions given to a name.
DescribedAt(n) == {j \in DOMAIN captured : captured[j].name = n}

\* A name is open with the SQL of its latest Parse, unless closed since.
OpenAsLogged ==
    \A n \in Names :
        \/ Touches(n) = {} /\ stmts[n] = NoSQL
        \/ \E k \in Touches(n) :
              /\ IsLast(k, Touches(n))
              /\ stmts[n] = IF log[k].type = "Parse" THEN log[k].sql ELSE NoSQL

\* A name has the types of the latest description given to it.
TypedAsCaptured ==
    \A n \in Names :
        \/ DescribedAt(n) = {} /\ paramOIDs[n] = <<>>
        \/ \E k \in DescribedAt(n) :
              /\ IsLast(k, DescribedAt(n))
              /\ paramOIDs[n] = captured[k].oids

\* The event of a Bind shows what is kept of its statement.
BoundAsKept ==
    event.kind = "bind" =>
        LET m == log[Len(log)]
        IN /\ log # <<>>
           /\ m \in FrontMsg /\ m.type = "Bind"
           /\ event = Ev("bind", m.stmt, stmts[m.stmt], stmts[m.stmt] # NoSQL,
                         ResolveParams(m))

KeptInv == HistoryTypeOK /\ OpenAsLogged /\ TypedAsCaptured /\ BoundAsKept

\* The last position of a set of them is its maximum.
LEMMA LastIsMax ==
    ASSUME NEW S \in SUBSET Nat, NEW k, IsLast(k, S)
    PROVE  Max(S) = k
<1>1. k \in S /\ \A y \in S : k >= y
  BY DEF IsLast
<1>2. \A x \in S : (\A y \in S : x >= y) => x = k
  BY <1>1
<1>3. Max(S) \in S /\ \A y \in S : Max(S) >= y
  BY <1>1 DEF Max
<1> QED
  BY <1>2, <1>3

\* Adding an element to a sequence keeps the others.
LEMMA Appended ==
    ASSUME NEW T, NEW s \in Seq(T), NEW e \in T
    PROVE  /\ DOMAIN s \subseteq Nat
           /\ DOMAIN Append(s, e) = DOMAIN s \cup {Len(s) + 1}
           /\ Len(s) + 1 \notin DOMAIN s
           /\ \A i \in DOMAIN s : i <= Len(s) + 1
           /\ \A i \in DOMAIN s : Append(s, e)[i] = s[i]
           /\ Append(s, e)[Len(s) + 1] = e
           /\ Len(Append(s, e)) = Len(s) + 1
           /\ Append(s, e) # <<>>
OBVIOUS

\* A message that does not open or close a name leaves its history; one that
\* does is the last to.
LEMMA TouchesStep ==
    ASSUME HistoryTypeOK, NEW m \in FrontMsgs \cup BackMsgs, Remember(m), NEW n
    PROVE  LET opens == /\ m.type \in {"Parse", "Close"}
                        /\ m.name = n
                        /\ m.type = "Close" => m.kind = "S"
           IN /\ Touches(n) \subseteq Nat
              /\ \A i \in Touches(n) : log'[i] = log[i]
              /\ ~opens => Touches(n)' = Touches(n)
              /\ opens => \E k \in Touches(n)' :
                             IsLast(k, Touches(n)') /\ log'[k] = m
<1> DEFINE opens == /\ m.type \in {"Parse", "Close"}
                    /\ m.name = n
                    /\ m.type = "Close" => m.kind = "S"
           new == Len(log) + 1
<1>1. log \in Seq(FrontMsgs \cup BackMsgs) /\ log' = Append(log, m)
  BY DEF HistoryTypeOK, Remember
<1>2. /\ DOMAIN log \subseteq Nat
      /\ DOMAIN log' = DOMAIN log \cup {new}
      /\ new \notin DOMAIN log
      /\ \A i \in DOMAIN log : i <= new
      /\ \A i \in DOMAIN log : log'[i] = log[i]
      /\ log'[new] = m
      /\ new \in Nat
  BY <1>1, Appended
<1> HIDE DEF new
<1>3. Touches(n) \subseteq DOMAIN log
  BY DEF Touches
<1>4. Touches(n)' = {i \in DOMAIN log' :
                       /\ log'[i].type \in {"Parse", "Close"}
                       /\ log'[i].name = n
                       /\ log'[i].type = "Close" => log'[i].kind = "S"}
  BY DEF Touches
<1>5. \A i \in DOMAIN log : i \in Touches(n)' <=> i \in Touches(n)
  BY <1>2, <1>4 DEF Touches
<1>6. new \in Touches(n)' <=> opens
  BY <1>2, <1>4
<1>7. Touches(n)' \subseteq DOMAIN log \cup {new}
  BY <1>2, <1>4
<1> HIDE DEF opens
<1>8. ~opens => Touches(n)' = Touches(n)
  BY <1>3, <1>5, <1>6, <1>7
<1>9. opens => IsLast(new, Touches(n)')
  BY <1>2, <1>6, <1>7 DEF IsLast
<1> QED
  BY <1>2, <1>3, <1>6, <1>8, <1>9 DEF opens

\* A message opens and closes the name it is about, and no other.
LEMMA StmtsStep ==
    ASSUME HistoryTypeOK, NEW m, NEW n \in Names,
           \/ m \in FrontMsgs /\ FeedFrontend(m)
           \/ m \in BackMsgs /\ FeedBackend(m)
    PROVE  LET opens == /\ m.type \in {"Parse", "Close"}
                        /\ m.name = n
                        /\ m.type = "Close" => m.kind = "S"
           IN /\ ~opens => stmts'[n] = stmts[n]
              /\ opens => stmts'[n] = IF m.type = "Parse" THEN m.sql ELSE NoSQL
<1>0. stmts \in [Names -> SQLs \cup {NoSQL}]
  BY DEF HistoryTypeOK, TypeOK
<1>1. CASE HandleParse(m)
  BY <1>0, <1>1 DEF HandleParse
<1>2. CASE HandleClose(m)
  BY <1>0, <1>2 DEF HandleClose
<1>3. CASE HandleBind(m) \/ HandleDescribe(m) \/ HandleQuery(m) \/ HandleIgnored(m)
  <2>1. m.type \notin {"Parse", "Close"}
    BY <1>3 DEF HandleBind, HandleDescribe, HandleQuery, HandleIgnored
  <2>2. stmts' = stmts
    BY <1>3 DEF HandleBind, HandleDescribe, HandleQuery, HandleIgnored
  <2> QED
    BY <2>1, <2>2
<1>4. CASE HandleParamDesc(m) \/ HandleRowDesc(m)
  <2>1. m.type \notin {"Parse", "Close"}
    BY <1>4 DEF HandleParamDesc, HandleRowDesc
  <2>2. stmts' = stmts
    BY <1>4 DEF HandleParamDesc, HandleRowDesc
  <2> QED
    BY <2>1, <2>2
<1> QED
  BY <1>1, <1>2, <1>3, <1>4 DEF FeedFrontend, FeedBackend, Handle, HandleBackend

\* A message is remembered as it was fed.
LEMMA Fed ==
    ASSUME NEW m, \/ m \in FrontMsgs /\ FeedFrontend(m)
                  \/ m \in BackMsgs /\ FeedBackend(m)
    PROVE  m \in FrontMsgs \cup BackMsgs /\ Remember(m)
BY DEF FeedFrontend, FeedBackend

\* A name stays open with the SQL of its latest Parse.
LEMMA OpenStep ==
    ASSUME HistoryTypeOK, OpenAsLogged, NEW m,
           \/ m \in FrontMsgs /\ FeedFrontend(m)
           \/ m \in BackMsgs /\ FeedBackend(m)
    PROVE  OpenAsLogged'
<1> SUFFICES ASSUME NEW n \in Names
             PROVE  \/ Touches(n)' = {} /\ stmts'[n] = NoSQL
                    \/ \E k \in Touches(n)' :
                          /\ IsLast(k, Touches(n)')
                          /\ stmts'[n] = IF log'[k].type = "Parse"
                                         THEN log'[k].sql ELSE NoSQL
  BY DEF OpenAsLogged
<1> DEFINE opens == /\ m.type \in {"Parse", "Close"}
                    /\ m.name = n
                    /\ m.type = "Close" => m.kind = "S"
<1>1. /\ ~opens => stmts'[n] = stmts[n]
      /\ opens => stmts'[n] = IF m.type = "Parse" THEN m.sql ELSE NoSQL
  BY StmtsStep
<1>2. /\ \A i \in Touches(n) : log'[i] = log[i]
      /\ ~opens => Touches(n)' = Touches(n)
      /\ opens => \E k \in Touches(n)' : IsLast(k, Touches(n)') /\ log'[k] = m
  BY Fed, TouchesStep
<1>3. CASE opens
  <2>1. PICK k \in Touches(n)' : IsLast(k, Touches(n)') /\ log'[k] = m
    BY <1>2, <1>3
  <2> QED
    BY <1>1, <1>3, <2>1
<1>4. CASE ~opens
  <2> HIDE DEF opens
  <2>1. Touches(n)' = Touches(n) /\ stmts'[n] = stmts[n]
    BY <1>1, <1>2, <1>4
  <2> QED
    BY <1>2, <2>1 DEF OpenAsLogged
<1> QED
  BY <1>3, <1>4

\* The types of a name change when a description is given to it, and then are
\* the ones described.
LEMMA TypedStep ==
    ASSUME HistoryTypeOK, TypedAsCaptured, NEW m,
           \/ m \in FrontMsgs /\ FeedFrontend(m)
           \/ m \in BackMsgs /\ FeedBackend(m)
    PROVE  TypedAsCaptured'
<1>0. /\ captured \in Seq([name : Names, oids : Seq(OIDs)])
      /\ pendingDescribe \in Seq(Names)
      /\ paramOIDs \in [Names -> Seq(OIDs)]
  BY DEF HistoryTypeOK, TypeOK
<1>1. CASE captured' = captured /\ paramOIDs' = paramOIDs
  BY <1>1 DEF TypedAsCaptured, DescribedAt
<1>2. CASE HandleParamDesc(m) /\ pendingDescribe # <<>> /\ m \in BackMsgs
           /\ FeedBackend(m)
  <2> DEFINE name == Head(pendingDescribe)
             c == [name |-> name, oids |-> m.oids]
             new == Len(captured) + 1
  <2>1. /\ m.type = "ParameterDescription"
        /\ paramOIDs' = [paramOIDs EXCEPT ![name] = m.oids]
        /\ event' = Ev("param_description", name, NoSQL, TRUE, <<>>)
    BY <1>2 DEF HandleParamDesc
  <2>2. captured' = Append(captured, c)
    BY <1>2, <2>1 DEF FeedBackend, Ev
  <2>3. c \in [name : Names, oids : Seq(OIDs)]
    <3>1. name \in Names
      BY <1>0, <1>2
    <3>2. m.oids \in Seq(OIDs)
      BY <1>2, <2>1, HistoryAssumption DEF BackMsg
    <3> QED
      BY <3>1, <3>2
  <2>4. c.name = name /\ c.oids = m.oids
    OBVIOUS
  <2> HIDE DEF c, name
  <2>5. /\ DOMAIN captured \subseteq Nat
        /\ DOMAIN captured' = DOMAIN captured \cup {new}
        /\ \A i \in DOMAIN captured : i <= new
        /\ \A i \in DOMAIN captured : captured'[i] = captured[i]
        /\ captured'[new] = c
        /\ new \in Nat
    BY <1>0, <2>2, <2>3, Appended
  <2> HIDE DEF new
  <2>6. ASSUME NEW n \in Names
        PROVE  \/ DescribedAt(n)' = {} /\ paramOIDs'[n] = <<>>
               \/ \E k \in DescribedAt(n)' :
                     /\ IsLast(k, DescribedAt(n)')
                     /\ paramOIDs'[n] = captured'[k].oids
    <3>1. DescribedAt(n)' = {j \in DOMAIN captured' : captured'[j].name = n}
      BY DEF DescribedAt
    <3>2. CASE n = name
      <4>1. new \in DescribedAt(n)' /\ IsLast(new, DescribedAt(n)')
        BY <2>4, <2>5, <3>1, <3>2 DEF IsLast
      <4>2. paramOIDs'[n] = captured'[new].oids
        BY <1>0, <2>1, <2>4, <2>5, <3>2
      <4> QED
        BY <4>1, <4>2
    <3>3. CASE n # name
      <4>1. DescribedAt(n)' = DescribedAt(n)
        BY <2>4, <2>5, <3>1, <3>3 DEF DescribedAt
      <4>2. paramOIDs'[n] = paramOIDs[n]
        BY <1>0, <2>1, <3>3
      <4>3. \A j \in DescribedAt(n) : captured'[j] = captured[j]
        BY <2>5 DEF DescribedAt
      <4> QED
        BY <4>1, <4>2, <4>3 DEF TypedAsCaptured
    <3> QED
      BY <3>2, <3>3
  <2> QED
    BY <2>6 DEF TypedAsCaptured
<1>3. CASE m \in FrontMsgs /\ FeedFrontend(m)
  <2>1. captured' = captured /\ paramOIDs' = paramOIDs
    BY <1>3
       DEF FeedFrontend, Handle, HandleParse, HandleBind, HandleDescribe,
           HandleClose, HandleQuery, HandleIgnored
  <2> QED
    BY <1>1, <2>1
<1>4. CASE /\ m \in BackMsgs /\ FeedBackend(m)
           /\ ~(HandleParamDesc(m) /\ pendingDescribe # <<>>)
  <2>1. paramOIDs' = paramOIDs
    BY <1>4 DEF FeedBackend, HandleBackend, HandleParamDesc, HandleRowDesc,
                HandleIgnored
  <2>2. m.type = "ParameterDescription" => event'.resolved = FALSE
    BY <1>4 DEF FeedBackend, HandleBackend, HandleParamDesc, HandleRowDesc,
                HandleIgnored, Ev
  <2>3. captured' = captured
    BY <1>4, <2>2 DEF FeedBackend
  <2> QED
    BY <1>1, <2>1, <2>3
<1> QED
  BY <1>2, <1>3, <1>4

\* A Bind leaves what its event shows; every other message has another event.
LEMMA BoundStep ==
    ASSUME HistoryTypeOK, NEW m,
           \/ m \in FrontMsgs /\ FeedFrontend(m)
           \/ m \in BackMsgs /\ FeedBackend(m)
    PROVE  BoundAsKept'
<1>1. log \in Seq(FrontMsgs \cup BackMsgs) /\ log' = Append(log, m)
  BY Fed DEF HistoryTypeOK, Remember
<1>2. log' # <<>> /\ log'[Len(log')] = m
  BY <1>1, Fed, Appended
<1>3. CASE HandleBind(m)
  <2>1. m.type = "Bind"
    BY <1>3 DEF HandleBind
  <2>2. m \in FrontMsg
    BY <2>1, HistoryAssumption DEF BackMsg
  <2>3. /\ event' = Ev("bind", m.stmt, stmts[m.stmt], stmts[m.stmt] # NoSQL,
                       ResolveParams(m))
        /\ UNCHANGED <<stmts, paramOIDs>>
    BY <1>3 DEF HandleBind
  <2>4. ResolveParams(m)' = ResolveParams(m)
    BY <2>3 DEF ResolveParams, ResolvedParam, HasType, CorrelationOK
  <2> QED
    BY <1>2, <2>1, <2>2, <2>3, <2>4 DEF BoundAsKept
<1>4. CASE ~HandleBind(m)
  <2>1. event'.kind # "bind"
    <3>1. CASE HandleParse(m) \/ HandleDescribe(m) \/ HandleClose(m)
               \/ HandleQuery(m) \/ HandleIgnored(m)
      BY <3>1 DEF HandleParse, HandleDescribe, HandleClose, HandleQuery,
                  HandleIgnored, NoEvent, Ev
    <3>2. CASE HandleParamDesc(m) \/ HandleRowDesc(m)
      BY <3>2 DEF HandleParamDesc, HandleRowDesc, Ev
    <3> QED
      BY <1>4, <3>1, <3>2 DEF FeedFrontend, FeedBackend, Handle, HandleBackend
  <2> QED
    BY <2>1 DEF BoundAsKept
<1> QED
  BY <1>3, <1>4

\* What the session keeps is what its history says, always.
LEMMA Kept == Spec => []KeptInv
<1>1. Init => OpenAsLogged /\ TypedAsCaptured /\ BoundAsKept
  BY DEF Init, NewSession, NoEvent, Ev, OpenAsLogged, TypedAsCaptured, BoundAsKept,
         Touches, DescribedAt
<1>2. HistoryTypeOK /\ OpenAsLogged /\ TypedAsCaptured /\ BoundAsKept /\ [Next]_vars
        => OpenAsLogged' /\ TypedAsCaptured' /\ BoundAsKept'
  <2> SUFFICES ASSUME HistoryTypeOK, OpenAsLogged, TypedAsCaptured, BoundAsKept,
                      [Next]_vars
               PROVE  OpenAsLogged' /\ TypedAsCaptured' /\ BoundAsKept'
    OBVIOUS
  <2>1. CASE UNCHANGED vars
    <3>1. OpenAsLogged'
      BY <2>1 DEF vars, sessionVars, historyVars, OpenAsLogged, Touches
    <3>2. TypedAsCaptured'
      BY <2>1 DEF vars, sessionVars, historyVars, TypedAsCaptured, DescribedAt
    <3>3. BoundAsKept'
      BY <2>1 DEF vars, sessionVars, historyVars, BoundAsKept, ResolveParams,
                  ResolvedParam, HasType, CorrelationOK
    <3> QED
      BY <3>1, <3>2, <3>3
  <2>2. CASE Next
    <3>1. PICK m : \/ m \in FrontMsgs /\ FeedFrontend(m)
                   \/ m \in BackMsgs /\ FeedBackend(m)
      BY <2>2 DEF Next
    <3> QED
      BY <3>1, OpenStep, TypedStep, BoundStep
  <2> QED
    BY <2>1, <2>2
<1> QED
  BY <1>1, <1>2, TypeCorrect, PTL DEF Spec, KeptInv

\* A Bind resolves to the SQL of the latest Parse of its name, and only while
\* no Close followed it: whatever the messages, their order and their number.
THEOREM BindsResolveToOpenStatements == Spec => []BindNamesOpenStatement
<1>1. KeptInv => BindNamesOpenStatement
  <2> SUFFICES ASSUME KeptInv, event.kind = "bind"
               PROVE  LET T == Touches(event.stmt)
                          open == T # {} /\ log[Max(T)].type = "Parse"
                      IN /\ event.resolved = open
                         /\ event.sql = IF open THEN log[Max(T)].sql ELSE NoSQL
    BY DEF BindNamesOpenStatement
  <2> DEFINE T == Touches(event.stmt)
             open == T # {} /\ log[Max(T)].type = "Parse"
  <2>1. /\ event.stmt \in Names
        /\ event.sql = stmts[event.stmt]
        /\ event.resolved = (stmts[event.stmt] # NoSQL)
    BY DEF KeptInv, HistoryTypeOK, TypeOK, BoundAsKept, Ev, Event
  <2>2. CASE T = {}
    BY <2>1, <2>2 DEF KeptInv, OpenAsLogged, IsLast
  <2>3. CASE T # {}
    <3>1. PICK k \in T :
             /\ IsLast(k, T)
             /\ stmts[event.stmt] = IF log[k].type = "Parse" THEN log[k].sql ELSE NoSQL
      BY <2>1, <2>3 DEF KeptInv, OpenAsLogged
    <3>2. T \in SUBSET Nat /\ T \subseteq DOMAIN log
      BY DEF KeptInv, HistoryTypeOK, Touches
    <3>3. Max(T) = k
      BY <3>1, <3>2, LastIsMax
    <3>4. log[k] \in FrontMsg \cup BackMsg
      BY <3>1, <3>2, HistoryAssumption DEF KeptInv, HistoryTypeOK
    <3>5. log[k].type = "Parse" => log[k].sql # NoSQL
      BY <3>4, SessionAssumption DEF FrontMsg, BackMsg
    <3> QED
      BY <2>1, <2>3, <3>1, <3>3, <3>5
  <2> QED
    BY <2>2, <2>3
<1> QED
  BY <1>1, Kept, PTL

\* A binary parameter is shown as decoded only with the type at its place in
\* the latest description given to its statement, if that has one type for each
\* parameter of the Bind.
THEOREM DecodedMeansDescribed == Spec => []DecodedOnlyAsDescribed
<1>1. KeptInv => DecodedOnlyAsDescribed
  <2> SUFFICES ASSUME KeptInv, event.kind = "bind"
               PROVE  DecodedOnlyAsDescribed
    BY DEF DecodedOnlyAsDescribed
  <2> DEFINE bind == log[Len(log)]
             D == {j \in DOMAIN captured : captured[j].name = bind.stmt}
  <2>1. /\ bind \in FrontMsg /\ bind.type = "Bind"
        /\ event.params = ResolveParams(bind)
    BY DEF KeptInv, BoundAsKept, Ev
  <2>2. bind.stmt \in Names /\ bind.params \in Seq(WireParam)
    BY <2>1 DEF FrontMsg
  <2>3. D = DescribedAt(bind.stmt)
    BY DEF DescribedAt
  <2> HIDE DEF bind, D
  <2>4. ASSUME NEW i \in DOMAIN bind.params,
               event.params[i].known, ~bind.params[i].null,
               FormatOf(bind, i) = "binary"
        PROVE  /\ D # {}
               /\ Len(captured[Max(D)].oids) = Len(bind.params)
               /\ event.params[i].oid = captured[Max(D)].oids[i]
               /\ <<captured[Max(D)].oids[i], bind.params[i].enc>> \in Decodes
    <3>1. event.params[i] = ResolvedParam(bind, i)
      BY <2>1, <2>2, <2>4 DEF ResolveParams
    <3>2. /\ HasType(bind, i)
          /\ <<paramOIDs[bind.stmt][i], bind.params[i].enc>> \in Decodes
          /\ event.params[i].oid = paramOIDs[bind.stmt][i]
      BY <2>4, <3>1 DEF ResolvedParam
    <3>3. PICK k \in D : IsLast(k, D) /\ paramOIDs[bind.stmt] = captured[k].oids
      BY <2>2, <2>3, <3>2 DEF KeptInv, TypedAsCaptured, HasType
    <3>4. D \in SUBSET Nat
      BY <2>3 DEF DescribedAt, KeptInv, HistoryTypeOK
    <3>5. Max(D) = k
      BY <3>3, <3>4, LastIsMax
    <3> QED
      BY <3>2, <3>3, <3>5 DEF HasType, CorrelationOK
  <2> QED
    BY <2>4 DEF DecodedOnlyAsDescribed, bind, D
<1> QED
  BY <1>1, Kept, PTL
=============================================================================
