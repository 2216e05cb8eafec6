----------------------------- MODULE TraceProofs -----------------------------
(***************************************************************************)
(* What the trace of a connection says of what the server did.             *)
(*                                                                         *)
(* Both sides see one stream of messages, at different points of it: the   *)
(* server has processed it up to one message, the session has been fed it  *)
(* up to another.  The invariant of this module (StreamInv) names the      *)
(* stream, the stream of replies, and how far in them everyone is; what    *)
(* each side knows is then a function of its point.                        *)
(***************************************************************************)
EXTENDS ProxyProofs

-----------------------------------------------------------------------------
(* The Bind events of a sequence of events. *)

\* b[i] are the Bind events among the first i of s, for i up to n.
BindsRun(s, n, b) ==
    b = [i \in 0..n |->
            IF i = 0 THEN <<>>
            ELSE IF s[i].kind = "bind" THEN Append(b[i - 1], s[i])
            ELSE b[i - 1]]

\* The definition of BindsIn has a solution.
LEMMA BindsRunExists ==
    ASSUME NEW s, NEW N \in Nat
    PROVE  \E b : BindsRun(s, N, b)
<1> DEFINE S == {n \in 0..N : \E b : BindsRun(s, n, b)}
<1>1. 0 \in S
  <2> DEFINE b == [i \in 0..0 |-> <<>>]
  <2>1. BindsRun(s, 0, b)
    BY DEF BindsRun
  <2> QED
    BY <2>1
<1>2. ASSUME NEW n \in 0..N, n \in S, n < N
      PROVE  n + 1 \in S
  <2>1. PICK b : BindsRun(s, n, b)
    BY <1>2
  <2> DEFINE x == IF s[n + 1].kind = "bind" THEN Append(b[n], s[n + 1]) ELSE b[n]
             c == [i \in 0..n + 1 |-> IF i = n + 1 THEN x ELSE b[i]]
  <2>2. /\ DOMAIN c = 0..n + 1 /\ c[n + 1] = x
        /\ \A i \in 0..n : c[i] = b[i]
    OBVIOUS
  <2>3. \A i \in 0..n :
          b[i] = IF i = 0 THEN <<>>
                 ELSE IF s[i].kind = "bind" THEN Append(b[i - 1], s[i])
                 ELSE b[i - 1]
    BY <2>1 DEF BindsRun
  <2>4. c = [i \in 0..n + 1 |-> c[i]]
    OBVIOUS
  <2> HIDE DEF c
  <2>5. \A i \in 0..n + 1 :
          c[i] = IF i = 0 THEN <<>>
                 ELSE IF s[i].kind = "bind" THEN Append(c[i - 1], s[i])
                 ELSE c[i - 1]
    <3> SUFFICES ASSUME NEW i \in 0..n + 1
                 PROVE  c[i] = IF i = 0 THEN <<>>
                               ELSE IF s[i].kind = "bind"
                                    THEN Append(c[i - 1], s[i])
                               ELSE c[i - 1]
      OBVIOUS
    <3>1. CASE i = n + 1
      <4>1. n \in 0..n /\ i - 1 = n /\ i # 0
        BY <3>1
      <4>2. c[i - 1] = b[n]
        BY <2>2, <4>1
      <4> QED
        BY <2>2, <3>1, <4>1, <4>2
    <3>2. CASE i # n + 1
      <4>1. i \in 0..n /\ (i # 0 => i - 1 \in 0..n)
        BY <3>2
      <4> QED
        BY <2>2, <2>3, <4>1
    <3> QED
      BY <3>1, <3>2
  <2>6. BindsRun(s, n + 1, c)
    BY <2>4, <2>5, Zenon DEF BindsRun
  <2> QED
    BY <1>2, <2>6
<1> HIDE DEF S
<1>3. N \in S
  BY <1>1, <1>2, Reaches
<1> QED
  BY <1>3 DEF S

\* Every run of the definition ends in the same Binds, those of BindsIn.
LEMMA BindsInRuns ==
    ASSUME NEW s, Len(s) \in Nat
    PROVE  \E b : BindsRun(s, Len(s), b) /\ BindsIn(s) = b[Len(s)]
<1> DEFINE b == CHOOSE x : BindsRun(s, Len(s), x)
<1>1. BindsRun(s, Len(s), b)
  BY BindsRunExists, Zenon
<1>2. BindsIn(s) = b[Len(s)]
  BY Zenon DEF BindsIn, BindsRun
<1> QED
  BY <1>1, <1>2, Zenon

\* Two solutions agree where the sequences do.
LEMMA BindsRunsAgree ==
    ASSUME NEW s, NEW t, NEW m \in Nat, NEW n \in Nat, m <= n,
           NEW b, NEW c, BindsRun(s, m, b), BindsRun(t, n, c),
           \A i \in 1..m : s[i] = t[i]
    PROVE  \A i \in 0..m : b[i] = c[i]
<1> DEFINE S == {i \in 0..m : b[i] = c[i]}
<1>1. \A i \in 0..m :
        b[i] = IF i = 0 THEN <<>>
               ELSE IF s[i].kind = "bind" THEN Append(b[i - 1], s[i])
               ELSE b[i - 1]
  BY DEF BindsRun
<1>5. \A i \in 0..n :
        c[i] = IF i = 0 THEN <<>>
               ELSE IF t[i].kind = "bind" THEN Append(c[i - 1], t[i])
               ELSE c[i - 1]
  BY DEF BindsRun
<1>6. \A i \in 0..m : i \in 0..n
  OBVIOUS
<1>2. 0 \in S
  <2>1. 0 \in 0..m /\ 0 \in 0..n
    OBVIOUS
  <2> QED
    BY <1>1, <1>5, <2>1
<1>3. ASSUME NEW i \in 0..m, i \in S, i < m
      PROVE  i + 1 \in S
  <2>1. i + 1 \in 0..m /\ i + 1 \in 1..m /\ i + 1 # 0 /\ (i + 1) - 1 = i
    BY <1>3
  <2>2. b[i] = c[i] /\ s[i + 1] = t[i + 1]
    BY <1>3, <2>1
  <2>3. b[i + 1] = c[i + 1]
    BY <1>1, <1>5, <1>6, <2>1, <2>2
  <2> QED
    BY <2>1, <2>3
<1>4. \A i \in 0..m : i \in S
  <2> HIDE DEF S
  <2> QED
    BY <1>2, <1>3, Reaches
<1> QED
  BY <1>4

\* One more event, and its Bind if it is one.
LEMMA BindsInAppend ==
    ASSUME NEW T, NEW s \in Seq(T), NEW e \in T
    PROVE  BindsIn(Append(s, e)) =
             IF e.kind = "bind" THEN Append(BindsIn(s), e) ELSE BindsIn(s)
<1> DEFINE t == Append(s, e)
           n == Len(s)
<1>1. /\ n \in Nat /\ Len(t) = n + 1 /\ t[n + 1] = e
      /\ \A i \in 1..n : t[i] = s[i]
  OBVIOUS
<1> HIDE DEF t, n
<1>2. PICK b : BindsRun(s, n, b) /\ BindsIn(s) = b[n]
  BY <1>1, BindsInRuns DEF n
<1>3. PICK c : BindsRun(t, n + 1, c) /\ BindsIn(t) = c[n + 1]
  BY <1>1, BindsInRuns
<1>4. b[n] = c[n]
  <2>1. n + 1 \in Nat /\ n <= n + 1 /\ n \in 0..n
    BY <1>1
  <2> QED
    BY <1>1, <1>2, <1>3, <2>1, BindsRunsAgree
<1>5. c[n + 1] = IF t[n + 1].kind = "bind" THEN Append(c[n], t[n + 1]) ELSE c[n]
  <2>1. n + 1 \in 0..n + 1 /\ n + 1 # 0 /\ (n + 1) - 1 = n
    BY <1>1
  <2> QED
    BY <1>3, <2>1 DEF BindsRun
<1> QED
  BY <1>1, <1>2, <1>3, <1>4, <1>5 DEF t

\* No events, no Binds.
LEMMA BindsInNone == BindsIn(<<>>) = <<>>
<1>1. Len(<<>>) = 0
  OBVIOUS
<1>2. PICK b : BindsRun(<<>>, 0, b) /\ BindsIn(<<>>) = b[0]
  BY <1>1, BindsInRuns
<1> QED
  BY <1>2 DEF BindsRun

\* The Binds of a sequence of events are such events, and no more than it has.
LEMMA BindsInType ==
    ASSUME NEW T, NEW s \in Seq(T)
    PROVE  BindsIn(s) \in Seq(T) /\ Len(BindsIn(s)) <= Len(s)
<1>1. PICK b : BindsRun(s, Len(s), b) /\ BindsIn(s) = b[Len(s)]
  BY BindsInRuns
<1> DEFINE S == {i \in 0..Len(s) : b[i] \in Seq(T) /\ Len(b[i]) <= i}
<1>2. \A i \in 0..Len(s) :
        b[i] = IF i = 0 THEN <<>>
               ELSE IF s[i].kind = "bind" THEN Append(b[i - 1], s[i])
               ELSE b[i - 1]
  BY <1>1 DEF BindsRun
<1>3. 0 \in S
  <2>1. 0 \in 0..Len(s) /\ <<>> \in Seq(T) /\ Len(<<>>) = 0
    OBVIOUS
  <2>2. b[0] = <<>>
    BY <1>2, <2>1
  <2>3. Len(b[0]) = 0 /\ b[0] \in Seq(T)
    BY <2>1, <2>2, Zenon
  <2> QED
    BY <2>1, <2>3
<1>4. ASSUME NEW i \in 0..Len(s), i \in S, i < Len(s)
      PROVE  i + 1 \in S
  <2>1. i + 1 \in 1..Len(s) /\ i + 1 \in 0..Len(s) /\ (i + 1) - 1 = i
    BY <1>4
  <2>2. s[i + 1] \in T /\ b[i] \in Seq(T) /\ Len(b[i]) <= i + 1
    BY <1>4, <2>1
  <2>3. /\ Append(b[i], s[i + 1]) \in Seq(T)
        /\ Len(Append(b[i], s[i + 1])) <= i + 1
    BY <1>4, <2>2
  <2>4. b[i + 1] = IF s[i + 1].kind = "bind" THEN Append(b[i], s[i + 1])
                   ELSE b[i]
    BY <1>2, <2>1
  <2> QED
    BY <2>1, <2>2, <2>3, <2>4
<1>5. \A i \in 0..Len(s) : i \in S
  <2>1. Len(s) \in Nat
    OBVIOUS
  <2> HIDE DEF S
  <2> QED
    BY <1>3, <1>4, <2>1, Reaches
<1>6. Len(s) \in 0..Len(s)
  OBVIOUS
<1> QED
  BY <1>1, <1>5, <1>6

\* The Binds of a concatenation are those of its parts.
LEMMA BindsInConcat ==
    ASSUME NEW T, NEW s \in Seq(T), NEW t \in Seq(T)
    PROVE  BindsIn(s \o t) = BindsIn(s) \o BindsIn(t)
<1> DEFINE u(n) == SubSeq(t, 1, n)
           S == {n \in 0..Len(t) : BindsIn(s \o u(n)) = BindsIn(s) \o BindsIn(u(n))}
<1>1. BindsIn(s) \in Seq(T)
  BY BindsInType
<1>2. 0 \in S
  <2>1. u(0) = <<>> /\ s \o <<>> = s /\ 0 \in 0..Len(t)
    OBVIOUS
  <2>2. BindsIn(s) \o <<>> = BindsIn(s)
    BY <1>1
  <2> QED
    BY <2>1, <2>2, BindsInNone
<1>3. ASSUME NEW n \in 0..Len(t), n \in S, n < Len(t)
      PROVE  n + 1 \in S
  <2> DEFINE v == u(n)
             e == t[n + 1]
  <2>1. /\ v \in Seq(T) /\ e \in T /\ u(n + 1) = Append(v, e)
        /\ n + 1 \in 0..Len(t)
    <3>1. v \in Seq(T) /\ Len(v) = n /\ u(n + 1) \in Seq(T) /\ Len(u(n + 1)) = n + 1
      BY <1>3
    <3>2. e \in T /\ n + 1 \in 0..Len(t)
      BY <1>3
    <3>3. \A i \in 1..n + 1 : u(n + 1)[i] = Append(v, e)[i]
      BY <1>3, <3>1
    <3>4. Append(v, e) \in Seq(T) /\ Len(Append(v, e)) = n + 1
      BY <3>1, <3>2
    <3> QED
      BY <3>1, <3>2, <3>3, <3>4, SeqEqual
  <2>2. BindsIn(s \o v) = BindsIn(s) \o BindsIn(v)
    BY <1>3
  <2> HIDE DEF v, e
  <2>3. s \o Append(v, e) = Append(s \o v, e) /\ s \o v \in Seq(T)
    BY <2>1
  <2>4. BindsIn(v) \in Seq(T)
    BY <2>1, BindsInType
  <2>5. BindsIn(s) \o Append(BindsIn(v), e) = Append(BindsIn(s) \o BindsIn(v), e)
    BY <1>1, <2>1, <2>4
  <2>6. BindsIn(s \o Append(v, e)) = BindsIn(s) \o BindsIn(Append(v, e))
    <3>1. BindsIn(Append(v, e)) = IF e.kind = "bind" THEN Append(BindsIn(v), e)
                                  ELSE BindsIn(v)
      BY <2>1, BindsInAppend
    <3>2. BindsIn(Append(s \o v, e)) =
            IF e.kind = "bind" THEN Append(BindsIn(s \o v), e)
            ELSE BindsIn(s \o v)
      BY <2>1, <2>3, BindsInAppend
    <3> QED
      BY <2>2, <2>3, <2>5, <3>1, <3>2, Zenon
  <2> QED
    BY <2>1, <2>6
<1>4. \A n \in 0..Len(t) : n \in S
  <2>1. Len(t) \in Nat
    OBVIOUS
  <2> HIDE DEF S
  <2> QED
    BY <1>2, <1>3, <2>1, Reaches
<1>5. Len(t) \in 0..Len(t) /\ u(Len(t)) = t
  <2>1. u(Len(t)) \in Seq(T) /\ Len(u(Len(t))) = Len(t)
    OBVIOUS
  <2>2. \A i \in 1..Len(t) : u(Len(t))[i] = t[i]
    OBVIOUS
  <2> HIDE DEF u
  <2> QED
    BY <2>1, <2>2, SeqEqual
<1> QED
  BY <1>4, <1>5


-----------------------------------------------------------------------------
(* A stream of frontend messages, and what is known after each.            *)

Lookup == SQLs \cup {NoSQL}
Ask == [name : Names, among : SUBSET SQLs]

\* The state of one who saw a beginning of the stream: the open statements, as
\* the session keeps them and as the server does; the SQL texts each name was
\* parsed with; for each Bind, what the server runs for it and the session
\* shows; and the statements described, with the SQL texts each may have had.
Moment == [open : [Names -> Lookup], live : [Names -> Lookup],
           parsed : [Names -> SUBSET SQLs],
           ran : Seq(Lookup), shown : Seq(Lookup), asked : Seq(Ask)]

Start == [open |-> [n \in Names |-> NoSQL], live |-> [n \in Names |-> NoSQL],
          parsed |-> [n \in Names |-> {}],
          ran |-> <<>>, shown |-> <<>>, asked |-> <<>>]

Describes(m) == m.type = "Describe" /\ m.kind = "S"

OpenAfter(o, m) ==
    CASE m.type = "Parse" -> [o EXCEPT ![m.name] = m.sql]
      [] m.type = "Close" /\ m.kind = "S" -> [o EXCEPT ![m.name] = NoSQL]
      [] OTHER -> o

\* The server drops the unnamed statement when it runs a simple query; the
\* session does not.
LiveAfter(l, m) ==
    IF m.type = "Query" THEN [l EXCEPT ![Unnamed] = NoSQL] ELSE OpenAfter(l, m)

ParsedAfter(p, m) ==
    IF m.type = "Parse" THEN [p EXCEPT ![m.name] = @ \cup {m.sql}] ELSE p

After(c, m) ==
    [open |-> OpenAfter(c.open, m),
     live |-> LiveAfter(c.live, m),
     parsed |-> ParsedAfter(c.parsed, m),
     ran |-> IF m.type = "Bind" THEN Append(c.ran, c.live[m.stmt]) ELSE c.ran,
     shown |-> IF m.type = "Bind" THEN Append(c.shown, c.open[m.stmt]) ELSE c.shown,
     asked |-> IF Describes(m)
               THEN Append(c.asked, [name |-> m.name, among |-> c.parsed[m.name]])
               ELSE c.asked]

\* s is where t begins.
Begins(s, t) == Len(s) <= Len(t) /\ \A k \in 1..Len(s) : s[k] = t[k]

\* What is live is open, as it is; what is open was parsed; what ran is shown.
MomentOK(c) ==
    /\ \A n \in Names : c.live[n] # NoSQL => c.open[n] = c.live[n]
    /\ \A n \in Names : c.open[n] # NoSQL => c.open[n] \in c.parsed[n]
    /\ \A n \in Names : IsFiniteSet(c.parsed[n])
    /\ Len(c.shown) = Len(c.ran)
    /\ \A k \in 1..Len(c.ran) : c.ran[k] # NoSQL => c.shown[k] = c.ran[k]
    /\ \A k \in 1..Len(c.asked) :
          c.asked[k].among \subseteq c.parsed[c.asked[k].name]

\* Who has seen more knows as much, and more.
Grows(c, d) ==
    /\ Begins(c.ran, d.ran) /\ Begins(c.shown, d.shown)
    /\ Begins(c.asked, d.asked)
    /\ \A n \in Names : c.parsed[n] \subseteq d.parsed[n]

\* The Binds among the messages of the stream from the ith on, up to the jth.
BindsOf(S, i, j) == {k \in 1..j - i : S[i + k].type = "Bind"}

CountsBinds(S, h, i, j) ==
    /\ IsFiniteSet(BindsOf(S, i, j))
    /\ Len(h[j].ran) = Len(h[i].ran) + Cardinality(BindsOf(S, i, j))

\* h[i] is what is known after i messages of S.
RunOf(S, h) ==
    /\ h \in [0..Len(S) -> Moment]
    /\ h[0] = Start
    /\ \A i \in 1..Len(S) : h[i] = After(h[i - 1], S[i])
    /\ \A i \in 0..Len(S) : MomentOK(h[i])
    /\ \A i, j \in 0..Len(S) :
          i <= j => Grows(h[i], h[j]) /\ CountsBinds(S, h, i, j)

\* One has seen nothing.
LEMMA StartOK == Start \in Moment /\ MomentOK(Start)
<1>1. <<>> \in Seq(Lookup) /\ <<>> \in Seq(Ask) /\ Len(<<>>) = 0
  OBVIOUS
<1>2. IsFiniteSet({})
  BY FS_EmptySet
<1>3. Start \in Moment
  BY <1>1 DEF Start, Moment, Lookup
<1>4. MomentOK(Start)
  BY <1>1, <1>2 DEF Start, MomentOK
<1> QED
  BY <1>3, <1>4

\* One message keeps the types of what is known.
LEMMA AfterType ==
    ASSUME NEW c \in Moment, NEW m \in FrontMsg
    PROVE  /\ After(c, m) \in Moment
           /\ OpenAfter(c.open, m) \in [Names -> Lookup]
           /\ LiveAfter(c.live, m) \in [Names -> Lookup]
           /\ ParsedAfter(c.parsed, m) \in [Names -> SUBSET SQLs]
<1> DEFINE a == [name |-> m.name, among |-> c.parsed[m.name]]
<1>1. /\ c.open \in [Names -> Lookup] /\ c.live \in [Names -> Lookup]
      /\ c.parsed \in [Names -> SUBSET SQLs]
      /\ c.ran \in Seq(Lookup) /\ c.shown \in Seq(Lookup) /\ c.asked \in Seq(Ask)
  BY DEF Moment
<1>2. /\ m.type = "Parse" => m.name \in Names /\ m.sql \in SQLs
      /\ m.type = "Bind" => m.stmt \in Names
      /\ m.type = "Describe" => m.name \in Names
      /\ m.type = "Close" => m.name \in Names
      /\ Unnamed \in Names
  BY SessionAssumption DEF FrontMsg
<1>3. OpenAfter(c.open, m) \in [Names -> Lookup]
  BY <1>1, <1>2 DEF OpenAfter, Lookup
<1>4. LiveAfter(c.live, m) \in [Names -> Lookup]
  <2>1. OpenAfter(c.live, m) \in [Names -> Lookup]
    BY <1>1, <1>2 DEF OpenAfter, Lookup
  <2> QED
    BY <1>1, <1>2, <2>1 DEF LiveAfter, Lookup
<1>5. ParsedAfter(c.parsed, m) \in [Names -> SUBSET SQLs]
  BY <1>1, <1>2 DEF ParsedAfter
<1>6. /\ m.type = "Bind" => Append(c.ran, c.live[m.stmt]) \in Seq(Lookup)
      /\ m.type = "Bind" => Append(c.shown, c.open[m.stmt]) \in Seq(Lookup)
  BY <1>1, <1>2
<1>7. Describes(m) => Append(c.asked, a) \in Seq(Ask)
  <2>1. ASSUME Describes(m) PROVE a \in Ask
    BY <1>1, <1>2, <2>1 DEF Describes, Ask
  <2> HIDE DEF a
  <2> QED
    BY <1>1, <2>1
<1>8. After(c, m) \in Moment
  BY <1>1, <1>3, <1>4, <1>5, <1>6, <1>7 DEF After, Moment
<1> QED
  BY <1>3, <1>4, <1>5, <1>8

\* A sequence is where it begins, and where it goes on from.
LEMMA BeginsAppend ==
    ASSUME NEW T, NEW s \in Seq(T), NEW x \in T
    PROVE  Begins(s, s) /\ Begins(s, Append(s, x))
BY DEF Begins

\* What begins a sequence begins what that one begins.
LEMMA BeginsTrans ==
    ASSUME NEW T, NEW s \in Seq(T), NEW t \in Seq(T), NEW u \in Seq(T),
           Begins(s, t), Begins(t, u)
    PROVE  Begins(s, u)
BY DEF Begins

\* One message more, and more is known.
LEMMA AfterGrows ==
    ASSUME NEW c \in Moment, NEW m \in FrontMsg
    PROVE  Grows(c, c) /\ Grows(c, After(c, m))
<1> DEFINE a == [name |-> m.name, among |-> c.parsed[m.name]]
<1>1. /\ c.open \in [Names -> Lookup] /\ c.live \in [Names -> Lookup]
      /\ c.parsed \in [Names -> SUBSET SQLs]
      /\ c.ran \in Seq(Lookup) /\ c.shown \in Seq(Lookup) /\ c.asked \in Seq(Ask)
  BY DEF Moment
<1>2. m.type = "Bind" => c.live[m.stmt] \in Lookup /\ c.open[m.stmt] \in Lookup
  BY <1>1 DEF FrontMsg
<1>3. Describes(m) => a \in Ask
  BY <1>1 DEF Describes, FrontMsg, Ask
<1>4. \A n \in Names : c.parsed[n] \subseteq ParsedAfter(c.parsed, m)[n]
  BY <1>1 DEF ParsedAfter, FrontMsg
<1> HIDE DEF a
<1>5. /\ Begins(c.ran, c.ran) /\ Begins(c.shown, c.shown)
      /\ Begins(c.asked, c.asked)
  BY <1>1 DEF Begins
<1>6. Begins(c.ran, After(c, m).ran) /\ Begins(c.shown, After(c, m).shown)
  <2>1. m.type = "Bind" => /\ Begins(c.ran, Append(c.ran, c.live[m.stmt]))
                           /\ Begins(c.shown, Append(c.shown, c.open[m.stmt]))
    BY <1>1, <1>2 DEF Begins
  <2> QED
    BY <1>5, <2>1 DEF After
<1>7. Begins(c.asked, After(c, m).asked)
  <2>1. Describes(m) => Begins(c.asked, Append(c.asked, a))
    BY <1>1, <1>3 DEF Begins
  <2> QED
    BY <1>5, <2>1 DEF After, a
<1> QED
  BY <1>4, <1>5, <1>6, <1>7 DEF Grows, After

\* What is known at a message is known at every later one.
LEMMA GrowsTrans ==
    ASSUME NEW c \in Moment, NEW d \in Moment, NEW e \in Moment,
           Grows(c, d), Grows(d, e)
    PROVE  Grows(c, e)
<1>1. /\ c.ran \in Seq(Lookup) /\ c.shown \in Seq(Lookup) /\ c.asked \in Seq(Ask)
      /\ d.ran \in Seq(Lookup) /\ d.shown \in Seq(Lookup) /\ d.asked \in Seq(Ask)
      /\ e.ran \in Seq(Lookup) /\ e.shown \in Seq(Lookup) /\ e.asked \in Seq(Ask)
  BY DEF Moment
<1>2. Begins(c.ran, e.ran) /\ Begins(c.shown, e.shown)
  BY <1>1, BeginsTrans DEF Grows
<1>3. Begins(c.asked, e.asked)
  BY <1>1, BeginsTrans DEF Grows
<1> QED
  BY <1>2, <1>3 DEF Grows

\* One message keeps what a moment says of itself.
LEMMA AfterOK ==
    ASSUME NEW c \in Moment, MomentOK(c), NEW m \in FrontMsg
    PROVE  MomentOK(After(c, m))
<1> DEFINE a == [name |-> m.name, among |-> c.parsed[m.name]]
           d == After(c, m)
<1>1. /\ c.open \in [Names -> Lookup] /\ c.live \in [Names -> Lookup]
      /\ c.parsed \in [Names -> SUBSET SQLs]
      /\ c.ran \in Seq(Lookup) /\ c.shown \in Seq(Lookup) /\ c.asked \in Seq(Ask)
  BY DEF Moment
<1>2. /\ m.type = "Parse" => m.name \in Names /\ m.sql \in SQLs
      /\ m.type = "Bind" => m.stmt \in Names
      /\ m.type = "Describe" => m.name \in Names
      /\ m.type = "Close" => m.name \in Names
      /\ Unnamed \in Names /\ NoSQL \notin SQLs
  BY SessionAssumption DEF FrontMsg
<1>3. /\ d.open = OpenAfter(c.open, m) /\ d.live = LiveAfter(c.live, m)
      /\ d.parsed = ParsedAfter(c.parsed, m)
      /\ d.ran = IF m.type = "Bind" THEN Append(c.ran, c.live[m.stmt]) ELSE c.ran
      /\ d.shown = IF m.type = "Bind" THEN Append(c.shown, c.open[m.stmt])
                   ELSE c.shown
      /\ d.asked = IF Describes(m) THEN Append(c.asked, a) ELSE c.asked
  BY DEF After
<1> HIDE DEF a, d
<1>4. \A n \in Names : d.live[n] # NoSQL => d.open[n] = d.live[n]
  BY <1>1, <1>2, <1>3 DEF MomentOK, OpenAfter, LiveAfter
<1>5. \A n \in Names : d.open[n] # NoSQL => d.open[n] \in d.parsed[n]
  BY <1>1, <1>2, <1>3 DEF MomentOK, OpenAfter, ParsedAfter
<1>6. \A n \in Names : IsFiniteSet(d.parsed[n])
  <2>1. ASSUME NEW n \in Names PROVE IsFiniteSet(c.parsed[n] \cup {m.sql})
    BY FS_AddElement DEF MomentOK
  <2>2. ASSUME NEW n \in Names
        PROVE  d.parsed[n] \in {c.parsed[n], c.parsed[n] \cup {m.sql}}
    BY <1>1, <1>2, <1>3 DEF ParsedAfter
  <2> QED
    BY <2>1, <2>2 DEF MomentOK
<1>7. /\ Len(d.shown) = Len(d.ran)
      /\ \A k \in 1..Len(d.ran) : d.ran[k] # NoSQL => d.shown[k] = d.ran[k]
  <2>1. CASE m.type = "Bind"
    <3>1. c.live[m.stmt] # NoSQL => c.open[m.stmt] = c.live[m.stmt]
      BY <1>2, <2>1 DEF MomentOK
    <3>2. c.live[m.stmt] \in Lookup /\ c.open[m.stmt] \in Lookup
      BY <1>1, <1>2, <2>1
    <3>3. /\ Len(c.shown) = Len(c.ran)
          /\ \A k \in 1..Len(c.ran) : c.ran[k] # NoSQL => c.shown[k] = c.ran[k]
      BY DEF MomentOK
    <3> QED
      BY <1>1, <1>3, <2>1, <3>1, <3>2, <3>3
  <2>2. CASE m.type # "Bind"
    BY <1>3, <2>2 DEF MomentOK
  <2> QED
    BY <2>1, <2>2
<1>8. \A k \in 1..Len(d.asked) : d.asked[k].among \subseteq d.parsed[d.asked[k].name]
  <2>1. \A n \in Names : c.parsed[n] \subseteq d.parsed[n]
    BY <1>1, <1>2, <1>3 DEF ParsedAfter
  <2>2. ASSUME NEW k \in 1..Len(c.asked)
        PROVE  c.asked[k].among \subseteq d.parsed[c.asked[k].name]
    <3>0. c.asked[k] \in Ask
      BY <1>1
    <3>1. c.asked[k].name \in Names
      BY <3>0 DEF Ask
    <3>2. c.asked[k].among \subseteq c.parsed[c.asked[k].name]
      BY DEF MomentOK
    <3> QED
      BY <2>1, <3>1, <3>2
  <2>3. CASE Describes(m)
    <3>1. m.name \in Names /\ a.name = m.name /\ a.among = c.parsed[m.name]
      BY <1>2, <2>3 DEF Describes, a
    <3>2. a.among \subseteq d.parsed[a.name] /\ a \in Ask
      BY <1>1, <2>1, <3>1 DEF a, Ask
    <3>3. /\ Len(d.asked) = Len(c.asked) + 1 /\ d.asked[Len(c.asked) + 1] = a
          /\ \A k \in 1..Len(c.asked) : d.asked[k] = c.asked[k]
      BY <1>1, <1>3, <2>3, <3>2
    <3>4. Len(c.asked) \in Nat
      BY <1>1
    <3>5. ASSUME NEW k \in 1..Len(d.asked)
          PROVE  k = Len(c.asked) + 1 \/ k \in 1..Len(c.asked)
      BY <3>3, <3>4
    <3> QED
      BY <2>2, <3>2, <3>3, <3>5
  <2>4. CASE ~Describes(m)
    BY <1>3, <2>2, <2>4
  <2> QED
    BY <2>3, <2>4
<1> QED
  BY <1>4, <1>5, <1>6, <1>7, <1>8 DEF MomentOK, d

\* The Binds of a stream that goes on.
LEMMA CountsNone ==
    ASSUME NEW S, NEW h \in [0..Len(S) -> Moment], NEW i \in 0..Len(S), Len(S) \in Nat
    PROVE  CountsBinds(S, h, i, i)
<1>1. i - i = 0 /\ 1..0 = {}
  OBVIOUS
<1>2. BindsOf(S, i, i) = {}
  BY <1>1 DEF BindsOf
<1>3. Len(h[i].ran) \in Nat
  BY DEF Moment
<1>4. IsFiniteSet({}) /\ Cardinality({}) = 0
  BY FS_EmptySet
<1> QED
  BY <1>2, <1>3, <1>4 DEF CountsBinds

\* One message more adds one to what ran and was shown exactly if it is a Bind.
LEMMA CountsNext ==
    ASSUME NEW S \in Seq(FrontMsg), NEW m \in FrontMsg,
           NEW h, NEW k, NEW i \in 0..Len(S),
           h[i] \in Moment, h[Len(S)] \in Moment, CountsBinds(S, h, i, Len(S)),
           k[i] = h[i], k[Len(S) + 1] = After(h[Len(S)], m)
    PROVE  CountsBinds(Append(S, m), k, i, Len(S) + 1)
<1> DEFINE n == Len(S)
           B == BindsOf(S, i, n)
           C == BindsOf(Append(S, m), i, n + 1)
           c == h[n]
<1>1. /\ n \in Nat /\ i \in Nat /\ i <= n
      /\ Append(S, m)[n + 1] = m /\ \A j \in 1..n : Append(S, m)[j] = S[j]
  OBVIOUS
<1>2. C = IF m.type = "Bind" THEN B \cup {n + 1 - i} ELSE B
  <2>1. ASSUME NEW j \in 1..n - i PROVE Append(S, m)[i + j] = S[i + j]
    BY <1>1
  <2>2. /\ 1..n + 1 - i = (1..n - i) \cup {n + 1 - i}
        /\ i + (n + 1 - i) = n + 1
    BY <1>1
  <2> QED
    BY <1>1, <2>1, <2>2 DEF BindsOf
<1>3. n + 1 - i \notin B
  BY <1>1 DEF BindsOf
<1>4. IsFiniteSet(B) /\ Len(c.ran) = Len(h[i].ran) + Cardinality(B)
  BY DEF CountsBinds
<1>5. c.ran \in Seq(Lookup) /\ h[i].ran \in Seq(Lookup)
  BY DEF Moment
<1>6. Cardinality(B) \in Nat
  BY <1>4, FS_CardinalityType
<1>7. m.type = "Bind" => c.live[m.stmt] \in Lookup
  BY DEF Moment, FrontMsg
<1>8. After(c, m).ran = IF m.type = "Bind" THEN Append(c.ran, c.live[m.stmt])
                        ELSE c.ran
  BY DEF After
<1> HIDE DEF B, C, c, n
<1>9. /\ IsFiniteSet(C)
      /\ Cardinality(C) = Cardinality(B) + IF m.type = "Bind" THEN 1 ELSE 0
  <2>1. /\ IsFiniteSet(B \cup {n + 1 - i})
        /\ Cardinality(B \cup {n + 1 - i}) = Cardinality(B) + 1
    BY <1>3, <1>4, FS_AddElement
  <2> QED
    BY <1>2, <1>4, <1>6, <2>1
<1>10. Len(After(c, m).ran) = Len(c.ran) + IF m.type = "Bind" THEN 1 ELSE 0
  <2>1. m.type = "Bind" => Len(Append(c.ran, c.live[m.stmt])) = Len(c.ran) + 1
    BY <1>5, <1>7
  <2>2. Len(c.ran) \in Nat
    BY <1>5
  <2>3. CASE m.type = "Bind"
    BY <1>8, <2>1, <2>3
  <2>4. CASE m.type # "Bind"
    <3>1. After(c, m).ran = c.ran
      BY <1>8, <2>4
    <3> QED
      BY <2>2, <2>4, <3>1
  <2> QED
    BY <2>3, <2>4
<1>11. Len(k[n + 1].ran) = Len(k[i].ran) + Cardinality(C)
  <2>1. k[n + 1] = After(c, m) /\ k[i] = h[i]
    BY DEF c, n
  <2>2. Len(c.ran) \in Nat /\ Len(h[i].ran) \in Nat
    BY <1>5
  <2>3. /\ Len(After(c, m).ran) = Len(c.ran) + IF m.type = "Bind" THEN 1 ELSE 0
        /\ Cardinality(C) = Cardinality(B) + IF m.type = "Bind" THEN 1 ELSE 0
        /\ Len(c.ran) = Len(h[i].ran) + Cardinality(B)
    BY <1>4, <1>9, <1>10
  <2>4. Len(After(c, m).ran) = Len(h[i].ran) + Cardinality(C)
    <3>1. CASE m.type = "Bind"
      <4>1. /\ Len(After(c, m).ran) = Len(c.ran) + 1
            /\ Cardinality(C) = Cardinality(B) + 1
        BY <2>3, <3>1
      <4>2. \A x, y \in Nat : (x + y) + 1 = x + (y + 1)
        OBVIOUS
      <4> QED
        BY <1>6, <2>2, <2>3, <4>1, <4>2, Zenon
    <3>2. CASE m.type # "Bind"
      <4>1. /\ Len(After(c, m).ran) = Len(c.ran) + 0
            /\ Cardinality(C) = Cardinality(B) + 0
        BY <2>3, <3>2
      <4>2. Len(c.ran) + 0 = Len(c.ran) /\ Cardinality(B) + 0 = Cardinality(B)
        BY <1>6, <2>2
      <4> QED
        BY <2>3, <4>1, <4>2, Zenon
    <3> QED
      BY <3>1, <3>2
  <2> QED
    BY <2>1, <2>4
<1> QED
  BY <1>9, <1>11 DEF CountsBinds, C, n

\* The run of an empty stream, and of one that goes on by a message.
LEMMA RunStart == RunOf(<<>>, [i \in 0..0 |-> Start])
<1> DEFINE h == [i \in 0..0 |-> Start]
<1>1. /\ Len(<<>>) = 0 /\ h \in [0..Len(<<>>) -> Moment] /\ h[0] = Start
      /\ 0 \in 0..Len(<<>>)
      /\ \A i \in 0..Len(<<>>) : i = 0
      /\ ~ \E i \in 1..Len(<<>>) : TRUE
  BY StartOK
<1> HIDE DEF h
<1>2. Grows(h[0], h[0])
  <2>1. Len(<<>>) = 0
    OBVIOUS
  <2> QED
    BY <1>1, <2>1 DEF Grows, Begins, Start
<1>3. CountsBinds(<<>>, h, 0, 0)
  BY <1>1, CountsNone
<1>4. RunOf(<<>>, h)
  BY <1>1, <1>2, <1>3, StartOK DEF RunOf
<1> QED
  BY <1>4 DEF h

\* A stream with one message more has a run that agrees on those before.
LEMMA RunNext ==
    ASSUME NEW S \in Seq(FrontMsg), NEW h, RunOf(S, h), NEW m \in FrontMsg
    PROVE  \E k : /\ RunOf(Append(S, m), k)
                  /\ \A i \in 0..Len(S) : k[i] = h[i]
<1> DEFINE n == Len(S)
           U == Append(S, m)
           x == After(h[n], m)
           k == [i \in 0..n + 1 |-> IF i = n + 1 THEN x ELSE h[i]]
<1>1. /\ n \in Nat /\ U \in Seq(FrontMsg) /\ Len(U) = n + 1 /\ U[n + 1] = m
      /\ \A i \in 1..n : U[i] = S[i]
      /\ n \in 0..n /\ 0 \in 0..n
  OBVIOUS
<1>2. /\ DOMAIN k = 0..n + 1 /\ k[n + 1] = x /\ \A i \in 0..n : k[i] = h[i]
      /\ k = [i \in 0..n + 1 |-> k[i]]
  BY <1>1
<1>3. /\ \A i \in 0..n : h[i] \in Moment /\ MomentOK(h[i])
      /\ h[0] = Start /\ \A i \in 1..n : h[i] = After(h[i - 1], S[i])
      /\ \A i, j \in 0..n : i <= j => Grows(h[i], h[j]) /\ CountsBinds(S, h, i, j)
  BY DEF RunOf
<1>4. x \in Moment /\ MomentOK(x)
  BY <1>1, <1>3, AfterType, AfterOK
<1>5. \A i \in 0..n : Grows(h[i], x)
  <2>1. Grows(h[n], x)
    BY <1>1, <1>3, AfterGrows
  <2> SUFFICES ASSUME NEW i \in 0..n PROVE Grows(h[i], x)
    OBVIOUS
  <2>2. Grows(h[i], h[n]) /\ h[i] \in Moment /\ h[n] \in Moment
    BY <1>1, <1>3
  <2> HIDE DEF x
  <2> QED
    BY <1>4, <2>1, <2>2, GrowsTrans
<1>6. Grows(x, x)
  BY <1>4, AfterGrows, <1>1
<1> HIDE DEF k, x, U
<1>7. \A i \in 0..n + 1 : i = n + 1 \/ i \in 0..n
  BY <1>1
<1>8. /\ k \in [0..n + 1 -> Moment] /\ k[0] = Start
      /\ \A i \in 0..n + 1 : MomentOK(k[i])
  BY <1>1, <1>2, <1>3, <1>4, <1>7
<1>9. \A i \in 1..n + 1 : k[i] = After(k[i - 1], U[i])
  <2> SUFFICES ASSUME NEW i \in 1..n + 1 PROVE k[i] = After(k[i - 1], U[i])
    OBVIOUS
  <2>1. CASE i = n + 1
    <3>1. i - 1 = n
      BY <1>1, <2>1
    <3> QED
      BY <1>1, <1>2, <2>1, <3>1 DEF x
  <2>2. CASE i # n + 1
    <3>1. i \in 1..n /\ i \in 0..n /\ i - 1 \in 0..n
      BY <1>1, <2>2
    <3> QED
      BY <1>1, <1>2, <1>3, <3>1
  <2> QED
    BY <2>1, <2>2
<1>10. \A i, j \in 0..n + 1 : i <= j => Grows(k[i], k[j])
  <2> SUFFICES ASSUME NEW i \in 0..n + 1, NEW j \in 0..n + 1, i <= j
               PROVE  Grows(k[i], k[j])
    OBVIOUS
  <2>1. (i = n + 1 /\ j = n + 1) \/ (i \in 0..n /\ j = n + 1) \/ (i \in 0..n /\ j \in 0..n)
    BY <1>1
  <2> QED
    BY <1>2, <1>3, <1>5, <1>6, <2>1
<1>11. \A i, j \in 0..n + 1 : i <= j => CountsBinds(U, k, i, j)
  <2> SUFFICES ASSUME NEW i \in 0..n + 1, NEW j \in 0..n + 1, i <= j
               PROVE  CountsBinds(U, k, i, j)
    OBVIOUS
  <2>1. (i = n + 1 /\ j = n + 1) \/ (i \in 0..n /\ j = n + 1) \/ (i \in 0..n /\ j \in 0..n)
    BY <1>1
  <2>2. CASE i = n + 1 /\ j = n + 1
    <3>1. Len(U) \in Nat /\ k \in [0..Len(U) -> Moment] /\ i \in 0..Len(U)
      BY <1>1, <1>8
    <3>2. CountsBinds(U, k, i, i)
      BY <3>1, CountsNone
    <3> QED
      BY <2>2, <3>2
  <2>3. CASE i \in 0..n /\ j = n + 1
    <3>1. h[i] \in Moment /\ h[n] \in Moment /\ k[i] = h[i]
      BY <1>1, <1>2, <1>3, <2>3
    <3>5. i <= n
      BY <1>1, <2>3
    <3>4. CountsBinds(S, h, i, n) /\ k[n + 1] = After(h[n], m)
      BY <1>1, <1>2, <1>3, <2>3, <3>5 DEF x
    <3>2. i \in 0..Len(S)
      BY <2>3
    <3>3. CountsBinds(Append(S, m), k, i, Len(S) + 1)
      BY <3>1, <3>2, <3>4, CountsNext
    <3> QED
      BY <2>3, <3>3 DEF U
  <2>4. CASE i \in 0..n /\ j \in 0..n
    <3>1. CountsBinds(S, h, i, j) /\ k[i] = h[i] /\ k[j] = h[j]
      BY <1>2, <1>3, <2>4
    <3>2. ASSUME NEW z \in 1..j - i PROVE U[i + z] = S[i + z]
      BY <1>1, <2>4
    <3>3. BindsOf(U, i, j) = BindsOf(S, i, j)
      BY <3>2 DEF BindsOf
    <3> QED
      BY <3>1, <3>3 DEF CountsBinds
  <2> QED
    BY <2>1, <2>2, <2>3, <2>4
<1>12. RunOf(U, k)
  BY <1>1, <1>8, <1>9, <1>10, <1>11 DEF RunOf
<1> QED
  BY <1>2, <1>12 DEF U

\* Of a part of the stream, no more are Binds than it has messages.
LEMMA FewBinds ==
    ASSUME NEW S \in Seq(FrontMsg), NEW h, RunOf(S, h),
           NEW i \in 0..Len(S), NEW j \in i..Len(S)
    PROVE  /\ Len(h[i].ran) <= Len(h[j].ran)
           /\ Len(h[j].ran) <= Len(h[i].ran) + (j - i)
           /\ Len(h[j].ran) = Len(h[i].ran) + Cardinality(BindsOf(S, i, j))
<1>1. i \in Nat /\ j \in Nat /\ i <= j /\ j \in 0..Len(S)
  OBVIOUS
<1>2. CountsBinds(S, h, i, j) /\ h[i] \in Moment
  BY <1>1 DEF RunOf
<1>3. Len(h[i].ran) \in Nat
  BY <1>2 DEF Moment
<1>4. BindsOf(S, i, j) \subseteq 1..j - i
  BY DEF BindsOf
<1>5. IsFiniteSet(1..j - i) /\ Cardinality(1..j - i) = j - i
  <2>1. 1 \in Int /\ j - i \in Int /\ 1 <= j - i + 1
    BY <1>1
  <2> QED
    BY <1>1, <2>1, FS_Interval
<1>6. Cardinality(BindsOf(S, i, j)) <= j - i
  BY <1>4, <1>5, FS_Subset
<1>7. Cardinality(BindsOf(S, i, j)) \in Nat
  BY <1>2, FS_CardinalityType DEF CountsBinds
<1>8. Len(h[j].ran) = Len(h[i].ran) + Cardinality(BindsOf(S, i, j))
  BY <1>2 DEF CountsBinds
<1>9. \A x, y, n \in Nat : y <= n => x <= x + y /\ x + y <= x + n
  OBVIOUS
<1>10. j - i \in Nat
  BY <1>1
<1> QED
  BY <1>3, <1>6, <1>7, <1>8, <1>9, <1>10, Zenon

-----------------------------------------------------------------------------
(* A stream of replies, and the descriptions among them.                   *)

Answers(m) == m.type = "ParameterDescription"

\* A[j] are the parameter descriptions among the first j replies of R.
AnswersOf(R, A) ==
    /\ A \in [0..Len(R) -> Seq(Reply)]
    /\ A[0] = <<>>
    /\ \A j \in 1..Len(R) :
          A[j] = IF Answers(R[j]) THEN Append(A[j - 1], R[j]) ELSE A[j - 1]
    /\ \A i, j \in 0..Len(R) : i <= j => Begins(A[i], A[j])

\* Before the first reply nothing was answered.
LEMMA AnswersStart == AnswersOf(<<>>, [j \in 0..0 |-> <<>>])
<1> DEFINE A == [j \in 0..0 |-> <<>>]
<1>1. /\ Len(<<>>) = 0 /\ A \in [0..Len(<<>>) -> Seq(Reply)] /\ A[0] = <<>>
      /\ \A j \in 0..Len(<<>>) : j = 0
      /\ ~ \E j \in 1..Len(<<>>) : TRUE
  OBVIOUS
<1> HIDE DEF A
<1>2. Begins(<<>>, <<>>)
  BY DEF Begins
<1>3. AnswersOf(<<>>, A)
  BY <1>1, <1>2 DEF AnswersOf
<1> QED
  BY <1>3 DEF A

\* A reply more is an answer more, or none, and changes none before it.
LEMMA AnswersNext ==
    ASSUME NEW R \in Seq(Reply), NEW A, AnswersOf(R, A), NEW m \in Reply
    PROVE  \E B : /\ AnswersOf(Append(R, m), B)
                  /\ \A j \in 0..Len(R) : B[j] = A[j]
<1> DEFINE n == Len(R)
           U == Append(R, m)
           x == IF Answers(m) THEN Append(A[n], m) ELSE A[n]
           B == [j \in 0..n + 1 |-> IF j = n + 1 THEN x ELSE A[j]]
<1>1. /\ n \in Nat /\ U \in Seq(Reply) /\ Len(U) = n + 1 /\ U[n + 1] = m
      /\ \A j \in 1..n : U[j] = R[j]
      /\ n \in 0..n /\ 0 \in 0..n
  OBVIOUS
<1>2. /\ DOMAIN B = 0..n + 1 /\ B[n + 1] = x /\ \A j \in 0..n : B[j] = A[j]
      /\ B = [j \in 0..n + 1 |-> B[j]]
  BY <1>1
<1>3. /\ \A j \in 0..n : A[j] \in Seq(Reply)
      /\ A[0] = <<>>
      /\ \A j \in 1..n : A[j] = IF Answers(R[j]) THEN Append(A[j - 1], R[j])
                                ELSE A[j - 1]
      /\ \A i, j \in 0..n : i <= j => Begins(A[i], A[j])
  BY DEF AnswersOf
<1>4. x \in Seq(Reply) /\ Begins(A[n], x) /\ Begins(x, x)
  <2>1. A[n] \in Seq(Reply)
    BY <1>1, <1>3
  <2>2. x \in Seq(Reply)
    BY <2>1
  <2>3. Begins(A[n], Append(A[n], m)) /\ Begins(A[n], A[n])
    BY <2>1, BeginsAppend
  <2>4. Begins(A[n], x)
    BY <2>3
  <2> HIDE DEF x
  <2>5. Begins(x, x)
    BY <2>2, BeginsAppend
  <2> QED
    BY <2>2, <2>4, <2>5
<1> HIDE DEF B, x, U
<1>5. \A j \in 0..n : Begins(A[j], x)
  <2> SUFFICES ASSUME NEW j \in 0..n PROVE Begins(A[j], x)
    OBVIOUS
  <2>1. A[j] \in Seq(Reply) /\ A[n] \in Seq(Reply) /\ Begins(A[j], A[n])
    BY <1>1, <1>3
  <2> QED
    BY <1>4, <2>1, BeginsTrans
<1>6. \A j \in 0..n + 1 : j = n + 1 \/ j \in 0..n
  BY <1>1
<1>7. B \in [0..n + 1 -> Seq(Reply)] /\ B[0] = <<>>
  BY <1>1, <1>2, <1>3, <1>4, <1>6
<1>8. \A j \in 1..n + 1 : B[j] = IF Answers(U[j]) THEN Append(B[j - 1], U[j])
                                 ELSE B[j - 1]
  <2> SUFFICES ASSUME NEW j \in 1..n + 1
               PROVE  B[j] = IF Answers(U[j]) THEN Append(B[j - 1], U[j])
                             ELSE B[j - 1]
    OBVIOUS
  <2>1. CASE j = n + 1
    <3>1. j - 1 = n
      BY <1>1, <2>1
    <3> QED
      BY <1>1, <1>2, <2>1, <3>1 DEF x
  <2>2. CASE j # n + 1
    <3>1. j \in 1..n /\ j \in 0..n /\ j - 1 \in 0..n
      BY <1>1, <2>2
    <3> QED
      BY <1>1, <1>2, <1>3, <3>1
  <2> QED
    BY <2>1, <2>2
<1>9. \A i, j \in 0..n + 1 : i <= j => Begins(B[i], B[j])
  <2> SUFFICES ASSUME NEW i \in 0..n + 1, NEW j \in 0..n + 1, i <= j
               PROVE  Begins(B[i], B[j])
    OBVIOUS
  <2>1. (i = n + 1 /\ j = n + 1) \/ (i \in 0..n /\ j = n + 1) \/ (i \in 0..n /\ j \in 0..n)
    BY <1>1
  <2> QED
    BY <1>2, <1>3, <1>4, <1>5, <2>1
<1>10. AnswersOf(U, B)
  BY <1>1, <1>7, <1>8, <1>9 DEF AnswersOf
<1> QED
  BY <1>2, <1>10 DEF U

-----------------------------------------------------------------------------
(* The invariant: one stream each way, and how far everyone is in it.      *)

\* Of the messages S the client sent, f have been fed to the session, p
\* processed by the server, w written to the server and r read from the client.
FrontAt(S, f, p, w, r) ==
    /\ f \in 0..w /\ p \in 0..w /\ w \in 0..r /\ r \in 0..Len(S)
    /\ r <= f + MaxChunk
    /\ wire["front"] = Part(S, r, Len(S))
    /\ inbox = Part(S, p, w)
    /\ pc["front"] # "done" =>
          /\ chunk["front"] = Part(S, f, r)
          /\ w = IF pc["front"] = "write" THEN f ELSE r

\* Of the replies R, g have been fed to the session and b read.
BackAt(R, g, b) ==
    /\ g \in 0..b /\ b \in 0..Len(R)
    /\ wire["back"] = Part(R, b, Len(R))
    /\ pc["back"] # "done" => chunk["back"] = Part(R, g, b)

\* The session knows what was fed to it, and has reported its Binds.
SessionAt(c) ==
    /\ stmts = c.open
    /\ parsedAs = c.parsed
    /\ Len(BindEvents) = Len(c.shown)
    /\ \A k \in 1..Len(c.shown) :
          /\ BindEvents[k].sql = c.shown[k]
          /\ BindEvents[k].resolved <=> c.shown[k] # NoSQL

\* The server has the statements it processed, if it refused nothing.
ServerAt(c) ==
    /\ Len(executed) = Len(c.ran)
    /\ \A n \in Names : prepared[n] # NoSQL => prepared[n] \in c.parsed[n]
    /\ ~refused =>
          /\ prepared = c.live
          /\ executed = c.ran
          /\ \A k \in 1..Len(executed) : executed[k] # NoSQL

\* A description a is of the statement asked about, with one of its SQL texts.
AnswersTo(a, ask) ==
    /\ a.for = ask.name
    /\ \E q \in ask.among : a.oids = ParamTypes[q]

\* The server has answered each Describe it processed, in order.
AnsweredAt(c, answers) ==
    ~unanswered =>
        /\ Len(answers) = Len(c.asked)
        /\ \A k \in 1..Len(answers) : AnswersTo(answers[k], c.asked[k])

\* The Describes the session waits for are those it was fed and got no answer
\* to, and the types it has for a name are those of a SQL text of the name.
PendingAt(c, answers) ==
    ~unanswered /\ ~unattributed =>
        /\ Len(c.asked) = Len(answers) + Len(pendingDescribe)
        /\ \A k \in 1..Len(pendingDescribe) :
              pendingDescribe[k] = c.asked[Len(answers) + k].name
        /\ \A n \in Names : paramOIDs[n] # <<>> =>
              \E q \in c.parsed[n] : paramOIDs[n] = ParamTypes[q]
        /\ ~misattributed

\* The trace file is where what was recorded begins.
WrittenOK ==
    \E x \in Seq(Emitted) : /\ recorded["front"] = trace["front"] \o x
                            /\ encoder = "ok" => x = <<>>

\* What the session and the server know follows from how far they are.
KnownAt(h, R, A, f, p, g) ==
    /\ SessionAt(h[f])
    /\ ServerAt(h[p])
    /\ AnsweredAt(h[p], A[Len(R)])
    /\ PendingAt(h[f], A[g])

InStreams(S, h, R, A) ==
    /\ RunOf(S, h)
    /\ AnswersOf(R, A)
    /\ \E f, p, w, r, g, b \in Nat :
          FrontAt(S, f, p, w, r) /\ BackAt(R, g, b) /\ KnownAt(h, R, A, f, p, g)

StreamInv ==
    /\ ProxyInv
    /\ \E S \in Seq(FrontMsg), R \in Seq(Reply) :
          \E h, A : InStreams(S, h, R, A)
    /\ WrittenOK
    /\ NeverGuessedInOrder

knownVars == <<stmts, parsedAs, recorded, outbox, executed, prepared, refused,
               unanswered, pendingDescribe, paramOIDs, unattributed, misattributed>>

\* What is known changes with the variables it is about only.
LEMMA KnownFrame ==
    ASSUME NEW h, NEW R, NEW A, NEW f, NEW p, NEW g,
           KnownAt(h, R, A, f, p, g), UNCHANGED knownVars
    PROVE  KnownAt(h, R, A, f, p, g)'
<1> USE DEF knownVars
<1>1. BindEvents' = BindEvents
  BY DEF BindEvents
<1>2. SessionAt(h[f])'
  BY <1>1 DEF KnownAt, SessionAt
<1>3. ServerAt(h[p])'
  BY DEF KnownAt, ServerAt
<1>4. AnsweredAt(h[p], A[Len(R)])'
  BY DEF KnownAt, AnsweredAt, AnswersTo
<1>5. PendingAt(h[f], A[g])'
  BY DEF KnownAt, PendingAt
<1> QED
  BY <1>2, <1>3, <1>4, <1>5 DEF KnownAt

\* What is on its way moves with the variables it is in only.
LEMMA StreamsFrame ==
    ASSUME NEW S, NEW R, NEW h, NEW A, InStreams(S, h, R, A),
           UNCHANGED <<knownVars, wire, inbox, pc, chunk>>
    PROVE  InStreams(S, h, R, A)'
<1>1. PICK f \in Nat, p \in Nat, w \in Nat, r \in Nat, g \in Nat, b \in Nat :
        FrontAt(S, f, p, w, r) /\ BackAt(R, g, b) /\ KnownAt(h, R, A, f, p, g)
  BY DEF InStreams
<1>2. KnownAt(h, R, A, f, p, g)'
  BY <1>1, KnownFrame
<1>3. FrontAt(S, f, p, w, r)' /\ BackAt(R, g, b)'
  BY <1>1 DEF FrontAt, BackAt
<1> QED
  BY <1>2, <1>3 DEF InStreams, RunOf, AnswersOf

-----------------------------------------------------------------------------
(* What moves the streams on. *)

\* A Read cuts what is on the wire, the last part of the stream.
LEMMA LastPart ==
    ASSUME NEW T, NEW s \in Seq(T), NEW i \in 0..Len(s), NEW k \in 0..Len(s) - i
    PROVE  /\ Len(Part(s, i, Len(s))) = Len(s) - i
           /\ SubSeq(Part(s, i, Len(s)), 1, k) = Part(s, i, i + k)
           /\ SubSeq(Part(s, i, Len(s)), k + 1, Len(Part(s, i, Len(s))))
                = Part(s, i + k, Len(s))
<1>1. PICK j \in i..Len(s) : j = Len(s)
  OBVIOUS
<1>2. k \in 0..j - i
  BY <1>1
<1>3. /\ SubSeq(Part(s, i, j), 1, k) = Part(s, i, i + k)
      /\ SubSeq(Part(s, i, j), k + 1, Len(Part(s, i, j))) = Part(s, i + k, j)
  BY <1>2, PartCut, ZenonT(60)
<1>4. Len(Part(s, i, j)) = j - i
  BY PartType
<1> QED
  BY <1>1, <1>3, <1>4

\* A Read takes the chunk from the wire.
LEMMA ReadStreams ==
    ASSUME ProxyInv, NEW S \in Seq(FrontMsg), NEW R \in Seq(Reply), NEW h, NEW A,
           InStreams(S, h, R, A), NEW d \in Dirs, Read(d)
    PROVE  InStreams(S, h, R, A)'
<1>1. PICK f \in Nat, p \in Nat, w \in Nat, r \in Nat, g \in Nat, b \in Nat :
        FrontAt(S, f, p, w, r) /\ BackAt(R, g, b) /\ KnownAt(h, R, A, f, p, g)
  BY DEF InStreams
<1>2. KnownAt(h, R, A, f, p, g)'
  <2>1. UNCHANGED knownVars
    BY DEF Read, knownVars, sessionVars, serverVars, noteVars, traceVars
  <2> QED
    BY <1>1, <2>1, KnownFrame
<1>3. PICK k \in 1..MaxChunk :
        /\ k <= Len(wire[d])
        /\ chunk' = [chunk EXCEPT ![d] = SubSeq(wire[d], 1, k)]
        /\ wire' = [wire EXCEPT ![d] = SubSeq(wire[d], k + 1, Len(wire[d]))]
  BY DEF Read, ProxyInv, InTransitOK
<1>4. /\ chunk \in [Dirs -> Seq(FrontMsg) \cup Seq(Reply)]
      /\ wire \in [Dirs -> Seq(FrontMsg) \cup Seq(Reply)]
      /\ pc \in [Dirs -> {"read", "write", "feed", "emit", "done"}]
      /\ pc[d] = "read" /\ pc' = [pc EXCEPT ![d] = "write"] /\ inbox' = inbox
  BY DEF Read, ProxyInv, InTransitOK, ProxyTypeOK
<1>0. chunk[d] = <<>> /\ MaxChunk \in Nat /\ k \in Nat /\ k # 0
  <2>1. chunk[d] = <<>>
    BY <1>4 DEF ProxyInv, HoldsAChunk
  <2> QED
    BY <1>3, <2>1, ProxyAssumption
<1>5. CASE d = "front"
  <2>1. r \in 0..Len(S) /\ f \in 0..w /\ w \in 0..r /\ Len(S) \in Nat
    BY <1>1 DEF FrontAt
  <2>2. wire["front"] = Part(S, r, Len(S)) /\ Len(Part(S, r, Len(S))) = Len(S) - r
    BY <1>1, <2>1, LastPart DEF FrontAt
  <2>3. f = r /\ w = r
    <3>1. chunk["front"] = Part(S, f, r) /\ w = r
      BY <1>1, <1>4, <1>5 DEF FrontAt
    <3>2. f \in 0..Len(S) /\ r \in f..Len(S)
      BY <2>1
    <3>3. Part(S, f, r) = <<>> <=> f = r
      BY <3>2, PartType
    <3> QED
      BY <1>0, <1>5, <3>1, <3>3
  <2>4. PICK n \in Nat : n = r + k
    BY <1>0, <2>1
  <2>5. k \in 0..Len(S) - r /\ n \in 0..Len(S) /\ k <= MaxChunk
    BY <1>0, <1>3, <1>5, <2>1, <2>2, <2>4
  <2>6. chunk'["front"] = Part(S, r, n) /\ wire'["front"] = Part(S, n, Len(S))
    <3>1. /\ SubSeq(Part(S, r, Len(S)), 1, k) = Part(S, r, r + k)
          /\ SubSeq(Part(S, r, Len(S)), k + 1, Len(Part(S, r, Len(S))))
               = Part(S, r + k, Len(S))
      BY <2>1, <2>5, LastPart
    <3> QED
      BY <1>3, <1>4, <1>5, <2>2, <2>4, <3>1
  <2>7. pc'["front"] = "write"
    BY <1>4, <1>5
  <2>8. w \in 0..n /\ n <= f + MaxChunk /\ p \in 0..w
    <3>1. p \in 0..w /\ r <= n
      BY <1>1, <2>4, <1>0, <2>1 DEF FrontAt
    <3> QED
      BY <1>0, <2>1, <2>3, <2>4, <2>5, <3>1
  <2>9. FrontAt(S, f, p, w, n)'
    BY <1>1, <1>4, <2>1, <2>3, <2>5, <2>6, <2>7, <2>8 DEF FrontAt
  <2>10. BackAt(R, g, b)'
    BY <1>1, <1>3, <1>4, <1>5 DEF BackAt, Dirs
  <2> QED
    BY <1>2, <2>9, <2>10 DEF InStreams
<1>6. CASE d = "back"
  <2>1. g \in 0..b /\ b \in 0..Len(R) /\ Len(R) \in Nat
    BY <1>1 DEF BackAt
  <2>2. wire["back"] = Part(R, b, Len(R)) /\ Len(Part(R, b, Len(R))) = Len(R) - b
    BY <1>1, <2>1, LastPart DEF BackAt
  <2>3. g = b
    <3>1. chunk["back"] = Part(R, g, b)
      BY <1>1, <1>4, <1>6 DEF BackAt
    <3>2. g \in 0..Len(R) /\ b \in g..Len(R)
      BY <2>1
    <3>3. Part(R, g, b) = <<>> <=> g = b
      BY <3>2, PartType
    <3> QED
      BY <1>0, <1>6, <3>1, <3>3
  <2>4. PICK n \in Nat : n = b + k
    BY <1>0, <2>1
  <2>5. k \in 0..Len(R) - b /\ n \in 0..Len(R) /\ g \in 0..n
    BY <1>0, <1>3, <1>6, <2>1, <2>2, <2>4
  <2>6. chunk'["back"] = Part(R, b, n) /\ wire'["back"] = Part(R, n, Len(R))
    <3>1. /\ SubSeq(Part(R, b, Len(R)), 1, k) = Part(R, b, b + k)
          /\ SubSeq(Part(R, b, Len(R)), k + 1, Len(Part(R, b, Len(R))))
               = Part(R, b + k, Len(R))
      BY <2>1, <2>5, LastPart
    <3> QED
      BY <1>3, <1>4, <1>6, <2>2, <2>4, <3>1
  <2>7. BackAt(R, g, n)'
    BY <1>1, <2>3, <2>5, <2>6 DEF BackAt
  <2>8. FrontAt(S, f, p, w, r)'
    BY <1>1, <1>3, <1>4, <1>6 DEF FrontAt, Dirs
  <2> QED
    BY <1>2, <2>7, <2>8 DEF InStreams
<1>7. RunOf(S, h)' /\ AnswersOf(R, A)'
  BY DEF InStreams
<1> QED
  BY <1>5, <1>6 DEF Dirs

\* A goroutine that cannot read stops where it is.
LEMMA ReadErrorStreams ==
    ASSUME ProxyInv, NEW S \in Seq(FrontMsg), NEW R \in Seq(Reply), NEW h, NEW A,
           InStreams(S, h, R, A), NEW d \in Dirs, ReadError(d)
    PROVE  InStreams(S, h, R, A)'
<1>1. PICK f \in Nat, p \in Nat, w \in Nat, r \in Nat, g \in Nat, b \in Nat :
        FrontAt(S, f, p, w, r) /\ BackAt(R, g, b) /\ KnownAt(h, R, A, f, p, g)
  BY DEF InStreams
<1>2. KnownAt(h, R, A, f, p, g)'
  <2>1. UNCHANGED knownVars
    BY DEF ReadError, knownVars, sessionVars, serverVars, noteVars, traceVars
  <2> QED
    BY <1>1, <2>1, KnownFrame
<1>3. /\ UNCHANGED <<wire, inbox, chunk>>
      /\ pc' = [pc EXCEPT ![d] = "done"] /\ pc[d] = "read"
      /\ pc \in [Dirs -> {"read", "write", "feed", "emit", "done"}]
  BY DEF ReadError, netVars, ProxyInv, ProxyTypeOK
<1>4. FrontAt(S, f, p, w, r)' /\ BackAt(R, g, b)'
  BY <1>1, <1>3 DEF FrontAt, BackAt, Dirs
<1> QED
  BY <1>2, <1>4 DEF InStreams

\* A Write forwards the chunk; one that fails, part of it.
LEMMA WriteStreams ==
    ASSUME ProxyInv, NEW S \in Seq(FrontMsg), NEW R \in Seq(Reply), NEW h, NEW A,
           InStreams(S, h, R, A), NEW d \in Dirs, Write(d)
    PROVE  InStreams(S, h, R, A)'
<1>1. PICK f \in Nat, p \in Nat, w \in Nat, r \in Nat, g \in Nat, b \in Nat :
        FrontAt(S, f, p, w, r) /\ BackAt(R, g, b) /\ KnownAt(h, R, A, f, p, g)
  BY DEF InStreams
<1>2. KnownAt(h, R, A, f, p, g)'
  <2>1. UNCHANGED knownVars
    BY DEF Write, knownVars, sessionVars, serverVars, noteVars, traceVars
  <2> QED
    BY <1>1, <2>1, KnownFrame
<1>3. /\ UNCHANGED <<wire, chunk>>
      /\ pc' = [pc EXCEPT ![d] = "feed"] /\ pc[d] = "write"
      /\ pc \in [Dirs -> {"read", "write", "feed", "emit", "done"}]
      /\ inbox' = IF d = "front" THEN inbox \o chunk[d] ELSE inbox
  BY DEF Write, netVars, ProxyInv, ProxyTypeOK
<1>4. BackAt(R, g, b)'
  BY <1>1, <1>3 DEF BackAt, Dirs
<1>5. CASE d = "front"
  <2>1. /\ r \in 0..Len(S) /\ f \in 0..r /\ p \in 0..f /\ w = f
        /\ inbox = Part(S, p, f) /\ chunk["front"] = Part(S, f, r)
    BY <1>1, <1>3, <1>5 DEF FrontAt
  <2>2. inbox' = Part(S, p, r)
    <3>1. p \in 0..Len(S) /\ f \in p..Len(S) /\ r \in f..Len(S)
      BY <2>1
    <3>2. Part(S, p, f) \o Part(S, f, r) = Part(S, p, r)
      BY <3>1, PartJoin
    <3> QED
      BY <1>3, <1>5, <2>1, <3>2
  <2>3. p \in 0..r /\ r \in 0..r
    BY <2>1
  <2>4. pc'["front"] = "feed"
    BY <1>3, <1>5
  <2>5. FrontAt(S, f, p, r, r)'
    BY <1>1, <1>3, <2>1, <2>2, <2>3, <2>4 DEF FrontAt
  <2> QED
    BY <1>2, <1>4, <2>5 DEF InStreams
<1>6. CASE d = "back"
  <2>1. FrontAt(S, f, p, w, r)'
    BY <1>1, <1>3, <1>6 DEF FrontAt, Dirs
  <2> QED
    BY <1>2, <1>4, <2>1 DEF InStreams
<1> QED
  BY <1>5, <1>6 DEF Dirs

\* A write that fails ends its goroutine and leaves every position.
LEMMA WriteErrorStreams ==
    ASSUME ProxyInv, NEW S \in Seq(FrontMsg), NEW R \in Seq(Reply), NEW h, NEW A,
           InStreams(S, h, R, A), NEW d \in Dirs, WriteError(d)
    PROVE  InStreams(S, h, R, A)'
<1>1. PICK f \in Nat, p \in Nat, w \in Nat, r \in Nat, g \in Nat, b \in Nat :
        FrontAt(S, f, p, w, r) /\ BackAt(R, g, b) /\ KnownAt(h, R, A, f, p, g)
  BY DEF InStreams
<1>2. KnownAt(h, R, A, f, p, g)'
  <2>1. UNCHANGED knownVars
    BY DEF WriteError, knownVars, sessionVars, serverVars, noteVars, traceVars
  <2> QED
    BY <1>1, <2>1, KnownFrame
<1>3. /\ UNCHANGED wire
      /\ chunk' = [chunk EXCEPT ![d] = <<>>]
      /\ pc' = [pc EXCEPT ![d] = "done"] /\ pc[d] = "write"
      /\ pc \in [Dirs -> {"read", "write", "feed", "emit", "done"}]
      /\ chunk \in [Dirs -> Seq(FrontMsg) \cup Seq(Reply)]
  BY DEF WriteError, netVars, ProxyInv, ProxyTypeOK, InTransitOK
<1>4. BackAt(R, g, b)'
  BY <1>1, <1>3 DEF BackAt, Dirs
<1>5. CASE d = "front"
  <2>1. /\ r \in 0..Len(S) /\ f \in 0..r /\ p \in 0..f
        /\ inbox = Part(S, p, f) /\ chunk["front"] = Part(S, f, r)
        /\ r <= f + MaxChunk
    BY <1>1, <1>3, <1>5 DEF FrontAt
  <2>2. f \in 0..Len(S) /\ r \in f..Len(S) /\ p \in 0..Len(S) /\ f \in p..Len(S)
    BY <2>1
  <2>3. PICK k \in 0..Len(chunk["front"]) :
          inbox' = inbox \o SubSeq(chunk["front"], 1, k)
    BY <1>5 DEF WriteError
  <2>4. Len(Part(S, f, r)) = r - f
    BY <2>2, PartType
  <2>5. k \in 0..r - f
    BY <2>1, <2>3, <2>4
  <2>6. PICK n \in Nat : n = f + k
    BY <2>5
  <2>7. n \in 0..r /\ f \in 0..n /\ p \in 0..n /\ n \in f..Len(S)
    BY <2>1, <2>2, <2>5, <2>6
  <2>8. inbox' = Part(S, p, n)
    <3>1. SubSeq(Part(S, f, r), 1, k) = Part(S, f, n)
      BY <2>2, <2>5, <2>6, PartCut
    <3>2. Part(S, p, f) \o Part(S, f, n) = Part(S, p, n)
      BY <2>2, <2>7, PartJoin
    <3> QED
      BY <2>1, <2>3, <3>1, <3>2
  <2>9. pc'["front"] = "done"
    BY <1>3, <1>5
  <2>10. FrontAt(S, f, p, n, r)'
    BY <1>1, <1>3, <2>1, <2>7, <2>8, <2>9 DEF FrontAt
  <2> QED
    BY <1>2, <1>4, <2>6, <2>10 DEF InStreams
<1>6. CASE d = "back"
  <2>1. inbox' = inbox
    BY <1>6 DEF WriteError
  <2>2. FrontAt(S, f, p, w, r)'
    BY <1>1, <1>3, <1>6, <2>1 DEF FrontAt, Dirs
  <2> QED
    BY <1>2, <1>4, <2>2 DEF InStreams
<1> QED
  BY <1>5, <1>6 DEF Dirs

\* The client adds to the stream.
LEMMA ClientStreams ==
    ASSUME ProxyInv, NEW S \in Seq(FrontMsg), NEW R \in Seq(Reply), NEW h, NEW A,
           InStreams(S, h, R, A), ClientSend
    PROVE  \E U \in Seq(FrontMsg) : \E k : InStreams(U, k, R, A)'
<1>1. PICK f \in Nat, p \in Nat, w \in Nat, r \in Nat, g \in Nat, b \in Nat :
        FrontAt(S, f, p, w, r) /\ BackAt(R, g, b) /\ KnownAt(h, R, A, f, p, g)
  BY DEF InStreams
<1>2. KnownAt(h, R, A, f, p, g)'
  <2>1. UNCHANGED knownVars
    BY DEF ClientSend, knownVars, sessionVars, serverVars, noteVars, proxyVars,
           traceVars
  <2> QED
    BY <1>1, <2>1, KnownFrame
<1>3. PICK m \in FrontMsg :
        wire' = [wire EXCEPT !["front"] = Append(wire["front"], m)]
  <2>1. script \in Seq(SUBSET FrontMsg) /\ sent \in Nat
    BY ProxyAssumption DEF ProxyInv, ProxyTypeOK
  <2>2. script[sent + 1] \subseteq FrontMsg
    BY <2>1 DEF ClientSend
  <2> QED
    BY <2>2 DEF ClientSend, ProxyInv, InTransitOK, Dirs
<1>4. /\ UNCHANGED <<chunk, pc, inbox>>
      /\ wire \in [Dirs -> Seq(FrontMsg) \cup Seq(Reply)]
  BY DEF ClientSend, proxyVars, ProxyInv, InTransitOK
<1>5. PICK k : RunOf(Append(S, m), k) /\ \A i \in 0..Len(S) : k[i] = h[i]
  BY RunNext DEF InStreams
<1> DEFINE U == Append(S, m)
<1>6. U \in Seq(FrontMsg) /\ U = S \o <<m>> /\ Len(U) = Len(S) + 1 /\ <<m>> \in Seq(FrontMsg)
  OBVIOUS
<1>7. /\ r \in 0..Len(S) /\ w \in 0..r /\ f \in 0..w /\ p \in 0..w
      /\ wire["front"] = Part(S, r, Len(S)) /\ inbox = Part(S, p, w)
      /\ pc["front"] # "done" => chunk["front"] = Part(S, f, r)
  BY <1>1 DEF FrontAt
<1>8. /\ Part(U, p, w) = Part(S, p, w) /\ Part(U, f, r) = Part(S, f, r)
      /\ Part(S, r, Len(S)) \o <<m>> = Part(U, r, Len(U))
  <2>1. /\ p \in 0..Len(S) /\ w \in p..Len(S) /\ f \in 0..Len(S) /\ r \in f..Len(S)
        /\ Len(S) \in r..Len(S)
    BY <1>7
  <2>2. Part(S \o <<m>>, p, w) = Part(S, p, w)
    BY <1>6, <2>1, PartConcat
  <2>3. Part(S \o <<m>>, f, r) = Part(S, f, r)
    BY <1>6, <2>1, PartConcat
  <2>4. Part(S, r, Len(S)) \o <<m>> = Part(S \o <<m>>, r, Len(S \o <<m>>))
    BY <1>6, <1>7, <2>1, PartConcat
  <2> QED
    BY <1>6, <2>2, <2>3, <2>4
<1>9. wire'["front"] = Part(S, r, Len(S)) \o <<m>> /\ wire'["back"] = wire["back"]
  <2>1. wire["front"] \in Seq(FrontMsg)
    BY DEF ProxyInv, InTransitOK, Dirs, Msgs
  <2>2. Append(wire["front"], m) = wire["front"] \o <<m>>
    <3>1. \A v \in Seq(FrontMsg) : Append(v, m) = v \o <<m>>
      OBVIOUS
    <3> QED
      BY <2>1, <3>1
  <2> QED
    BY <1>3, <1>4, <1>7, <2>2 DEF Dirs
<1> HIDE DEF U
<1>10. FrontAt(U, f, p, w, r)'
  <2>1. r \in 0..Len(U)
    BY <1>6, <1>7
  <2> QED
    BY <1>1, <1>4, <1>8, <1>9, <2>1 DEF FrontAt
<1>11. BackAt(R, g, b)'
  BY <1>1, <1>4, <1>9 DEF BackAt
<1>12. KnownAt(k, R, A, f, p, g)'
  <2>1. k[f] = h[f] /\ k[p] = h[p]
    BY <1>5, <1>7
  <2> QED
    BY <1>2, <2>1 DEF KnownAt
<1>13. InStreams(U, k, R, A)'
  BY <1>5, <1>10, <1>11, <1>12 DEF InStreams, U
<1> QED
  BY <1>6, <1>13

\* Emitting moves an event from the outbox to what is recorded.
LEMMA Emitting ==
    ASSUME NEW T, NEW s \in Seq(T), NEW o \in Seq(T), o # <<>>
    PROVE  Append(s, Head(o)) \o Tail(o) = s \o o
<1> DEFINE l == Append(s, Head(o)) \o Tail(o)
           t == s \o o
<1>1. Head(o) \in T /\ Tail(o) \in Seq(T) /\ Len(Tail(o)) = Len(o) - 1
      /\ Len(o) \in Nat /\ Len(o) # 0 /\ Len(s) \in Nat
  OBVIOUS
<1>2. l \in Seq(T) /\ t \in Seq(T) /\ Len(l) = Len(s) + Len(o) /\ Len(t) = Len(s) + Len(o)
  BY <1>1
<1>3. ASSUME NEW k \in 1..Len(s) + Len(o) PROVE l[k] = t[k]
  BY <1>1
<1> HIDE DEF l, t
<1>4. l = t
  BY <1>2, <1>3, SeqEqual
<1> QED
  BY <1>4 DEF l, t

\* Recording an event does not change which Binds the session was fed.
LEMMA EmitBinds ==
    ASSUME ProxyInv, NEW d \in Dirs, Emit(d)
    PROVE  BindEvents' = BindEvents
<1>1. /\ outbox \in [Dirs -> Seq(Emitted)] /\ recorded \in [Dirs -> Seq(Emitted)]
  BY DEF ProxyInv, ProxyTypeOK
<1>2. CASE outbox[d] = <<>>
  BY <1>2 DEF Emit, traceVars, BindEvents
<1>3. CASE outbox[d] # <<>>
  <2>1. /\ recorded' = [recorded EXCEPT ![d] = Append(recorded[d], Head(outbox[d]))]
        /\ outbox' = [outbox EXCEPT ![d] = Tail(outbox[d])]
    BY <1>1, <1>3 DEF Emit, Record
  <2>2. Append(recorded[d], Head(outbox[d])) \o Tail(outbox[d])
          = recorded[d] \o outbox[d]
    <3>1. outbox[d] \in Seq(Emitted) /\ recorded[d] \in Seq(Emitted)
      BY <1>1
    <3> QED
      BY <1>3, <3>1, Emitting
  <2>3. CASE d = "front"
    BY <1>1, <2>1, <2>2, <2>3 DEF BindEvents, Dirs
  <2>4. CASE d # "front"
    BY <1>1, <2>1, <2>4 DEF BindEvents, Dirs
  <2> QED
    BY <2>3, <2>4
<1> QED
  BY <1>2, <1>3

\* Recording the events of a chunk moves no position.
LEMMA EmitStreams ==
    ASSUME ProxyInv, NEW S \in Seq(FrontMsg), NEW R \in Seq(Reply), NEW h, NEW A,
           InStreams(S, h, R, A), NEW d \in Dirs, Emit(d)
    PROVE  InStreams(S, h, R, A)'
<1>1. PICK f \in Nat, p \in Nat, w \in Nat, r \in Nat, g \in Nat, b \in Nat :
        FrontAt(S, f, p, w, r) /\ BackAt(R, g, b) /\ KnownAt(h, R, A, f, p, g)
  BY DEF InStreams
<1>2. /\ UNCHANGED <<stmts, parsedAs, executed, prepared, refused, unanswered>>
      /\ UNCHANGED <<pendingDescribe, paramOIDs, unattributed, misattributed>>
      /\ UNCHANGED <<wire, inbox, chunk>>
  BY DEF Emit, sessionVars, netVars, serverVars, noteVars
<1>3. BindEvents' = BindEvents
  BY EmitBinds
<1>4. KnownAt(h, R, A, f, p, g)'
  <2>1. SessionAt(h[f])'
    BY <1>1, <1>2, <1>3 DEF KnownAt, SessionAt
  <2>2. ServerAt(h[p])'
    BY <1>1, <1>2 DEF KnownAt, ServerAt
  <2>3. AnsweredAt(h[p], A[Len(R)])'
    BY <1>1, <1>2 DEF KnownAt, AnsweredAt, AnswersTo
  <2>4. PendingAt(h[f], A[g])'
    BY <1>1, <1>2 DEF KnownAt, PendingAt
  <2> QED
    BY <2>1, <2>2, <2>3, <2>4 DEF KnownAt
<1>5. FrontAt(S, f, p, w, r)' /\ BackAt(R, g, b)'
  <2>1. /\ pc["front"] = "done" <=> pc'["front"] = "done"
        /\ pc["back"] = "done" <=> pc'["back"] = "done"
        /\ pc["front"] = "write" <=> pc'["front"] = "write"
    <3>1. /\ pc \in [Dirs -> {"read", "write", "feed", "emit", "done"}]
          /\ pc[d] = "emit" /\ pc' \in {pc, [pc EXCEPT ![d] = "read"]}
      BY DEF Emit, ProxyInv, ProxyTypeOK
    <3> QED
      BY <3>1 DEF Dirs
  <2> QED
    BY <1>1, <1>2, <2>1 DEF FrontAt, BackAt
<1> QED
  BY <1>4, <1>5 DEF InStreams, RunOf, AnswersOf

-----------------------------------------------------------------------------
(* What feeding a message does. *)

\* A frontend message brings the session to its next moment.
LEMMA HandleEffect ==
    ASSUME NEW m \in FrontMsg, Handle(m), TypeOK
    PROVE  /\ stmts' = OpenAfter(stmts, m)
           /\ pendingDescribe' = IF Describes(m) THEN Append(pendingDescribe, m.name)
                                 ELSE pendingDescribe
           /\ paramOIDs' = paramOIDs
           /\ event'.kind = "parse" <=> m.type = "Parse"
           /\ event'.kind = "bind" <=> m.type = "Bind"
           /\ m.type = "Bind" =>
                event' = Ev("bind", m.stmt, stmts[m.stmt], stmts[m.stmt] # NoSQL,
                            ResolveParams(m))
<1> USE DEF OpenAfter, Describes, Ev, NoEvent
<1>1. CASE HandleParse(m)
  BY <1>1 DEF HandleParse
<1>2. CASE HandleBind(m)
  BY <1>2 DEF HandleBind
<1>3. CASE HandleDescribe(m)
  BY <1>3 DEF HandleDescribe
<1>4. CASE HandleClose(m)
  <2>1. m.type = "Close" /\ m.kind \in {"S", "P"}
    BY <1>4 DEF HandleClose
  <2>2. /\ UNCHANGED <<pendingDescribe, paramOIDs>>
        /\ event'.kind \in {"close", "none"}
        /\ stmts' = IF m.kind = "S" THEN [stmts EXCEPT ![m.name] = NoSQL] ELSE stmts
    BY <1>4 DEF HandleClose
  <2> QED
    BY <2>1, <2>2
<1>5. CASE HandleQuery(m)
  BY <1>5 DEF HandleQuery
<1>6. CASE HandleIgnored(m)
  BY <1>6 DEF HandleIgnored
<1> QED
  BY <1>1, <1>2, <1>3, <1>4, <1>5, <1>6 DEF Handle

\* Its event, if it is a Bind, is one more Bind event.
LEMMA FeedEvents ==
    ASSUME NEW T, NEW x \in Seq(T), NEW o \in Seq(T), NEW e, e.kind # "none" => e \in T
    PROVE  BindsIn(x \o (IF e.kind = "none" THEN o ELSE Append(o, e)))
             = IF e.kind = "bind" THEN Append(BindsIn(x \o o), e) ELSE BindsIn(x \o o)
<1>1. CASE e.kind = "none"
  BY <1>1
<1>2. CASE e.kind # "none"
  <2>1. x \o o \in Seq(T) /\ x \o Append(o, e) = Append(x \o o, e) /\ e \in T
    BY <1>2
  <2>2. BindsIn(Append(x \o o, e))
          = IF e.kind = "bind" THEN Append(BindsIn(x \o o), e) ELSE BindsIn(x \o o)
    BY <2>1, BindsInAppend
  <2> QED
    BY <1>2, <2>1, <2>2
<1> QED
  BY <1>1, <1>2

\* Feeding a Bind appends it to those the session was fed.
LEMMA FeedBinds ==
    ASSUME ProxyInv, Feed("front")
    PROVE  /\ event' \in Event
           /\ event'.kind # "none" => event' \in Emitted
           /\ BindEvents' = IF event'.kind = "bind" THEN Append(BindEvents, event')
                             ELSE BindEvents
<1>1. TypeOK'
  <2>1. chunk["front"] \in Seq(FrontMsg) /\ chunk["front"] # <<>>
    BY DEF Feed, ProxyInv, InTransitOK, HoldsAChunk, Dirs, Msgs
  <2>2. Head(chunk["front"]) \in FrontMsg
    BY <2>1
  <2>3. Handle(Head(chunk["front"])) /\ TypeOK
    BY DEF Feed, ProxyInv, ProxyTypeOK
  <2> QED
    BY <2>2, <2>3, HandleType
<1>2. recorded["front"] \in Seq(Emitted) /\ outbox["front"] \in Seq(Emitted)
      /\ outbox \in [Dirs -> Seq(Emitted)]
  BY DEF ProxyInv, ProxyTypeOK, Dirs
<1>3. event' \in Event /\ (event'.kind # "none" => event' \in Emitted)
  BY <1>1 DEF TypeOK, Event, Emitted
<1>4. recorded' = recorded /\ outbox'["front"] = WithEvent(outbox["front"])
  BY <1>2 DEF Feed, traceVars, Dirs
<1>5. BindsIn(recorded["front"] \o WithEvent(outbox["front"]))
        = IF event'.kind = "bind"
          THEN Append(BindsIn(recorded["front"] \o outbox["front"]), event')
          ELSE BindsIn(recorded["front"] \o outbox["front"])
  BY <1>2, <1>3, FeedEvents DEF WithEvent
<1> QED
  BY <1>3, <1>4, <1>5 DEF BindEvents

\* What the session knows after a client message is what the moment after it says.
LEMMA FeedFrontKnown ==
    ASSUME ProxyInv, Feed("front"), NEW c \in Moment, MomentOK(c), NEW answers \in Seq(Reply),
           SessionAt(c), PendingAt(c, answers),
           NEW m \in FrontMsg, m = Head(chunk["front"])
    PROVE  SessionAt(After(c, m))' /\ PendingAt(After(c, m), answers)'
<1> DEFINE d == After(c, m)
<1>1. TypeOK /\ TypeOK' /\ Handle(m)
  <2>1. Handle(m) /\ TypeOK
    BY DEF Feed, ProxyInv, ProxyTypeOK
  <2> QED
    BY <2>1, HandleType
<1>2. /\ stmts' = OpenAfter(stmts, m)
      /\ pendingDescribe' = IF Describes(m) THEN Append(pendingDescribe, m.name)
                            ELSE pendingDescribe
      /\ paramOIDs' = paramOIDs
      /\ event'.kind = "parse" <=> m.type = "Parse"
      /\ event'.kind = "bind" <=> m.type = "Bind"
      /\ m.type = "Bind" =>
           event' = Ev("bind", m.stmt, stmts[m.stmt], stmts[m.stmt] # NoSQL,
                       ResolveParams(m))
  BY <1>1, HandleEffect
<1>3. parsedAs' = ParsedAfter(parsedAs, m)
  BY <1>2 DEF Feed, ParsedAfter
<1>4. UNCHANGED <<unanswered, unattributed, misattributed>>
  <2>1. m.type # "ParameterDescription"
    BY DEF FrontMsg
  <2> QED
    BY <2>1 DEF Feed, serverVars
<1>5. BindEvents' = IF m.type = "Bind" THEN Append(BindEvents, event') ELSE BindEvents
  BY <1>2, FeedBinds
<1>6. /\ c.open \in [Names -> Lookup] /\ c.parsed \in [Names -> SUBSET SQLs]
      /\ c.shown \in Seq(Lookup) /\ c.asked \in Seq(Ask)
      /\ m.type = "Bind" => m.stmt \in Names
      /\ Describes(m) => m.name \in Names
      /\ m.type = "Parse" => m.name \in Names
  BY DEF Moment, FrontMsg, Describes
<1>7. BindEvents \in Seq(Emitted) /\ (m.type = "Bind" => event' \in Emitted)
  <2>1. recorded["front"] \o outbox["front"] \in Seq(Emitted)
    BY DEF ProxyInv, ProxyTypeOK, Dirs
  <2>2. BindEvents \in Seq(Emitted)
    BY <2>1, BindsInType DEF BindEvents
  <2> QED
    BY <1>1, <1>2, <2>2 DEF TypeOK, Event, Emitted
<1>8. /\ d.open = OpenAfter(c.open, m) /\ d.parsed = ParsedAfter(c.parsed, m)
      /\ d.shown = IF m.type = "Bind" THEN Append(c.shown, c.open[m.stmt]) ELSE c.shown
      /\ d.asked = IF Describes(m)
                   THEN Append(c.asked, [name |-> m.name, among |-> c.parsed[m.name]])
                   ELSE c.asked
  BY DEF After
<1> HIDE DEF d
<1>9. SessionAt(d)'
  <2>1. stmts' = d.open /\ parsedAs' = d.parsed
    BY <1>2, <1>3, <1>8 DEF SessionAt
  <2>2. /\ Len(BindEvents') = Len(d.shown)
        /\ \A k \in 1..Len(d.shown) : /\ BindEvents'[k].sql = d.shown[k]
                                      /\ BindEvents'[k].resolved <=> d.shown[k] # NoSQL
    <3>1. /\ Len(BindEvents) = Len(c.shown) /\ Len(c.shown) \in Nat
          /\ \A k \in 1..Len(c.shown) : /\ BindEvents[k].sql = c.shown[k]
                                        /\ BindEvents[k].resolved <=> c.shown[k] # NoSQL
      BY <1>6 DEF SessionAt
    <3>2. CASE m.type = "Bind"
      <4> DEFINE q == c.open[m.stmt]
                 e == event'
      <4>1. e.sql = q /\ (e.resolved <=> q # NoSQL) /\ q \in Lookup /\ e \in Emitted
        <5>1. stmts = c.open
          BY DEF SessionAt
        <5>2. e = Ev("bind", m.stmt, q, q # NoSQL, ResolveParams(m))
          BY <1>2, <3>2, <5>1
        <5>3. e.sql = q /\ (e.resolved <=> q # NoSQL)
          BY <5>2 DEF Ev
        <5> QED
          BY <1>6, <1>7, <3>2, <5>3
      <4>2. d.shown = Append(c.shown, q) /\ BindEvents' = Append(BindEvents, e)
        BY <1>5, <1>8, <3>2
      <4> HIDE DEF q, e
      <4>3. /\ Len(d.shown) = Len(c.shown) + 1 /\ d.shown[Len(c.shown) + 1] = q
            /\ \A k \in 1..Len(c.shown) : d.shown[k] = c.shown[k]
        BY <1>6, <4>1, <4>2
      <4>4. /\ Len(BindEvents') = Len(c.shown) + 1 /\ BindEvents'[Len(c.shown) + 1] = e
            /\ \A k \in 1..Len(c.shown) : BindEvents'[k] = BindEvents[k]
        BY <1>7, <3>1, <4>1, <4>2
      <4>5. ASSUME NEW k \in 1..Len(d.shown)
            PROVE  k = Len(c.shown) + 1 \/ k \in 1..Len(c.shown)
        BY <3>1, <4>3
      <4> QED
        BY <3>1, <4>1, <4>3, <4>4, <4>5
    <3>3. CASE m.type # "Bind"
      BY <1>5, <1>8, <3>1, <3>3
    <3> QED
      BY <3>2, <3>3
  <2> QED
    BY <2>1, <2>2 DEF SessionAt
<1>10. PendingAt(d, answers)'
  <2> SUFFICES ASSUME ~unanswered', ~unattributed'
               PROVE  /\ Len(d.asked) = Len(answers) + Len(pendingDescribe')
                      /\ \A k \in 1..Len(pendingDescribe') :
                            pendingDescribe'[k] = d.asked[Len(answers) + k].name
                      /\ \A n \in Names : paramOIDs'[n] # <<>> =>
                            \E q \in d.parsed[n] : paramOIDs'[n] = ParamTypes[q]
                      /\ ~misattributed'
    BY DEF PendingAt
  <2>1. /\ Len(c.asked) = Len(answers) + Len(pendingDescribe)
        /\ \A k \in 1..Len(pendingDescribe) :
              pendingDescribe[k] = c.asked[Len(answers) + k].name
        /\ \A n \in Names : paramOIDs[n] # <<>> =>
              \E q \in c.parsed[n] : paramOIDs[n] = ParamTypes[q]
        /\ ~misattributed
    BY <1>4 DEF PendingAt
  <2>2. \A n \in Names : c.parsed[n] \subseteq d.parsed[n]
    BY <1>6, <1>8 DEF ParsedAfter
  <2>3. pendingDescribe \in Seq(Names) /\ Len(answers) \in Nat
    BY <1>1 DEF TypeOK
  <2>4. /\ Len(d.asked) = Len(answers) + Len(pendingDescribe')
        /\ \A k \in 1..Len(pendingDescribe') :
              pendingDescribe'[k] = d.asked[Len(answers) + k].name
    <3>1. CASE Describes(m)
      <4> DEFINE a == [name |-> m.name, among |-> c.parsed[m.name]]
                 l == Len(pendingDescribe)
      <4>1. a \in Ask /\ a.name = m.name
        BY <1>6, <3>1 DEF Ask
      <4>2. d.asked = Append(c.asked, a)
        BY <1>8, <3>1
      <4> HIDE DEF a
      <4>3. /\ Len(d.asked) = Len(c.asked) + 1 /\ d.asked[Len(c.asked) + 1] = a
            /\ \A k \in 1..Len(c.asked) : d.asked[k] = c.asked[k]
        BY <1>6, <4>1, <4>2
      <4>4. /\ Len(pendingDescribe') = l + 1 /\ pendingDescribe'[l + 1] = m.name
            /\ \A k \in 1..l : pendingDescribe'[k] = pendingDescribe[k]
            /\ l \in Nat
        BY <1>2, <1>6, <2>3, <3>1
      <4> HIDE DEF l
      <4>5. Len(c.asked) = Len(answers) + l
        BY <2>1 DEF l
      <4>6. ASSUME NEW k \in 1..l + 1
            PROVE  pendingDescribe'[k] = d.asked[Len(answers) + k].name
        <5>1. CASE k = l + 1
          <6>1. Len(answers) + k = Len(c.asked) + 1
            BY <2>3, <4>4, <4>5, <5>1
          <6> QED
            BY <4>1, <4>3, <4>4, <5>1, <6>1
        <5>2. CASE k # l + 1
          <6>1. k \in 1..l /\ Len(answers) + k \in 1..Len(c.asked)
            BY <2>3, <4>4, <4>5, <5>2
          <6> QED
            BY <2>1, <4>3, <4>4, <6>1 DEF l
        <5> QED
          BY <5>1, <5>2
      <4>7. Len(d.asked) = Len(answers) + (l + 1)
        BY <2>3, <4>3, <4>4, <4>5
      <4> QED
        BY <4>4, <4>6, <4>7
    <3>2. CASE ~Describes(m)
      BY <1>2, <1>8, <2>1, <3>2
    <3> QED
      BY <3>1, <3>2
  <2>5. \A n \in Names : paramOIDs'[n] # <<>> =>
            \E q \in d.parsed[n] : paramOIDs'[n] = ParamTypes[q]
    BY <1>2, <2>1, <2>2
  <2> QED
    BY <1>4, <2>1, <2>4, <2>5
<1> QED
  BY <1>9, <1>10 DEF d

\* Feeding a client message moves the session's position by one.
LEMMA FeedFrontStreams ==
    ASSUME ProxyInv, NEW S \in Seq(FrontMsg), NEW R \in Seq(Reply), NEW h, NEW A,
           InStreams(S, h, R, A), Feed("front")
    PROVE  InStreams(S, h, R, A)'
<1>1. PICK f \in Nat, p \in Nat, w \in Nat, r \in Nat, g \in Nat, b \in Nat :
        FrontAt(S, f, p, w, r) /\ BackAt(R, g, b) /\ KnownAt(h, R, A, f, p, g)
  BY DEF InStreams
<1> DEFINE m == Head(chunk["front"])
           rest == Tail(chunk["front"])
<1>2. /\ pc["front"] = "feed" /\ chunk["front"] # <<>>
      /\ chunk \in [Dirs -> Seq(FrontMsg) \cup Seq(Reply)]
      /\ pc \in [Dirs -> {"read", "write", "feed", "emit", "done"}]
  BY DEF Feed, ProxyInv, HoldsAChunk, InTransitOK, ProxyTypeOK, Dirs
<1>3. /\ chunk' = [chunk EXCEPT !["front"] = rest]
      /\ pc' = IF rest = <<>> THEN [pc EXCEPT !["front"] = "emit"] ELSE pc
      /\ UNCHANGED <<wire, inbox, executed, prepared, refused, unanswered>>
  BY DEF Feed, netVars, serverVars
<1>4. /\ r \in 0..Len(S) /\ f \in 0..r /\ p \in 0..r /\ w = r
      /\ chunk["front"] = Part(S, f, r) /\ r <= f + MaxChunk
  BY <1>1, <1>2 DEF FrontAt
<1>5. f # r
  <2>1. f \in 0..Len(S) /\ r \in f..Len(S)
    BY <1>4
  <2>2. Part(S, f, r) = <<>> <=> f = r
    BY <2>1, PartType
  <2> QED
    BY <1>2, <1>4, <2>2
<1>6. /\ f \in 0..Len(S) /\ r \in f..Len(S) /\ f + 1 \in 1..Len(S)
      /\ (f + 1) - 1 = f /\ f + 1 \in 0..r /\ f + 1 \in Nat /\ r <= (f + 1) + MaxChunk
  BY <1>4, <1>5, ProxyAssumption
<1>7. m = S[f + 1] /\ rest = Part(S, f + 1, r) /\ m \in FrontMsg
  <2>1. Head(Part(S, f, r)) = S[f + 1] /\ Tail(Part(S, f, r)) = Part(S, f + 1, r)
    BY <1>5, <1>6, PartTail
  <2> QED
    BY <1>4, <1>6, <2>1
<1>8. h[f + 1] = After(h[f], m) /\ h[f] \in Moment /\ MomentOK(h[f])
  BY <1>6, <1>7 DEF InStreams, RunOf
<1>9. A[g] \in Seq(Reply)
  <2>1. g \in 0..Len(R)
    BY <1>1 DEF BackAt
  <2> QED
    BY <2>1 DEF InStreams, AnswersOf
<1> HIDE DEF rest
<1>10. SessionAt(h[f + 1])' /\ PendingAt(h[f + 1], A[g])'
  <2>1. SessionAt(h[f]) /\ PendingAt(h[f], A[g])
    BY <1>1 DEF KnownAt
  <2>2. PICK c \in Moment : c = h[f]
    BY <1>8
  <2>3. PICK a \in Seq(Reply) : a = A[g]
    BY <1>9
  <2>4. PICK n \in FrontMsg : n = S[f + 1]
    BY <1>7
  <2>5. n = Head(chunk["front"])
    BY <1>7, <2>4
  <2>6. SessionAt(c) /\ PendingAt(c, a) /\ MomentOK(c)
    BY <1>8, <2>1, <2>2, <2>3
  <2>7. SessionAt(After(c, n))' /\ PendingAt(After(c, n), a)'
    BY <2>5, <2>6, FeedFrontKnown
  <2>8. h[f + 1] = After(c, n)
    BY <1>7, <1>8, <2>2, <2>4
  <2> QED
    BY <2>3, <2>7, <2>8
<1> HIDE DEF m
<1>11. KnownAt(h, R, A, f + 1, p, g)'
  <2>1. ServerAt(h[p])' /\ AnsweredAt(h[p], A[Len(R)])'
    BY <1>1, <1>3 DEF KnownAt, ServerAt, AnsweredAt, AnswersTo
  <2> QED
    BY <1>10, <2>1 DEF KnownAt
<1>12. FrontAt(S, f + 1, p, r, r)'
  <2>1. pc'["front"] # "write" /\ chunk'["front"] = rest
    BY <1>2, <1>3 DEF Dirs
  <2> QED
    BY <1>1, <1>3, <1>4, <1>6, <1>7, <2>1 DEF FrontAt
<1>13. BackAt(R, g, b)'
  BY <1>1, <1>2, <1>3 DEF BackAt, Dirs
<1> QED
  BY <1>6, <1>11, <1>12, <1>13 DEF InStreams

\* A reply brings the session to its next moment: the description it is, if
\* it is one, is of the oldest statement waited for.
LEMMA FeedBackPending ==
    ASSUME ProxyInv, Feed("back"), NEW m \in Reply, m = Head(chunk["back"]),
           NEW S, NEW h, RunOf(S, h), NEW f \in 0..Len(S), NEW p \in 0..Len(S),
           NEW R \in Seq(Reply), NEW A, AnswersOf(R, A), NEW g \in 0..Len(R),
           Len(S) \in Nat,
           g # Len(R), m = R[g + 1],
           AnsweredAt(h[p], A[Len(R)]), PendingAt(h[f], A[g])
    PROVE  PendingAt(h[f], A[g + 1])'
<1>1. TypeOK /\ HandleBackend(m) /\ UNCHANGED <<unanswered>>
  BY DEF Feed, ProxyInv, ProxyTypeOK, serverVars
<1>2. /\ pendingDescribe \in Seq(Names) /\ paramOIDs \in [Names -> Seq(OIDs)]
      /\ unattributed \in BOOLEAN /\ misattributed \in BOOLEAN
  BY <1>1 DEF TypeOK, ProxyInv, NotesOK
<1>3. /\ g + 1 \in 1..Len(R) /\ g + 1 \in 0..Len(R) /\ (g + 1) - 1 = g
      /\ Len(R) \in 0..Len(R) /\ g + 1 <= Len(R) /\ Len(S) \in 0..Len(S)
      /\ f <= Len(S) /\ p <= Len(S)
  OBVIOUS
<1> SUFFICES ASSUME ~unanswered', ~unattributed'
             PROVE  /\ Len(h[f].asked) = Len(A[g + 1]) + Len(pendingDescribe')
                    /\ \A k \in 1..Len(pendingDescribe') :
                          pendingDescribe'[k] = h[f].asked[Len(A[g + 1]) + k].name
                    /\ \A n \in Names : paramOIDs'[n] # <<>> =>
                          \E q \in h[f].parsed[n] : paramOIDs'[n] = ParamTypes[q]
                    /\ ~misattributed'
  BY DEF PendingAt
<1>4. ~unanswered /\ ~unattributed
  BY <1>1, <1>2 DEF Feed
<1>5. /\ Len(h[f].asked) = Len(A[g]) + Len(pendingDescribe)
      /\ \A k \in 1..Len(pendingDescribe) :
            pendingDescribe[k] = h[f].asked[Len(A[g]) + k].name
      /\ \A n \in Names : paramOIDs[n] # <<>> =>
            \E q \in h[f].parsed[n] : paramOIDs[n] = ParamTypes[q]
      /\ ~misattributed
  BY <1>4 DEF PendingAt
<1>6. A[g + 1] = IF Answers(m) THEN Append(A[g], m) ELSE A[g]
  BY <1>3 DEF AnswersOf
<1>7. /\ A[g] \in Seq(Reply) /\ A[Len(R)] \in Seq(Reply)
      /\ h[f] \in Moment /\ h[p] \in Moment /\ h[Len(S)] \in Moment /\ MomentOK(h[f])
      /\ Begins(A[g + 1], A[Len(R)])
      /\ Begins(h[f].asked, h[Len(S)].asked) /\ Begins(h[p].asked, h[Len(S)].asked)
  BY <1>3 DEF AnswersOf, RunOf, Grows
<1>8. h[f].asked \in Seq(Ask) /\ h[p].asked \in Seq(Ask) /\ Len(A[g]) \in Nat
  <2>1. \A c \in Moment : c.asked \in Seq(Ask)
    BY DEF Moment
  <2>2. \A s \in Seq(Reply) : Len(s) \in Nat
    OBVIOUS
  <2> QED
    BY <1>7, <2>1, <2>2, Zenon
<1>9. CASE Answers(m)
  <2>1. HandleParamDesc(m)
    BY <1>1, <1>9 DEF HandleBackend, HandleRowDesc, HandleIgnored, Answers
  <2>2. pendingDescribe # <<>>
    <3>1. event'.resolved
      BY <1>9 DEF Feed, Answers
    <3> QED
      BY <2>1, <3>1 DEF HandleParamDesc, Ev
  <2> DEFINE n == Head(pendingDescribe)
             a == Len(A[g])
             x == h[f].asked[a + 1]
  <2>3. /\ pendingDescribe' = Tail(pendingDescribe)
        /\ paramOIDs' = [paramOIDs EXCEPT ![n] = m.oids]
        /\ event'.stmt = n
    BY <2>1, <2>2 DEF HandleParamDesc, Ev
  <2>4. n \in Names /\ 1 \in 1..Len(pendingDescribe) /\ n = pendingDescribe[1]
        /\ Len(pendingDescribe) \in Nat /\ Len(pendingDescribe) # 0
        /\ Len(pendingDescribe') = Len(pendingDescribe) - 1
        /\ \A k \in 1..Len(pendingDescribe) - 1 :
              pendingDescribe'[k] = pendingDescribe[k + 1]
    BY <1>2, <2>2, <2>3
  <2>5. n = x.name
    BY <1>5, <2>4
  <2>6. a + 1 \in 1..Len(h[f].asked) /\ a \in Nat
    BY <1>5, <1>8, <2>4
  <2>7. Len(A[g + 1]) = a + 1 /\ A[g + 1][a + 1] = m
    BY <1>6, <1>7, <1>9
  <2> HIDE DEF n, a, x
  <2>8. a + 1 \in 1..Len(A[Len(R)]) /\ A[Len(R)][a + 1] = m
    <3>1. a + 1 \in 1..a + 1
      BY <2>6
    <3>2. a + 1 <= Len(A[Len(R)]) /\ Len(A[Len(R)]) \in Nat
      BY <1>7, <2>7 DEF Begins
    <3>3. A[g + 1][a + 1] = A[Len(R)][a + 1]
      BY <1>7, <2>7, <3>1 DEF Begins
    <3> QED
      BY <2>6, <2>7, <3>2, <3>3
  <2>9. AnswersTo(m, h[p].asked[a + 1]) /\ a + 1 \in 1..Len(h[p].asked)
    BY <1>4, <2>8 DEF AnsweredAt
  <2>10. h[p].asked[a + 1] = x
    <3>1. h[Len(S)].asked[a + 1] = h[f].asked[a + 1]
      BY <1>7, <2>6 DEF Begins
    <3>2. h[Len(S)].asked[a + 1] = h[p].asked[a + 1]
      BY <1>7, <2>9 DEF Begins
    <3> QED
      BY <3>1, <3>2 DEF x
  <2>11. m.for = n /\ \E q \in x.among : m.oids = ParamTypes[q]
    BY <2>5, <2>9, <2>10 DEF AnswersTo
  <2>12. x.among \subseteq h[f].parsed[n]
    BY <1>7, <2>5, <2>6 DEF MomentOK, x
  <2>13. ~misattributed'
    BY <1>5, <1>9, <2>3, <2>11 DEF Feed, Answers
  <2>14. \A l \in Names : paramOIDs'[l] # <<>> =>
            \E q \in h[f].parsed[l] : paramOIDs'[l] = ParamTypes[q]
    <3> SUFFICES ASSUME NEW l \in Names, paramOIDs'[l] # <<>>
                 PROVE  \E q \in h[f].parsed[l] : paramOIDs'[l] = ParamTypes[q]
      OBVIOUS
    <3>1. CASE l = n
      <4>1. paramOIDs'[l] = m.oids
        BY <1>2, <2>3, <3>1
      <4> QED
        BY <2>11, <2>12, <3>1, <4>1
    <3>2. CASE l # n
      <4>1. paramOIDs'[l] = paramOIDs[l]
        BY <1>2, <2>3, <3>2
      <4> QED
        BY <1>5, <4>1
    <3> QED
      BY <3>1, <3>2
  <2>15. /\ Len(h[f].asked) = Len(A[g + 1]) + Len(pendingDescribe')
         /\ \A k \in 1..Len(pendingDescribe') :
               pendingDescribe'[k] = h[f].asked[Len(A[g + 1]) + k].name
    <3>1. Len(h[f].asked) = a + Len(pendingDescribe)
      BY <1>5 DEF a
    <3>2. Len(h[f].asked) = Len(A[g + 1]) + Len(pendingDescribe')
      BY <2>4, <2>6, <2>7, <3>1
    <3>3. ASSUME NEW k \in 1..Len(pendingDescribe')
          PROVE  pendingDescribe'[k] = h[f].asked[Len(A[g + 1]) + k].name
      <4>1. /\ k \in 1..Len(pendingDescribe) - 1 /\ k + 1 \in 1..Len(pendingDescribe)
            /\ Len(A[g + 1]) + k = a + (k + 1)
        BY <2>4, <2>6, <2>7
      <4>2. pendingDescribe[k + 1] = h[f].asked[a + (k + 1)].name
        BY <1>5, <4>1 DEF a
      <4> QED
        BY <2>4, <4>1, <4>2
    <3> QED
      BY <3>2, <3>3
  <2> QED
    BY <2>13, <2>14, <2>15
<1>10. CASE ~Answers(m)
  <2>1. UNCHANGED <<pendingDescribe, paramOIDs, misattributed>>
    <3>1. m.type # "ParameterDescription"
      BY <1>10 DEF Answers
    <3>2. HandleRowDesc(m) \/ HandleIgnored(m)
      BY <1>1, <3>1 DEF HandleBackend, HandleParamDesc
    <3>3. UNCHANGED misattributed
      BY <3>1 DEF Feed
    <3> QED
      BY <3>2, <3>3 DEF HandleRowDesc, HandleIgnored
  <2> QED
    BY <1>5, <1>6, <1>10, <2>1
<1> QED
  BY <1>9, <1>10

\* Feeding a reply gives the next answer to the Describe waiting longest.
LEMMA FeedBackStreams ==
    ASSUME ProxyInv, NEW S \in Seq(FrontMsg), NEW R \in Seq(Reply), NEW h, NEW A,
           InStreams(S, h, R, A), Feed("back")
    PROVE  InStreams(S, h, R, A)'
<1>1. PICK f \in Nat, p \in Nat, w \in Nat, r \in Nat, g \in Nat, b \in Nat :
        FrontAt(S, f, p, w, r) /\ BackAt(R, g, b) /\ KnownAt(h, R, A, f, p, g)
  BY DEF InStreams
<1> DEFINE m == Head(chunk["back"])
           rest == Tail(chunk["back"])
<1>2. /\ pc["back"] = "feed" /\ chunk["back"] # <<>>
      /\ chunk \in [Dirs -> Seq(FrontMsg) \cup Seq(Reply)]
      /\ pc \in [Dirs -> {"read", "write", "feed", "emit", "done"}]
      /\ outbox \in [Dirs -> Seq(Emitted)]
  BY DEF Feed, ProxyInv, HoldsAChunk, InTransitOK, ProxyTypeOK, Dirs
<1>3. /\ chunk' = [chunk EXCEPT !["back"] = rest]
      /\ pc' = IF rest = <<>> THEN [pc EXCEPT !["back"] = "emit"] ELSE pc
      /\ outbox' = [outbox EXCEPT !["back"] = WithEvent(outbox["back"])]
      /\ UNCHANGED <<wire, inbox, executed, prepared, refused, unanswered, recorded>>
  BY <1>2 DEF Feed, netVars, serverVars, traceVars
<1>4. b \in 0..Len(R) /\ g \in 0..b /\ chunk["back"] = Part(R, g, b)
  BY <1>1, <1>2 DEF BackAt
<1>5. g # b
  <2>1. g \in 0..Len(R) /\ b \in g..Len(R)
    BY <1>4
  <2>2. Part(R, g, b) = <<>> <=> g = b
    BY <2>1, PartType
  <2> QED
    BY <1>2, <1>4, <2>2
<1>6. /\ g \in 0..Len(R) /\ b \in g..Len(R) /\ g + 1 \in 1..Len(R)
      /\ g + 1 \in 0..b /\ g + 1 \in Nat /\ g # Len(R)
  BY <1>4, <1>5
<1>7. m = R[g + 1] /\ rest = Part(R, g + 1, b) /\ m \in Reply
  <2>1. Head(Part(R, g, b)) = R[g + 1] /\ Tail(Part(R, g, b)) = Part(R, g + 1, b)
    BY <1>5, <1>6, PartTail
  <2> QED
    BY <1>4, <1>6, <2>1
<1>8. f \in 0..Len(S) /\ p \in 0..Len(S) /\ Len(S) \in Nat
  BY <1>1 DEF FrontAt
<1>9. PendingAt(h[f], A[g + 1])'
  <2>1. /\ AnsweredAt(h[p], A[Len(R)]) /\ PendingAt(h[f], A[g])
        /\ RunOf(S, h) /\ AnswersOf(R, A)
    BY <1>1 DEF KnownAt, InStreams
  <2>2. PICK n \in Reply : n = m
    BY <1>7
  <2> HIDE DEF m
  <2>3. n = R[g + 1] /\ n = Head(chunk["back"])
    BY <1>7, <2>2 DEF m
  <2> QED
    BY <1>6, <1>8, <2>1, <2>3, FeedBackPending
<1>10. UNCHANGED <<stmts, parsedAs>> /\ BindEvents' = BindEvents
  <2>1. HandleBackend(m)
    BY DEF Feed
  <2>2. event'.kind # "parse"
    BY <2>1, BackendEvents
  <2>3. stmts' = stmts
    BY <2>1 DEF HandleBackend, HandleParamDesc, HandleRowDesc, HandleIgnored
  <2>4. parsedAs' = parsedAs
    BY <2>2 DEF Feed
  <2>5. outbox'["front"] = outbox["front"]
    BY <1>2, <1>3 DEF Dirs
  <2> QED
    BY <1>3, <2>3, <2>4, <2>5 DEF BindEvents
<1> HIDE DEF m, rest
<1>11. KnownAt(h, R, A, f, p, g + 1)'
  <2>1. ServerAt(h[p])' /\ AnsweredAt(h[p], A[Len(R)])'
    BY <1>1, <1>3 DEF KnownAt, ServerAt, AnsweredAt, AnswersTo
  <2>2. SessionAt(h[f])'
    BY <1>1, <1>10 DEF KnownAt, SessionAt
  <2> QED
    BY <1>9, <2>1, <2>2 DEF KnownAt
<1>12. BackAt(R, g + 1, b)'
  <2>1. chunk'["back"] = rest
    BY <1>2, <1>3 DEF Dirs
  <2> QED
    BY <1>1, <1>3, <1>4, <1>6, <1>7, <2>1 DEF BackAt
<1>13. FrontAt(S, f, p, w, r)'
  BY <1>1, <1>2, <1>3 DEF FrontAt, Dirs
<1> QED
  BY <1>6, <1>11, <1>12, <1>13 DEF InStreams

-----------------------------------------------------------------------------
(* What the server does. *)

\* A row description, or none: no parameter description.
NoAnswer(x) ==
    x = <<>> \/ \E y \in Reply : x = <<y>> /\ ~Answers(y)

\* The rows of a statement do not answer a Describe of its parameters.
LEMMA RowsNoAnswer ==
    ASSUME NEW q \in SQLs, NEW n \in Names \cup {NoName}
    PROVE  NoAnswer(Rows(q, n))
<1> DEFINE y == [type |-> "RowDescription", oids |-> ColumnTypes[q], for |-> n]
<1>1. y \in Reply /\ ~Answers(y)
  <2>1. ColumnTypes[q] \in Seq(OIDs)
    BY ProxyAssumption
  <2> QED
    BY <2>1 DEF Reply, Answers
<1>2. Rows(q, n) = <<>> \/ Rows(q, n) = <<y>>
  BY DEF Rows
<1> HIDE DEF y
<1> QED
  BY <1>1, <1>2 DEF NoAnswer

\* Replies that answer no Describe leave the answers as they are.
LEMMA NoAnswerNext ==
    ASSUME NEW R \in Seq(Reply), NEW A, AnswersOf(R, A), NEW x, NoAnswer(x)
    PROVE  /\ x \in Seq(Reply) /\ R \o x \in Seq(Reply)
           /\ \E B : /\ AnswersOf(R \o x, B)
                     /\ \A j \in 0..Len(R) : B[j] = A[j]
                     /\ B[Len(R \o x)] = A[Len(R)]
<1>1. CASE x = <<>>
  <2>1. R \o <<>> = R /\ <<>> \in Seq(Reply)
    OBVIOUS
  <2> QED
    BY <1>1, <2>1
<1>2. CASE \E y \in Reply : x = <<y>> /\ ~Answers(y)
  <2>1. PICK y \in Reply : x = <<y>> /\ ~Answers(y)
    BY <1>2
  <2>2. /\ x \in Seq(Reply) /\ R \o x = Append(R, y) /\ Append(R, y) \in Seq(Reply)
        /\ Len(Append(R, y)) = Len(R) + 1 /\ Append(R, y)[Len(R) + 1] = y
        /\ Len(R) \in Nat
    BY <2>1
  <2>3. PICK B : AnswersOf(Append(R, y), B) /\ \A j \in 0..Len(R) : B[j] = A[j]
    BY AnswersNext
  <2>4. B[Len(R) + 1] = A[Len(R)]
    <3>1. /\ Len(R) + 1 \in 1..Len(Append(R, y)) /\ (Len(R) + 1) - 1 = Len(R)
          /\ Len(R) \in 0..Len(R)
      BY <2>2
    <3>2. B[Len(R) + 1] = B[Len(R)]
      BY <2>1, <2>2, <2>3, <3>1 DEF AnswersOf
    <3> QED
      BY <2>3, <3>1, <3>2
  <2> QED
    BY <2>2, <2>3, <2>4
<1> QED
  BY <1>1, <1>2 DEF NoAnswer

\* What the server answers to a message it serves: to the Describe of a
\* statement one description, and none to any other.
LEMMA RepliesNext ==
    ASSUME ProxyInv, NEW m \in FrontMsg, ServerServes(m),
           NEW R \in Seq(Reply), NEW A, AnswersOf(R, A)
    PROVE  /\ Replies(m) \in Seq(Reply) /\ R \o Replies(m) \in Seq(Reply)
           /\ \E B :
                /\ AnswersOf(R \o Replies(m), B)
                /\ \A j \in 0..Len(R) : B[j] = A[j]
                /\ ~Describes(m) => B[Len(R \o Replies(m))] = A[Len(R)]
                /\ Describes(m) =>
                     /\ prepared[m.name] # NoSQL
                     /\ B[Len(R \o Replies(m))] =
                          Append(A[Len(R)],
                                 [type |-> "ParameterDescription", for |-> m.name,
                                  oids |-> ParamTypes[prepared[m.name]]])
<1>1. m.type = "Sync" \/ Accepts(m)
  BY DEF ServerServes
<1>2. prepared \in [Names -> SQLs \cup {NoSQL}] /\ executed \in Seq(SQLs \cup {NoSQL})
  BY DEF ProxyInv, ProxyTypeOK
<1>3. CASE Describes(m)
  <2> DEFINE q == prepared[m.name]
             y == [type |-> "ParameterDescription", for |-> m.name,
                   oids |-> ParamTypes[prepared[m.name]]]
             x == Rows(prepared[m.name], m.name)
  <2>1. m.name \in Names /\ q \in SQLs /\ q # NoSQL
    BY <1>1, <1>2, <1>3 DEF Describes, FrontMsg, Accepts
  <2>2. y \in Reply /\ Answers(y)
    <3>1. ParamTypes[q] \in Seq(OIDs)
      BY <2>1, ProxyAssumption
    <3> QED
      BY <2>1, <3>1 DEF Reply, Answers
  <2>3. NoAnswer(x)
    BY <2>1, RowsNoAnswer
  <2>4. Replies(m) = <<y>> \o x
    BY <1>3 DEF Describes, Replies
  <2> HIDE DEF q, y, x
  <2>5. /\ Append(R, y) \in Seq(Reply) /\ Append(R, y) = R \o <<y>>
        /\ Len(Append(R, y)) = Len(R) + 1 /\ Append(R, y)[Len(R) + 1] = y
        /\ Len(R) \in Nat /\ <<y>> \in Seq(Reply)
    BY <2>2
  <2>6. PICK C : AnswersOf(Append(R, y), C) /\ \A j \in 0..Len(R) : C[j] = A[j]
    BY <2>2, AnswersNext
  <2>7. C[Len(R) + 1] = Append(A[Len(R)], y)
    <3>1. /\ Len(R) + 1 \in 1..Len(Append(R, y)) /\ (Len(R) + 1) - 1 = Len(R)
          /\ Len(R) \in 0..Len(R)
      BY <2>5
    <3>2. C[Len(R) + 1] = Append(C[Len(R)], y)
      BY <2>2, <2>5, <2>6, <3>1 DEF AnswersOf
    <3> QED
      BY <2>6, <3>1, <3>2
  <2> DEFINE U == Append(R, y)
  <2>8. U \in Seq(Reply) /\ AnswersOf(U, C)
    BY <2>5, <2>6
  <2>9. x \in Seq(Reply) /\ U \o x \in Seq(Reply)
    <3> HIDE DEF U
    <3> QED
      BY <2>3, <2>8, NoAnswerNext
  <2>10. PICK B : /\ AnswersOf(U \o x, B)
                  /\ \A j \in 0..Len(U) : B[j] = C[j]
                  /\ B[Len(U \o x)] = C[Len(U)]
    <3> HIDE DEF U
    <3> QED
      BY <2>3, <2>8, NoAnswerNext
  <2>11. R \o Replies(m) = U \o x /\ Replies(m) \in Seq(Reply)
    <3>1. R \o (<<y>> \o x) = (R \o <<y>>) \o x
      <4>1. \A s, t, u \in Seq(Reply) : (s \o t) \o u = s \o (t \o u)
        BY ConcatAssociative
      <4> QED
        BY <2>5, <2>9, <4>1, Zenon
    <3>2. <<y>> \o x \in Seq(Reply)
      BY <2>5, <2>9
    <3> QED
      BY <2>4, <2>5, <3>1, <3>2
  <2>12. \A j \in 0..Len(R) : B[j] = A[j]
    <3>1. \A j \in 0..Len(R) : j \in 0..Len(U)
      BY <2>5
    <3> QED
      BY <2>6, <2>10, <3>1
  <2>13. B[Len(U \o x)] = Append(A[Len(R)], y)
    BY <2>5, <2>7, <2>10
  <2> QED
    BY <1>3, <2>1, <2>9, <2>10, <2>11, <2>12, <2>13 DEF q, y
<1>4. CASE ~Describes(m)
  <2>1. NoAnswer(Replies(m))
    <3>1. CASE m.type = "Query"
      <4>1. m.sql \in SQLs /\ Replies(m) = Rows(m.sql, NoName)
        BY <3>1 DEF FrontMsg, Replies
      <4> QED
        BY <4>1, RowsNoAnswer
    <3>2. CASE m.type = "Describe"
      <4>1. m.kind = "P"
        BY <1>4, <3>2 DEF FrontMsg, Describes
      <4>2. Replies(m) = Rows(LastRun, NoName)
        BY <3>2, <4>1 DEF Replies
      <4>3. LastRun \in SQLs
        BY <1>1, <1>2, <3>2, <4>1 DEF Accepts, LastRun
      <4> QED
        BY <4>2, <4>3, RowsNoAnswer
    <3>3. CASE m.type \notin {"Query", "Describe"}
      <4>1. Replies(m) = <<>>
        BY <3>3 DEF Replies
      <4> QED
        BY <4>1 DEF NoAnswer
    <3> QED
      BY <3>1, <3>2, <3>3
  <2>2. PICK x : x = Replies(m)
    OBVIOUS
  <2>3. /\ x \in Seq(Reply) /\ R \o x \in Seq(Reply)
        /\ \E B : /\ AnswersOf(R \o x, B)
                  /\ \A j \in 0..Len(R) : B[j] = A[j]
                  /\ B[Len(R \o x)] = A[Len(R)]
    BY <2>1, <2>2, NoAnswerNext
  <2> QED
    BY <1>4, <2>2, <2>3
<1> QED
  BY <1>3, <1>4

\* What the server has after a message, served or refused.
LEMMA ServerAfter ==
    ASSUME ProxyInv, NEW c \in Moment, NEW m \in FrontMsg, ServerAt(c),
           ServerServes(m) \/ ServerRefuses(m)
    PROVE  ServerAt(After(c, m))'
<1> DEFINE d == After(c, m)
<1>1. /\ c.live \in [Names -> Lookup] /\ c.parsed \in [Names -> SUBSET SQLs]
      /\ c.ran \in Seq(Lookup)
      /\ prepared \in [Names -> Lookup] /\ executed \in Seq(Lookup)
      /\ refused \in BOOLEAN
  BY DEF Moment, ProxyInv, ProxyTypeOK, NotesOK, Lookup
<1>2. /\ m.type = "Parse" => m.name \in Names /\ m.sql \in SQLs
      /\ m.type = "Bind" => m.stmt \in Names
      /\ m.type = "Close" => m.name \in Names
      /\ Unnamed \in Names /\ NoSQL \notin SQLs /\ NoSQL \in Lookup
  BY SessionAssumption DEF FrontMsg, Lookup
<1>3. /\ d.live = LiveAfter(c.live, m) /\ d.parsed = ParsedAfter(c.parsed, m)
      /\ d.ran = IF m.type = "Bind" THEN Append(c.ran, c.live[m.stmt]) ELSE c.ran
  BY DEF After
<1>4. /\ Len(executed) = Len(c.ran)
      /\ \A n \in Names : prepared[n] # NoSQL => prepared[n] \in c.parsed[n]
      /\ ~refused => /\ prepared = c.live
                     /\ executed = c.ran
                     /\ \A k \in 1..Len(executed) : executed[k] # NoSQL
  BY DEF ServerAt
<1>5. \A n \in Names : c.parsed[n] \subseteq d.parsed[n]
  BY <1>1, <1>2, <1>3 DEF ParsedAfter
<1>6. CASE ServerServes(m)
  <2>1. prepared' = LiveAfter(prepared, m)
    <3>1. CASE m.type = "Query"
      BY <1>6, <3>1 DEF ServerServes, LiveAfter
    <3>2. CASE m.type # "Query"
      BY <1>6, <3>2 DEF ServerServes, LiveAfter, OpenAfter
    <3> QED
      BY <3>1, <3>2
  <2>2. executed' = IF m.type = "Bind" THEN Append(executed, prepared[m.stmt])
                    ELSE executed
    BY <1>6 DEF ServerServes
  <2>3. m.type = "Bind" => /\ prepared[m.stmt] # NoSQL
                           /\ prepared[m.stmt] \in Lookup /\ c.live[m.stmt] \in Lookup
    BY <1>1, <1>2, <1>6 DEF ServerServes, Accepts
  <2>4. Len(executed') = Len(d.ran)
    <3>1. CASE m.type = "Bind"
      <4>1. /\ Len(Append(executed, prepared[m.stmt])) = Len(executed) + 1
            /\ Len(Append(c.ran, c.live[m.stmt])) = Len(c.ran) + 1
        BY <1>1, <2>3, <3>1
      <4> QED
        BY <1>3, <1>4, <2>2, <3>1, <4>1
    <3>2. CASE m.type # "Bind"
      BY <1>3, <1>4, <2>2, <3>2
    <3> QED
      BY <3>1, <3>2
  <2>5. \A n \in Names : prepared'[n] # NoSQL => prepared'[n] \in d.parsed[n]
    BY <1>1, <1>2, <1>3, <1>4, <2>1 DEF LiveAfter, OpenAfter, ParsedAfter
  <2>6. ~refused' => prepared' = d.live /\ executed' = d.ran
    <3>1. refused' = refused
      BY <1>6 DEF ServerServes
    <3> QED
      BY <1>3, <1>4, <2>1, <2>2, <3>1
  <2>7. ~refused' => \A k \in 1..Len(executed') : executed'[k] # NoSQL
    <3> SUFFICES ASSUME ~refused'
                 PROVE  \A k \in 1..Len(executed') : executed'[k] # NoSQL
      OBVIOUS
    <3>1. \A k \in 1..Len(executed) : executed[k] # NoSQL
      BY <1>4, <1>6 DEF ServerServes
    <3>2. CASE m.type = "Bind"
      <4>1. executed' = Append(executed, prepared[m.stmt])
        BY <2>2, <3>2
      <4>2. PICK q \in Lookup : q = prepared[m.stmt] /\ q # NoSQL
        BY <2>3, <3>2
      <4>3. executed' = Append(executed, q)
        BY <4>1, <4>2
      <4> QED
        BY <1>1, <3>1, <4>2, <4>3
    <3>3. CASE m.type # "Bind"
      BY <2>2, <3>1, <3>3
    <3> QED
      BY <3>2, <3>3
  <2> QED
    BY <2>4, <2>5, <2>6, <2>7 DEF ServerAt
<1>7. CASE ServerRefuses(m)
  <2>1. refused'
    BY <1>7 DEF ServerRefuses
  <2>2. Len(executed') = Len(d.ran)
    <3>1. executed' = IF m.type = "Bind" THEN Append(executed, NoSQL) ELSE executed
      BY <1>7 DEF ServerRefuses
    <3>2. CASE m.type = "Bind"
      <4>1. c.live[m.stmt] \in Lookup
        BY <1>1, <1>2, <3>2
      <4>2. /\ Len(Append(executed, NoSQL)) = Len(executed) + 1
            /\ Len(Append(c.ran, c.live[m.stmt])) = Len(c.ran) + 1
        BY <1>1, <1>2, <4>1
      <4> QED
        BY <1>3, <1>4, <3>1, <3>2, <4>2
    <3>3. CASE m.type # "Bind"
      BY <1>3, <1>4, <3>1, <3>3
    <3> QED
      BY <3>2, <3>3
  <2>3. \A n \in Names : prepared'[n] # NoSQL => prepared'[n] \in d.parsed[n]
    <3>1. prepared' \in {prepared, [prepared EXCEPT ![Unnamed] = NoSQL]}
      BY <1>7 DEF ServerRefuses
    <3>2. \A n \in Names : prepared'[n] \in {NoSQL, prepared[n]}
      BY <1>1, <1>2, <3>1
    <3> QED
      BY <1>4, <1>5, <3>2
  <2> QED
    BY <2>1, <2>2, <2>3 DEF ServerAt
<1> QED
  BY <1>6, <1>7 DEF d

\* The server processes the next message, and its reply joins the stream.
LEMMA ServerStreams ==
    ASSUME ProxyInv, NEW S \in Seq(FrontMsg), NEW R \in Seq(Reply), NEW h, NEW A,
           InStreams(S, h, R, A), Server
    PROVE  \E Q \in Seq(Reply) : \E B : InStreams(S, h, Q, B)'
<1>1. PICK f \in Nat, p \in Nat, w \in Nat, r \in Nat, g \in Nat, b \in Nat :
        FrontAt(S, f, p, w, r) /\ BackAt(R, g, b) /\ KnownAt(h, R, A, f, p, g)
  BY DEF InStreams
<1>0. inbox # <<>> /\ inbox \in Seq(FrontMsg)
  BY DEF Server, ProxyInv, ProxyTypeOK
<1>15. PICK m \in FrontMsg : m = Head(inbox)
  BY <1>0
<1>2. /\ inbox # <<>> /\ inbox' = Tail(inbox)
      /\ ServerServes(m) \/ ServerRefuses(m)
      /\ UNCHANGED <<chunk, pc, stmts, parsedAs, recorded, outbox>>
      /\ UNCHANGED <<pendingDescribe, paramOIDs, unattributed, misattributed>>
  BY <1>15 DEF Server, sessionVars, proxyVars, traceVars, noteVars
<1>3. /\ r \in 0..Len(S) /\ w \in 0..r /\ f \in 0..w /\ p \in 0..w
      /\ inbox = Part(S, p, w)
  BY <1>1 DEF FrontAt
<1>4. p # w
  <2>1. p \in 0..Len(S) /\ w \in p..Len(S)
    BY <1>3
  <2>2. Part(S, p, w) = <<>> <=> p = w
    BY <2>1, PartType
  <2> QED
    BY <1>2, <1>3, <2>2
<1>5. /\ p \in 0..Len(S) /\ w \in p..Len(S) /\ p + 1 \in 1..Len(S)
      /\ p + 1 \in 0..w /\ p + 1 \in Nat /\ (p + 1) - 1 = p
      /\ g \in 0..b /\ b \in 0..Len(R) /\ Len(R) \in Nat
  BY <1>1, <1>3, <1>4 DEF BackAt
<1>6. m = S[p + 1] /\ inbox' = Part(S, p + 1, w)
  <2>1. Head(Part(S, p, w)) = S[p + 1] /\ Tail(Part(S, p, w)) = Part(S, p + 1, w)
    BY <1>4, <1>5, PartTail
  <2> QED
    BY <1>2, <1>3, <1>15, <2>1
<1>7. h[p + 1] = After(h[p], m) /\ h[p] \in Moment /\ MomentOK(h[p])
  BY <1>5, <1>6 DEF InStreams, RunOf
<1>8. A[Len(R)] \in Seq(Reply) /\ h[p].asked \in Seq(Ask)
  <2>1. Len(R) \in 0..Len(R)
    BY <1>5
  <2> QED
    BY <1>7, <2>1 DEF InStreams, AnswersOf, Moment
<1>9. ServerAt(h[p + 1])'
  <2>1. ServerAt(After(h[p], m))'
    <3>1. PICK c \in Moment : c = h[p]
      BY <1>7
    <3>2. ServerAt(c) /\ (ServerServes(m) \/ ServerRefuses(m))
      BY <1>1, <1>2, <3>1 DEF KnownAt
    <3>3. ServerAt(After(c, m))'
      BY <3>2, ServerAfter
    <3> QED
      BY <3>1, <3>3
  <2> QED
    BY <1>6, <1>7, <2>1
<1>10. SessionAt(h[f])'
  BY <1>1, <1>2 DEF KnownAt, SessionAt, BindEvents
<1>11. unanswered => unanswered'
  BY <1>2 DEF ServerServes, ServerRefuses
<1>12. FrontAt(S, f, p + 1, w, r)' <=> wire'["front"] = Part(S, r, Len(S))
  BY <1>1, <1>2, <1>5, <1>6 DEF FrontAt
<1>13. CASE ServerServes(m)
  <2>0. AnswersOf(R, A)
    BY DEF InStreams
  <2>1. PICK x \in Seq(Reply) : x = Replies(m) /\ R \o x \in Seq(Reply)
    BY <1>13, <2>0, RepliesNext
  <2>2. PICK B :
          /\ AnswersOf(R \o Replies(m), B)
          /\ \A j \in 0..Len(R) : B[j] = A[j]
          /\ ~Describes(m) => B[Len(R \o Replies(m))] = A[Len(R)]
          /\ Describes(m) =>
               /\ prepared[m.name] # NoSQL
               /\ B[Len(R \o Replies(m))] =
                    Append(A[Len(R)],
                           [type |-> "ParameterDescription", for |-> m.name,
                            oids |-> ParamTypes[prepared[m.name]]])
    BY <1>13, <2>0, RepliesNext
  <2>3. PICK Q \in Seq(Reply) : Q = R \o x
    BY <2>1
  <2>4. wire' = [wire EXCEPT !["back"] = wire["back"] \o x]
        /\ wire \in [Dirs -> Seq(FrontMsg) \cup Seq(Reply)]
        /\ unanswered' = unanswered
    BY <1>13, <2>1 DEF ServerServes, ProxyInv, InTransitOK
  <2>5. FrontAt(S, f, p + 1, w, r)'
    <3>1. wire'["front"] = wire["front"]
      BY <2>4 DEF Dirs
    <3> QED
      BY <1>1, <1>12, <3>1 DEF FrontAt
  <2>6. BackAt(Q, g, b)'
    <3>1. /\ g \in 0..Len(R) /\ b \in g..Len(R) /\ Len(R) \in b..Len(R)
          /\ b \in 0..Len(R \o x)
      BY <1>5, <2>1
    <3>2. Part(R \o x, g, b) = Part(R, g, b)
      BY <3>1, PartConcat
    <3>3. Part(R, b, Len(R)) \o x = Part(R \o x, b, Len(R \o x))
      BY <1>5, <3>1, PartConcat
    <3>4. wire'["back"] = Part(R, b, Len(R)) \o x
      BY <1>1, <2>4 DEF BackAt, Dirs
    <3> QED
      BY <1>1, <1>2, <2>3, <3>1, <3>2, <3>3, <3>4 DEF BackAt
  <2>7. PendingAt(h[f], B[g])'
    <3>1. B[g] = A[g]
      BY <1>5, <2>2
    <3> QED
      BY <1>1, <1>2, <2>4, <3>1 DEF KnownAt, PendingAt
  <2>8. AnsweredAt(h[p + 1], B[Len(Q)])'
    <3> SUFFICES ASSUME ~unanswered
                 PROVE  /\ Len(B[Len(Q)]) = Len(h[p + 1].asked)
                        /\ \A k \in 1..Len(B[Len(Q)]) :
                             AnswersTo(B[Len(Q)][k], h[p + 1].asked[k])
      BY <2>4 DEF AnsweredAt, AnswersTo
    <3>1. /\ Len(A[Len(R)]) = Len(h[p].asked)
          /\ \A k \in 1..Len(A[Len(R)]) : AnswersTo(A[Len(R)][k], h[p].asked[k])
      BY <1>1 DEF KnownAt, AnsweredAt
    <3>2. CASE Describes(m)
      <4> DEFINE a == [name |-> m.name, among |-> h[p].parsed[m.name]]
                 y == [type |-> "ParameterDescription", for |-> m.name,
                       oids |-> ParamTypes[prepared[m.name]]]
                 l == Len(h[p].asked)
      <4>1. m.name \in Names
        BY <1>6, <3>2 DEF Describes, FrontMsg
      <4>2. prepared[m.name] \in h[p].parsed[m.name] /\ prepared[m.name] \in SQLs
        <5>1. \A n \in Names : prepared[n] # NoSQL => prepared[n] \in h[p].parsed[n]
          BY <1>1 DEF KnownAt, ServerAt
        <5>2. h[p].parsed[m.name] \subseteq SQLs
          BY <1>7, <4>1 DEF Moment
        <5> QED
          BY <2>2, <3>2, <4>1, <5>1, <5>2
      <4>3. AnswersTo(y, a)
        BY <4>2 DEF AnswersTo
      <4>4. a \in Ask
        BY <1>7, <4>1 DEF Ask, Moment
      <4>5. y \in Reply
        <5>1. ParamTypes[prepared[m.name]] \in Seq(OIDs)
          BY <4>2, ProxyAssumption
        <5> QED
          BY <4>1, <5>1 DEF Reply
      <4>6. h[p + 1].asked = Append(h[p].asked, a)
        BY <1>7, <3>2 DEF After
      <4>7. B[Len(Q)] = Append(A[Len(R)], y)
        BY <2>1, <2>2, <2>3, <3>2
      <4> HIDE DEF a, y
      <4>8. /\ Len(h[p + 1].asked) = l + 1 /\ h[p + 1].asked[l + 1] = a
            /\ \A k \in 1..l : h[p + 1].asked[k] = h[p].asked[k]
            /\ l \in Nat
        BY <1>8, <4>4, <4>6
      <4>9. /\ Len(B[Len(Q)]) = l + 1 /\ B[Len(Q)][l + 1] = y
            /\ \A k \in 1..l : B[Len(Q)][k] = A[Len(R)][k]
        BY <1>8, <3>1, <4>5, <4>7
      <4> HIDE DEF l
      <4>10. ASSUME NEW k \in 1..l + 1 PROVE k = l + 1 \/ k \in 1..l
        BY <4>8
      <4>11. \A k \in 1..l : AnswersTo(A[Len(R)][k], h[p].asked[k])
        BY <3>1 DEF l
      <4> QED
        BY <4>3, <4>8, <4>9, <4>10, <4>11
    <3>3. CASE ~Describes(m)
      <4>1. h[p + 1].asked = h[p].asked
        BY <1>7, <3>3 DEF After
      <4>2. B[Len(Q)] = A[Len(R)]
        BY <2>1, <2>2, <2>3, <3>3
      <4> QED
        BY <3>1, <4>1, <4>2
    <3> QED
      BY <3>2, <3>3
  <2>9. KnownAt(h, Q, B, f, p + 1, g)'
    BY <1>9, <1>10, <2>7, <2>8 DEF KnownAt
  <2>10. AnswersOf(Q, B)
    BY <2>1, <2>2, <2>3
  <2>11. InStreams(S, h, Q, B)'
    BY <1>5, <2>5, <2>6, <2>9, <2>10 DEF InStreams
  <2> QED
    BY <2>11
<1>14. CASE ServerRefuses(m)
  <2>1. wire' = wire
    BY <1>14 DEF ServerRefuses
  <2>2. FrontAt(S, f, p + 1, w, r)' /\ BackAt(R, g, b)'
    BY <1>1, <1>2, <1>12, <2>1 DEF FrontAt, BackAt
  <2>3. PendingAt(h[f], A[g])'
    BY <1>1, <1>2, <1>11 DEF KnownAt, PendingAt
  <2>4. AnsweredAt(h[p + 1], A[Len(R)])'
    <3>1. CASE Describes(m)
      <4>1. unanswered'
        BY <1>14, <3>1 DEF ServerRefuses, Describes
      <4> QED
        BY <4>1 DEF AnsweredAt
    <3>2. CASE ~Describes(m)
      <4>1. h[p + 1].asked = h[p].asked
        BY <1>7, <3>2 DEF After
      <4> QED
        BY <1>1, <1>11, <4>1 DEF KnownAt, AnsweredAt, AnswersTo
    <3> QED
      BY <3>1, <3>2
  <2>5. KnownAt(h, R, A, f, p + 1, g)'
    BY <1>9, <1>10, <2>3, <2>4 DEF KnownAt
  <2>6. InStreams(S, h, R, A)'
    BY <1>5, <2>2, <2>5 DEF InStreams
  <2> QED
    BY <2>6
<1> QED
  BY <1>2, <1>13, <1>14

-----------------------------------------------------------------------------
(* The trace file, and the event fed last. *)

\* The trace file changes only where something is recorded.
LEMMA WrittenFrame ==
    ASSUME WrittenOK, recorded'["front"] = recorded["front"],
           trace'["front"] = trace["front"], encoder' = "ok" => encoder = "ok"
    PROVE  WrittenOK'
BY DEF WrittenOK

\* Recording an event writes it, or leaves it and what follows out.
LEMMA EmitWritten ==
    ASSUME ProxyInv, WrittenOK, NEW d \in Dirs, Emit(d)
    PROVE  WrittenOK'
<1>1. /\ recorded \in [Dirs -> Seq(Emitted)] /\ trace \in [Dirs -> Seq(Emitted)]
      /\ outbox[d] \in Seq(Emitted)
  BY DEF ProxyInv, ProxyTypeOK
<1>2. CASE outbox[d] = <<>>
  <2>1. UNCHANGED traceVars
    BY <1>2 DEF Emit
  <2> QED
    BY <2>1, WrittenFrame DEF traceVars
<1>3. CASE outbox[d] # <<>>
  <2>1. PICK e \in Emitted : e = Head(outbox[d])
    BY <1>1, <1>3
  <2>2. Record(d, e)
    BY <1>3, <2>1 DEF Emit
  <2>3. encoder' = "ok" => encoder = "ok"
    BY <2>2 DEF Record
  <2>4. CASE d = "back"
    <3>1. recorded'["front"] = recorded["front"] /\ trace'["front"] = trace["front"]
      BY <1>1, <2>2, <2>4 DEF Record, Dirs
    <3> QED
      BY <2>3, <3>1, WrittenFrame
  <2>5. CASE d = "front"
    <3>1. PICK x \in Seq(Emitted) : /\ recorded["front"] = trace["front"] \o x
                                    /\ encoder = "ok" => x = <<>>
      BY DEF WrittenOK
    <3>2. PICK s \in Seq(Emitted) : s = trace["front"]
      BY <1>1 DEF Dirs
    <3>3. recorded'["front"] = Append(s \o x, e)
      BY <1>1, <2>2, <2>5, <3>1, <3>2 DEF Record, Dirs
    <3>4. CASE encoder' = "ok"
      <4>1. x = <<>>
        BY <2>3, <3>1, <3>4
      <4>2. trace'["front"] = Append(s, e)
        BY <1>1, <2>2, <2>3, <2>5, <3>2, <3>4 DEF Record, Dirs
      <4>3. Append(s \o <<>>, e) = Append(s, e) \o <<>>
        OBVIOUS
      <4>4. recorded'["front"] = trace'["front"] \o <<>> /\ <<>> \in Seq(Emitted)
        BY <3>3, <4>1, <4>2, <4>3
      <4> QED
        BY <4>4 DEF WrittenOK
    <3>5. CASE encoder' # "ok"
      <4>1. trace'["front"] = s
        BY <1>1, <2>2, <3>2, <3>5 DEF Record
      <4>2. Append(s \o x, e) = s \o Append(x, e) /\ Append(x, e) \in Seq(Emitted)
        OBVIOUS
      <4>3. recorded'["front"] = trace'["front"] \o Append(x, e)
        BY <3>3, <4>1, <4>2
      <4> QED
        BY <3>5, <4>2, <4>3 DEF WrittenOK
    <3> QED
      BY <3>4, <3>5
  <2> QED
    BY <2>4, <2>5 DEF Dirs
<1> QED
  BY <1>2, <1>3

\* Of a name parsed with one SQL text at most, two are the same.
LEMMA OneOnly ==
    ASSUME NEW T, IsFiniteSet(T), Cardinality(T) <= 1, NEW x \in T, NEW y \in T
    PROVE  x = y
<1> SUFFICES ASSUME x # y PROVE FALSE
  OBVIOUS
<1>1. IsFiniteSet({x}) /\ Cardinality({x}) = 1
  BY FS_Singleton
<1>2. /\ IsFiniteSet({x} \cup {y})
      /\ Cardinality({x} \cup {y}) = Cardinality({x}) + 1
  <2>1. y \notin {x}
    OBVIOUS
  <2> QED
    BY <1>1, <2>1, FS_AddElement
<1>3. Cardinality({x} \cup {y}) <= Cardinality(T)
  <2>1. {x} \cup {y} \subseteq T
    OBVIOUS
  <2> QED
    BY <2>1, FS_Subset
<1>4. Cardinality(T) \in Nat
  BY FS_CardinalityType
<1> QED
  BY <1>1, <1>2, <1>3, <1>4

\* A Bind is decoded with the types of the SQL text shown beside it: its name
\* was parsed with that text alone, and described.
LEMMA BindTypes ==
    ASSUME ProxyInv, NEW c \in Moment, MomentOK(c), NEW answers,
           SessionAt(c), PendingAt(c, answers), ~unanswered, ~unattributed,
           OneSQLPerName, NEW m \in FrontMsg, m.type = "Bind",
           NEW e, e = Ev("bind", m.stmt, stmts[m.stmt], stmts[m.stmt] # NoSQL,
                         ResolveParams(m)),
           e.resolved
    PROVE  OwnTypes(e)
<1> DEFINE n == m.stmt
           q == stmts[n]
<1>1. n \in Names /\ q # NoSQL /\ e.sql = q /\ e.params = ResolveParams(m)
  BY DEF FrontMsg, Ev
<1>2. stmts = c.open /\ parsedAs = c.parsed
  BY DEF SessionAt
<1>3. q \in c.parsed[n] /\ IsFiniteSet(c.parsed[n]) /\ Cardinality(c.parsed[n]) <= 1
  BY <1>1, <1>2 DEF MomentOK, OneSQLPerName
<1>4. paramOIDs[n] # <<>> => paramOIDs[n] = ParamTypes[q]
  <2>1. paramOIDs[n] # <<>> => \E x \in c.parsed[n] : paramOIDs[n] = ParamTypes[x]
    BY <1>1 DEF PendingAt
  <2>2. \A x \in c.parsed[n] : x = q
    BY <1>3, OneOnly
  <2> QED
    BY <2>1, <2>2
<1>5. m.params \in Seq(WireParam)
  BY DEF FrontMsg
<1> SUFFICES ASSUME NEW i \in DOMAIN e.params,
                    e.params[i].known, e.params[i].oid # NoOID
             PROVE  i <= Len(ParamTypes[q]) /\ e.params[i].oid = ParamTypes[q][i]
  BY <1>1 DEF OwnTypes
<1>6. i \in 1..Len(m.params) /\ e.params[i] = ResolvedParam(m, i)
  BY <1>1 DEF ResolveParams
<1>7. HasType(m, i) /\ e.params[i].oid = paramOIDs[n][i]
  BY <1>6 DEF ResolvedParam
<1>8. paramOIDs[n] = ParamTypes[q] /\ Len(paramOIDs[n]) = Len(m.params)
  BY <1>4, <1>7 DEF HasType, CorrelationOK
<1>9. i <= Len(m.params)
  BY <1>5, <1>6
<1> QED
  BY <1>7, <1>8, <1>9

\* An event that resolves a Bind has the types of the SQL text it shows.
LEMMA FeedNeverGuessed ==
    ASSUME ProxyInv, NEW S \in Seq(FrontMsg), NEW R \in Seq(Reply), NEW h, NEW A,
           InStreams(S, h, R, A), NEW d \in Dirs, Feed(d)
    PROVE  NeverGuessedInOrder'
<1> SUFFICES ASSUME OneSQLPerName', ~unanswered', ~unattributed',
                    event'.kind = "bind", event'.resolved
             PROVE  OwnTypes(event)'
  BY DEF NeverGuessedInOrder, NeverGuessed
<1>1. d = "front"
  <2> SUFFICES ASSUME d = "back" PROVE FALSE
    BY DEF Dirs
  <2>1. HandleBackend(Head(chunk["back"]))
    BY DEF Feed
  <2> QED
    BY <2>1 DEF HandleBackend, HandleParamDesc, HandleRowDesc, HandleIgnored, Ev,
                NoEvent
<1>2. chunk["front"] \in Seq(FrontMsg) /\ chunk["front"] # <<>>
  BY <1>1 DEF Feed, ProxyInv, InTransitOK, HoldsAChunk, Dirs, Msgs
<1>3. PICK m \in FrontMsg : m = Head(chunk["front"])
  BY <1>2
<1>4. Handle(m) /\ TypeOK
  BY <1>1, <1>3 DEF Feed, ProxyInv, ProxyTypeOK
<1>5. /\ m.type = "Bind" /\ event'.kind # "parse"
      /\ event' = Ev("bind", m.stmt, stmts[m.stmt], stmts[m.stmt] # NoSQL,
                     ResolveParams(m))
  BY <1>4, HandleEffect
<1>6. UNCHANGED <<unanswered, unattributed, parsedAs>>
  <2>1. m.type # "ParameterDescription"
    BY <1>5
  <2> QED
    BY <1>1, <1>3, <1>5, <2>1 DEF Feed, serverVars
<1>7. PICK f \in Nat, p \in Nat, w \in Nat, r \in Nat, g \in Nat, b \in Nat :
        FrontAt(S, f, p, w, r) /\ BackAt(R, g, b) /\ KnownAt(h, R, A, f, p, g)
  BY DEF InStreams
<1>8. PICK c \in Moment : c = h[f] /\ MomentOK(c)
  <2>1. f \in 0..Len(S)
    BY <1>7 DEF FrontAt
  <2> QED
    BY <2>1 DEF InStreams, RunOf
<1>9. SessionAt(c) /\ PendingAt(c, A[g]) /\ OneSQLPerName
  BY <1>6, <1>7, <1>8 DEF KnownAt, OneSQLPerName
<1>10. PICK e : e = event'
  OBVIOUS
<1>11. OwnTypes(e)
  BY <1>5, <1>6, <1>8, <1>9, <1>10, BindTypes
<1> QED
  BY <1>10, <1>11 DEF OwnTypes

\* What was said of the last event stays true while it is the last.
LEMMA NeverGuessedFrame ==
    ASSUME NeverGuessedInOrder, UNCHANGED <<event, parsedAs, unattributed>>,
           unanswered => unanswered'
    PROVE  NeverGuessedInOrder'
BY DEF NeverGuessedInOrder, NeverGuessed, OneSQLPerName, OwnTypes

-----------------------------------------------------------------------------
(* The invariant holds. *)

\* Before the first message both streams are empty on the proxy's side.
LEMMA InitStreams == Init => StreamInv
<1> SUFFICES ASSUME Init PROVE StreamInv
  OBVIOUS
<1>1. ProxyInv
  BY InitInv
<1> DEFINE h == [i \in 0..0 |-> Start]
           A == [j \in 0..0 |-> <<>>]
<1>2. RunOf(<<>>, h) /\ AnswersOf(<<>>, A)
  BY RunStart, AnswersStart
<1>3. h[0] = Start /\ A[0] = <<>> /\ Len(<<>>) = 0 /\ 0 \in 0..0
      /\ <<>> \in Seq(FrontMsg) /\ <<>> \in Seq(Reply) /\ <<>> \in Seq(Emitted)
  OBVIOUS
<1> HIDE DEF h, A
<1>4. Part(<<>>, 0, 0) = <<>>
  <2>1. PICK s \in Seq(FrontMsg) : s = <<>>
    BY <1>3
  <2>2. 0 \in 0..Len(s) /\ 0 \in 0..Len(s)
    BY <1>3, <2>1
  <2>3. Part(s, 0, 0) = <<>> <=> 0 = 0
    BY <2>2, PartType
  <2> QED
    BY <2>1, <2>3
<1>5. FrontAt(<<>>, 0, 0, 0, 0)
  BY <1>3, <1>4, ProxyAssumption DEF Init, FrontAt, Dirs
<1>6. BackAt(<<>>, 0, 0)
  BY <1>3, <1>4 DEF Init, BackAt, Dirs
<1>7. SessionAt(h[0])
  <2>1. BindEvents = <<>>
    <3>1. recorded["front"] \o outbox["front"] = <<>>
      BY DEF Init, Dirs
    <3> QED
      BY <3>1, BindsInNone DEF BindEvents
  <2> QED
    BY <1>3, <2>1 DEF Init, NewSession, SessionAt, Start
<1>8. ServerAt(h[0])
  BY <1>3 DEF Init, ServerAt, Start
<1>9. AnsweredAt(h[0], A[Len(<<>>)])
  BY <1>3 DEF AnsweredAt, Start
<1>10. PendingAt(h[0], A[0])
  BY <1>3 DEF Init, NewSession, PendingAt, Start
<1>11. KnownAt(h, <<>>, A, 0, 0, 0)
  BY <1>7, <1>8, <1>9, <1>10 DEF KnownAt
<1>12. InStreams(<<>>, h, <<>>, A)
  <2>1. 0 \in Nat
    OBVIOUS
  <2> QED
    BY <1>2, <1>5, <1>6, <1>11, <2>1 DEF InStreams
<1>13. WrittenOK
  <2>1. recorded["front"] = trace["front"] \o <<>>
    BY DEF Init, Dirs
  <2> QED
    BY <1>3, <2>1 DEF WrittenOK
<1>14. NeverGuessedInOrder
  BY DEF Init, NewSession, NoEvent, Ev, NeverGuessedInOrder, NeverGuessed
<1> QED
  BY <1>1, <1>3, <1>12, <1>13, <1>14 DEF StreamInv

\* Every step of every actor keeps the streams.
LEMMA StepStreams == StreamInv /\ [Next]_vars => StreamInv'
<1> SUFFICES ASSUME StreamInv, [Next]_vars PROVE StreamInv'
  OBVIOUS
<1>1. ProxyInv /\ ProxyInv' /\ WrittenOK /\ NeverGuessedInOrder
  BY StepInv DEF StreamInv
<1>2. PICK S \in Seq(FrontMsg), R \in Seq(Reply) : \E h, A : InStreams(S, h, R, A)
  BY DEF StreamInv
<1>3. PICK h, A : InStreams(S, h, R, A)
  BY <1>2
<1>4. SUFFICES /\ \E T \in Seq(FrontMsg), Q \in Seq(Reply) :
                     \E k, B : InStreams(T, k, Q, B)'
               /\ WrittenOK' /\ NeverGuessedInOrder'
  BY <1>1 DEF StreamInv
<1>5. CASE Dial \/ DeclineEncryption \/ Startup \/ Return \/ Killed
  <2>1. /\ UNCHANGED <<sessionVars, netVars, serverVars, noteVars>>
        /\ UNCHANGED <<pc, chunk, outbox, recorded, trace>>
        /\ encoder' = "ok" => encoder = "ok"
    BY <1>5 DEF Dial, DeclineEncryption, Startup, Return, Killed, traceVars
  <2>2. UNCHANGED <<knownVars, wire, inbox, pc, chunk>>
    BY <2>1 DEF knownVars, sessionVars, netVars, serverVars, noteVars
  <2>3. InStreams(S, h, R, A)'
    BY <1>3, <2>2, StreamsFrame
  <2>4. WrittenOK'
    BY <1>1, <2>1, WrittenFrame
  <2>5. NeverGuessedInOrder'
    BY <1>1, <2>1, NeverGuessedFrame DEF sessionVars, serverVars, noteVars
  <2> QED
    BY <2>3, <2>4, <2>5
<1>6. ASSUME NEW d \in Dirs, Read(d) \/ ReadError(d) \/ Write(d) \/ WriteError(d)
      PROVE  /\ InStreams(S, h, R, A)'
             /\ WrittenOK' /\ NeverGuessedInOrder'
  <2>1. InStreams(S, h, R, A)'
    BY <1>1, <1>3, <1>6, ReadStreams, ReadErrorStreams, WriteStreams,
       WriteErrorStreams
  <2>2. UNCHANGED <<traceVars, sessionVars, serverVars, noteVars>>
    BY <1>6 DEF Read, ReadError, Write, WriteError
  <2>3. WrittenOK'
    BY <1>1, <2>2, WrittenFrame DEF traceVars
  <2>4. NeverGuessedInOrder'
    BY <1>1, <2>2, NeverGuessedFrame DEF sessionVars, serverVars, noteVars
  <2> QED
    BY <2>1, <2>3, <2>4
<1>7. ASSUME NEW d \in Dirs, Feed(d)
      PROVE  /\ InStreams(S, h, R, A)'
             /\ WrittenOK' /\ NeverGuessedInOrder'
  <2>1. InStreams(S, h, R, A)'
    BY <1>1, <1>3, <1>7, FeedFrontStreams, FeedBackStreams DEF Dirs
  <2>2. UNCHANGED traceVars
    BY <1>7 DEF Feed
  <2>3. WrittenOK'
    BY <1>1, <2>2, WrittenFrame DEF traceVars
  <2>4. NeverGuessedInOrder'
    BY <1>1, <1>3, <1>7, FeedNeverGuessed
  <2> QED
    BY <2>1, <2>3, <2>4
<1>8. ASSUME NEW d \in Dirs, Emit(d)
      PROVE  /\ InStreams(S, h, R, A)'
             /\ WrittenOK' /\ NeverGuessedInOrder'
  <2>1. InStreams(S, h, R, A)'
    BY <1>1, <1>3, <1>8, EmitStreams
  <2>2. WrittenOK'
    BY <1>1, <1>8, EmitWritten
  <2>3. UNCHANGED <<sessionVars, serverVars, noteVars>>
    BY <1>8 DEF Emit
  <2>4. NeverGuessedInOrder'
    BY <1>1, <2>3, NeverGuessedFrame DEF sessionVars, serverVars, noteVars
  <2> QED
    BY <2>1, <2>2, <2>4
<1>9. CASE ClientSend
  <2>1. \E T \in Seq(FrontMsg) : \E k : InStreams(T, k, R, A)'
    BY <1>1, <1>3, <1>9, ClientStreams
  <2>2. UNCHANGED <<sessionVars, proxyVars, serverVars, noteVars>>
    BY <1>9 DEF ClientSend
  <2>3. WrittenOK'
    BY <1>1, <2>2, WrittenFrame DEF proxyVars, traceVars
  <2>4. NeverGuessedInOrder'
    BY <1>1, <2>2, NeverGuessedFrame DEF sessionVars, serverVars, noteVars
  <2> QED
    BY <2>1, <2>3, <2>4
<1>10. CASE (\E p \in Leavers : PeerCloses(p)) \/ UNCHANGED vars
  <2>1. /\ UNCHANGED <<sessionVars, proxyVars, serverVars, noteVars>>
        /\ UNCHANGED <<wire, inbox>>
    BY <1>10 DEF PeerCloses, vars, netVars
  <2>2. UNCHANGED <<knownVars, wire, inbox, pc, chunk>>
    BY <2>1 DEF knownVars, sessionVars, proxyVars, traceVars, serverVars, noteVars
  <2>3. InStreams(S, h, R, A)'
    BY <1>3, <2>2, StreamsFrame
  <2>4. WrittenOK'
    BY <1>1, <2>1, WrittenFrame DEF proxyVars, traceVars
  <2>5. NeverGuessedInOrder'
    BY <1>1, <2>1, NeverGuessedFrame DEF sessionVars, serverVars, noteVars
  <2> QED
    BY <2>3, <2>4, <2>5
<1>11. CASE Server
  <2>1. \E Q \in Seq(Reply) : \E B : InStreams(S, h, Q, B)'
    BY <1>1, <1>3, <1>11, ServerStreams
  <2>2. UNCHANGED <<sessionVars, proxyVars, noteVars>> /\ (unanswered => unanswered')
    <3>1. \E m : ServerServes(m) \/ ServerRefuses(m)
      BY <1>11 DEF Server
    <3>2. unanswered => unanswered'
      BY <3>1 DEF ServerServes, ServerRefuses
    <3> QED
      BY <1>11, <3>2 DEF Server
  <2>3. WrittenOK'
    BY <1>1, <2>2, WrittenFrame DEF proxyVars, traceVars
  <2>4. NeverGuessedInOrder'
    BY <1>1, <2>2, NeverGuessedFrame DEF sessionVars, noteVars
  <2> QED
    BY <2>1, <2>3, <2>4
<1> QED
  <2>1. ASSUME NEW d \in Dirs, Goroutine(d)
        PROVE  /\ InStreams(S, h, R, A)'
               /\ WrittenOK' /\ NeverGuessedInOrder'
    BY <1>6, <1>7, <1>8, <2>1 DEF Goroutine
  <2> QED
    BY <1>5, <1>9, <1>10, <1>11, <2>1 DEF Next

\* So there are such streams in every reachable state.
LEMMA StreamsHold == Spec => []StreamInv
BY InitStreams, StepStreams, PTL DEF Spec

-----------------------------------------------------------------------------
(* What it says. *)

\* Session and server, in terms of one run.
LEMMA StreamsKnown ==
    ASSUME StreamInv
    PROVE  \E S \in Seq(FrontMsg) : \E h, R, A :
             /\ RunOf(S, h)
             /\ \E f, p, w, r, g, b \in Nat :
                  /\ FrontAt(S, f, p, w, r)
                  /\ BackAt(R, g, b)
                  /\ SessionAt(h[f]) /\ ServerAt(h[p]) /\ PendingAt(h[f], A[g])
BY DEF StreamInv, InStreams, KnownAt

\* The SQL text a Bind is shown with is the one the server ran for it.
LEMMA ShownIsRan ==
    ASSUME StreamInv, ~refused, NEW i \in DOMAIN executed \cap DOMAIN BindEvents
    PROVE  /\ executed[i] # NoSQL
           /\ BindEvents[i].sql = executed[i] /\ BindEvents[i].resolved
<1>1. PICK S \in Seq(FrontMsg) : \E h, R, A :
             /\ RunOf(S, h)
             /\ \E f, p, w, r, g, b \in Nat :
                  /\ FrontAt(S, f, p, w, r)
                  /\ BackAt(R, g, b)
                  /\ SessionAt(h[f]) /\ ServerAt(h[p]) /\ PendingAt(h[f], A[g])
  BY StreamsKnown
<1>2. PICK h : RunOf(S, h) /\ \E f, p, w, r \in Nat :
             FrontAt(S, f, p, w, r) /\ SessionAt(h[f]) /\ ServerAt(h[p])
  BY <1>1
<1>3. PICK f \in Nat, p \in Nat, w \in Nat, r \in Nat :
             FrontAt(S, f, p, w, r) /\ SessionAt(h[f]) /\ ServerAt(h[p])
  BY <1>2
<1>4. f \in 0..Len(S) /\ p \in 0..Len(S) /\ Len(S) \in 0..Len(S)
      /\ f <= Len(S) /\ p <= Len(S)
  BY <1>3 DEF FrontAt
<1>5. PICK c \in Moment, d \in Moment, e \in Moment :
        c = h[f] /\ d = h[p] /\ e = h[Len(S)]
  BY <1>2, <1>4 DEF RunOf
<1>6. Grows(c, e) /\ Grows(d, e) /\ MomentOK(e)
  BY <1>2, <1>4, <1>5 DEF RunOf
<1>7. /\ c.shown \in Seq(Lookup) /\ d.ran \in Seq(Lookup)
      /\ e.shown \in Seq(Lookup) /\ e.ran \in Seq(Lookup)
  BY DEF Moment
<1>8. executed = d.ran /\ \A k \in 1..Len(executed) : executed[k] # NoSQL
  BY <1>3, <1>5 DEF ServerAt
<1>9. BindEvents \in Seq(Emitted)
  <2>1. recorded["front"] \o outbox["front"] \in Seq(Emitted)
    BY DEF StreamInv, ProxyInv, ProxyTypeOK, Dirs
  <2> QED
    BY <2>1, BindsInType DEF BindEvents
<1>10. /\ Len(BindEvents) = Len(c.shown)
       /\ \A k \in 1..Len(c.shown) : /\ BindEvents[k].sql = c.shown[k]
                                     /\ BindEvents[k].resolved <=> c.shown[k] # NoSQL
  BY <1>3, <1>5 DEF SessionAt
<1>11. i \in 1..Len(d.ran) /\ i \in 1..Len(c.shown)
  BY <1>7, <1>8, <1>9, <1>10
<1>12. d.ran[i] # NoSQL /\ i \in 1..Len(e.ran) /\ e.ran[i] = d.ran[i]
  BY <1>6, <1>7, <1>8, <1>11 DEF Grows, Begins
<1>13. e.shown[i] = c.shown[i]
  BY <1>6, <1>11 DEF Grows, Begins
<1>14. e.shown[i] = e.ran[i]
  BY <1>6, <1>12 DEF MomentOK
<1> QED
  BY <1>8, <1>10, <1>11, <1>12, <1>13, <1>14

\* A description is given to another statement only after one was reported
\* unattributable or a Describe went unanswered (session.go, handleParamDesc).
THEOREM DescriptionsFindTheirDescribe == Spec => []MisattributionIsPreceded
<1>1. StreamInv => MisattributionIsPreceded
  <2> SUFFICES ASSUME StreamInv, ~unattributed, ~unanswered PROVE ~misattributed
    BY DEF MisattributionIsPreceded
  <2>1. \E c, a : PendingAt(c, a)
    BY StreamsKnown
  <2> QED
    BY <2>1 DEF PendingAt
<1> QED
  BY <1>1, StreamsHold, PTL

\* A parameter decoded from bytes was decoded with the type it has in the SQL
\* shown, while names are parsed once and every Describe is answered and known
\* (session.go, resolveParams).
THEOREM ParametersNeverGuessed == Spec => []NeverGuessedInOrder
<1>1. StreamInv => NeverGuessedInOrder
  BY DEF StreamInv
<1> QED
  BY <1>1, StreamsHold, PTL

\* While the server refused nothing, the Binds the trace shows are those it
\* ran, in order (session.go, handle).
THEOREM RecordedIsWhatRanHolds == Spec => []RecordedIsWhatRanUnlessRefused
<1>1. StreamInv => RecordedIsWhatRanUnlessRefused
  <2> SUFFICES ASSUME StreamInv, ~refused PROVE RecordedIsWhatRan
    BY DEF RecordedIsWhatRanUnlessRefused
  <2> QED
    BY ShownIsRan DEF RecordedIsWhatRan
<1> QED
  BY <1>1, StreamsHold, PTL

\* So are those of the trace file, wherever it ends (recorder.go, Emit).
THEOREM TraceFileHasNoHoles == Spec => []TraceHasNoHoles
<1>1. StreamInv => TraceHasNoHoles
  <2> DEFINE binds == BindsIn(trace["front"])
  <2> SUFFICES ASSUME StreamInv, ~refused, NEW i \in DOMAIN executed \cap DOMAIN binds
               PROVE  binds[i].sql = executed[i]
    BY DEF TraceHasNoHoles
  <2>1. PICK x \in Seq(Emitted) : recorded["front"] = trace["front"] \o x
    BY DEF StreamInv, WrittenOK
  <2>2. PICK s \in Seq(Emitted), o \in Seq(Emitted) :
          s = trace["front"] /\ o = outbox["front"]
    BY DEF StreamInv, ProxyInv, ProxyTypeOK, Dirs
  <2>3. BindEvents = BindsIn(s) \o BindsIn(x \o o)
    <3>1. x \o o \in Seq(Emitted) /\ (s \o x) \o o = s \o (x \o o)
      BY ConcatAssociative
    <3>2. BindsIn(s \o (x \o o)) = BindsIn(s) \o BindsIn(x \o o)
      BY <3>1, BindsInConcat
    <3> QED
      BY <2>1, <2>2, <3>1, <3>2 DEF BindEvents
  <2>4. BindsIn(s) \in Seq(Emitted) /\ BindsIn(x \o o) \in Seq(Emitted)
    <3>1. x \o o \in Seq(Emitted)
      OBVIOUS
    <3> QED
      BY <3>1, BindsInType
  <2>5. PICK t \in Seq(Emitted), u \in Seq(Emitted) :
          t = BindsIn(s) /\ u = BindsIn(x \o o)
    BY <2>4
  <2>6. i \in DOMAIN t /\ i \in DOMAIN executed
    BY <2>2, <2>5
  <2>7. i \in DOMAIN (t \o u) /\ (t \o u)[i] = t[i]
    BY <2>6
  <2>8. BindEvents[i].sql = executed[i]
    BY <2>3, <2>5, <2>6, <2>7, ShownIsRan
  <2> QED
    BY <2>2, <2>3, <2>5, <2>7, <2>8
<1> QED
  BY <1>1, StreamsHold, PTL

\* What the server ran and the trace lacks, in a capture that can write it, is in
\* the chunk its goroutine held (proxy.go, handle).
THEOREM OnlyOneChunkIsLost == Spec => []OneChunkIsLost
<1>1. StreamInv => OneChunkIsLost
  <2> DEFINE Binds(s) == Len(BindsIn(s))
             held == {i \in DOMAIN chunk["front"] : chunk["front"][i].type = "Bind"}
  <2> SUFFICES ASSUME StreamInv, encoder = "ok"
               PROVE  Len(executed) <= Binds(trace["front"]) +
                        IF pc["front"] = "done" THEN MaxChunk
                        ELSE Binds(outbox["front"]) + Cardinality(held)
    BY DEF OneChunkIsLost
  <2>1. PICK S \in Seq(FrontMsg) : \E h, R, A :
               /\ RunOf(S, h)
               /\ \E f, p, w, r, g, b \in Nat :
                    /\ FrontAt(S, f, p, w, r)
                    /\ BackAt(R, g, b)
                    /\ SessionAt(h[f]) /\ ServerAt(h[p]) /\ PendingAt(h[f], A[g])
    BY StreamsKnown
  <2>2. PICK h : RunOf(S, h) /\ \E f, p, w, r \in Nat :
               FrontAt(S, f, p, w, r) /\ SessionAt(h[f]) /\ ServerAt(h[p])
    BY <2>1
  <2>3. PICK f \in Nat, p \in Nat, w \in Nat, r \in Nat :
               FrontAt(S, f, p, w, r) /\ SessionAt(h[f]) /\ ServerAt(h[p])
    BY <2>2
  <2>4. /\ f \in 0..w /\ p \in 0..w /\ w \in 0..r /\ r \in 0..Len(S)
        /\ r <= f + MaxChunk /\ Len(S) \in Nat /\ MaxChunk \in Nat
    BY <2>3, ProxyAssumption DEF FrontAt
  <2>5. /\ f \in 0..Len(S) /\ p \in 0..Len(S) /\ w \in f..Len(S) /\ w \in p..Len(S)
        /\ r \in f..Len(S) /\ r \in w..Len(S) /\ w \in 0..Len(S)
    BY <2>4
  <2>6. PICK c \in Moment, d \in Moment : c = h[f] /\ d = h[p]
    BY <2>2, <2>5 DEF RunOf
  <2>7. Len(c.shown) = Len(c.ran) /\ Len(c.ran) \in Nat /\ Len(d.ran) \in Nat
    BY <2>2, <2>5, <2>6 DEF RunOf, MomentOK, Moment
  <2>8. Len(executed) = Len(d.ran) /\ Len(BindEvents) = Len(c.ran)
    BY <2>3, <2>6, <2>7 DEF ServerAt, SessionAt
  <2>9. /\ Len(h[p].ran) <= Len(h[w].ran) /\ Len(h[w].ran) <= Len(h[f].ran) + (w - f)
        /\ Len(h[w].ran) <= Len(h[r].ran)
        /\ Len(h[r].ran) = Len(h[f].ran) + Cardinality(BindsOf(S, f, r))
    <3>1. Len(h[p].ran) <= Len(h[w].ran)
      BY <2>2, <2>5, FewBinds
    <3>2. Len(h[w].ran) <= Len(h[f].ran) + (w - f)
      BY <2>2, <2>5, FewBinds
    <3>3. Len(h[w].ran) <= Len(h[r].ran)
      BY <2>2, <2>5, FewBinds
    <3>4. Len(h[r].ran) = Len(h[f].ran) + Cardinality(BindsOf(S, f, r))
      BY <2>2, <2>5, FewBinds
    <3> QED
      BY <3>1, <3>2, <3>3, <3>4
  <2>10. /\ Len(h[w].ran) \in Nat /\ Len(h[r].ran) \in Nat
         /\ Cardinality(BindsOf(S, f, r)) \in Nat
    <3>1. r \in 0..Len(S) /\ f <= r
      BY <2>4
    <3>2. h[w] \in Moment /\ h[r] \in Moment
      BY <2>2, <2>5, <3>1 DEF RunOf
    <3>3. IsFiniteSet(BindsOf(S, f, r))
      BY <2>2, <2>5, <3>1 DEF RunOf, CountsBinds
    <3>4. Cardinality(BindsOf(S, f, r)) \in Nat
      BY <3>3, FS_CardinalityType
    <3>5. h[w].ran \in Seq(Lookup) /\ h[r].ran \in Seq(Lookup)
      BY <3>2 DEF Moment
    <3> QED
      BY <3>4, <3>5
  <2>11. PICK s \in Seq(Emitted), o \in Seq(Emitted) :
           s = trace["front"] /\ o = outbox["front"] /\ recorded["front"] = s
    <3>1. PICK x \in Seq(Emitted) : recorded["front"] = trace["front"] \o x /\ x = <<>>
      BY DEF StreamInv, WrittenOK
    <3>2. /\ trace["front"] \in Seq(Emitted) /\ outbox["front"] \in Seq(Emitted)
      BY DEF StreamInv, ProxyInv, ProxyTypeOK, Dirs
    <3>3. \A t \in Seq(Emitted) : t \o <<>> = t
      OBVIOUS
    <3> QED
      BY <3>1, <3>2, <3>3
  <2>12. /\ Len(BindEvents) = Len(BindsIn(s)) + Len(BindsIn(o))
         /\ Len(BindsIn(s)) \in Nat /\ Len(BindsIn(o)) \in Nat
    <3>1. BindEvents = BindsIn(s) \o BindsIn(o)
      BY <2>11, BindsInConcat DEF BindEvents
    <3>2. BindsIn(s) \in Seq(Emitted) /\ BindsIn(o) \in Seq(Emitted)
      BY BindsInType
    <3> QED
      BY <3>1, <3>2
  <2>15. PICK x \in Nat, y \in Nat, u \in Nat, v \in Nat, k \in Nat :
           /\ x = Len(h[f].ran) /\ y = Len(h[p].ran) /\ u = Len(h[w].ran)
           /\ v = Len(h[r].ran) /\ k = Cardinality(BindsOf(S, f, r))
    BY <2>6, <2>7, <2>10
  <2>16. PICK z \in Nat, l \in Nat : z = Len(BindsIn(s)) /\ l = Len(BindsIn(o))
    BY <2>12
  <2>17. /\ y <= u /\ u <= x + (w - f) /\ u <= v /\ v = x + k
         /\ x = z + l /\ Len(executed) = y /\ w - f <= MaxChunk
    <3>1. Len(executed) = y /\ x = z + l
      BY <2>6, <2>8, <2>12, <2>15, <2>16
    <3>2. w - f <= MaxChunk
      BY <2>4
    <3> QED
      BY <2>9, <2>15, <3>1, <3>2
  <2>13. CASE pc["front"] = "done"
    <3>1. o = <<>>
      BY <2>11, <2>13 DEF StreamInv, ProxyInv, HoldsAChunk, Dirs
    <3>2. Len(BindsIn(o)) = 0
      BY <3>1, BindsInNone
    <3>3. y <= z + MaxChunk
      BY <2>4, <2>16, <2>17, <3>2
    <3> QED
      BY <2>11, <2>13, <2>16, <2>17, <3>3
  <2>14. CASE pc["front"] # "done"
    <3>1. chunk["front"] = Part(S, f, r)
      BY <2>3, <2>14 DEF FrontAt
    <3>2. held = BindsOf(S, f, r)
      <4>1. /\ Part(S, f, r) \in Seq(FrontMsg) /\ Len(Part(S, f, r)) = r - f
            /\ \A i \in 1..r - f : Part(S, f, r)[i] = S[f + i]
        BY <2>5, PartType
      <4>2. DOMAIN Part(S, f, r) = 1..r - f
        BY <4>1
      <4> QED
        BY <3>1, <4>1, <4>2 DEF BindsOf
    <3> HIDE DEF held
    <3>3. y <= z + (l + k)
      BY <2>17
    <3> QED
      BY <2>11, <2>14, <2>15, <2>16, <2>17, <3>2, <3>3
  <2> QED
    BY <2>13, <2>14
<1> QED
  BY <1>1, StreamsHold, PTL

-----------------------------------------------------------------------------
(* The connection implements TraceContract. *)

Seen == Texts(BindEvents)
File == Texts(BindsIn(trace["front"]))
Capture == IF phase = "killed" THEN "stopped"
           ELSE IF encoder = "ok" THEN "on" ELSE "full"
contractVars == <<executed, Seen, File, Capture, refused>>

\* A goroutine never holds more than it read at once.
ChunkFits == Len(chunk["front"]) + Len(outbox["front"]) <= MaxChunk

\* A goroutine starts with nothing.
LEMMA InitFits == Init => ChunkFits
BY ProxyAssumption DEF Init, ChunkFits, Dirs

\* Less of a chunk fits.
LEMMA LessFits ==
    ASSUME NEW x \in Nat, NEW y \in Nat, NEW n \in Nat, x + y <= n,
           NEW z \in Nat, z <= x
    PROVE  z + y <= n
OBVIOUS

\* And so do fewer events.
LEMMA MoreFits ==
    ASSUME NEW x \in Nat, NEW y \in Nat, NEW n \in Nat, x + y <= n,
           NEW z \in Nat, z <= y
    PROVE  x + z <= n
OBVIOUS

\* A step of a goroutine takes a chunk when it has none, and makes at most one
\* event of a message.
LEMMA StepFits == ProxyInv /\ ChunkFits /\ [Next]_vars => ChunkFits'
<1> SUFFICES ASSUME ProxyInv, ChunkFits, [Next]_vars PROVE ChunkFits'
  OBVIOUS
<1>1. /\ chunk \in [Dirs -> Seq(FrontMsg) \cup Seq(Reply)]
      /\ chunk["front"] \in Seq(FrontMsg) /\ wire["front"] \in Seq(FrontMsg)
      /\ outbox \in [Dirs -> Seq(Emitted)] /\ outbox["front"] \in Seq(Emitted)
      /\ "front" \in Dirs
  BY DEF ProxyInv, InTransitOK, ProxyTypeOK, Dirs, Msgs
<1>2. CASE UNCHANGED <<chunk, outbox>>
  BY <1>2 DEF ChunkFits
<1>3. ASSUME NEW d \in Dirs, Read(d)
      PROVE  ChunkFits'
  <2>1. CASE d = "front"
    <3>1. outbox["front"] = <<>> /\ outbox' = outbox
      BY <1>3, <2>1 DEF Read, ProxyInv, HoldsAChunk
    <3>2. PICK k \in 1..MaxChunk : /\ k <= Len(wire["front"])
                                   /\ chunk'["front"] = SubSeq(wire["front"], 1, k)
      BY <1>1, <1>3, <2>1 DEF Read
    <3>3. k \in Nat /\ k <= MaxChunk /\ MaxChunk \in Nat
      BY ProxyAssumption
    <3>4. Len(chunk'["front"]) = k
      BY <1>1, <3>2, <3>3
    <3>5. Len(outbox'["front"]) = 0
      BY <3>1
    <3> QED
      BY <3>3, <3>4, <3>5 DEF ChunkFits
  <2>2. CASE d # "front"
    <3>1. chunk'["front"] = chunk["front"] /\ outbox' = outbox
      BY <1>1, <1>3, <2>2 DEF Read
    <3> QED
      BY <3>1 DEF ChunkFits
  <2> QED
    BY <2>1, <2>2
<1>4. ASSUME NEW d \in Dirs, WriteError(d)
      PROVE  ChunkFits'
  <2>1. outbox' = outbox /\ (chunk'["front"] = <<>> \/ chunk'["front"] = chunk["front"])
    BY <1>1, <1>4 DEF WriteError
  <2>2. Len(chunk'["front"]) <= Len(chunk["front"]) /\ Len(chunk'["front"]) \in Nat
    BY <1>1, <2>1
  <2>3. Len(chunk["front"]) \in Nat /\ Len(outbox["front"]) \in Nat /\ MaxChunk \in Nat
    BY <1>1, ProxyAssumption
  <2> QED
    BY <2>1, <2>2, <2>3, LessFits, Zenon DEF ChunkFits
<1>5. ASSUME NEW d \in Dirs, Feed(d)
      PROVE  ChunkFits'
  <2>1. CASE d = "front"
    <3>1. chunk["front"] # <<>>
      BY <1>5, <2>1 DEF Feed, ProxyInv, HoldsAChunk
    <3>2. /\ chunk'["front"] = Tail(chunk["front"])
          /\ outbox'["front"] = WithEvent(outbox["front"])
      BY <1>1, <1>5, <2>1 DEF Feed
    <3>3. event'.kind # "none" => event' \in Emitted
      BY <1>5, <2>1, FeedBinds
    <3>4. /\ Len(chunk'["front"]) = Len(chunk["front"]) - 1
          /\ Len(chunk["front"]) \in Nat /\ Len(outbox["front"]) \in Nat
      BY <1>1, <3>1, <3>2
    <3>5. Len(outbox'["front"]) = Len(outbox["front"])
            \/ Len(outbox'["front"]) = Len(outbox["front"]) + 1
      <4>1. CASE event'.kind = "none"
        BY <3>2, <4>1 DEF WithEvent
      <4>2. CASE event'.kind # "none"
        <5>1. outbox'["front"] = Append(outbox["front"], event') /\ event' \in Emitted
          BY <3>2, <3>3, <4>2 DEF WithEvent
        <5> QED
          BY <1>1, <5>1
      <4> QED
        BY <4>1, <4>2
    <3>6. \A x, y, n \in Nat : x + y <= n => \A z : z \in {y, y + 1} => (x - 1) + z <= n
      OBVIOUS
    <3>7. MaxChunk \in Nat
      BY ProxyAssumption
    <3>8. Len(outbox'["front"]) \in {Len(outbox["front"]), Len(outbox["front"]) + 1}
      BY <3>5, Zenon
    <3> QED
      BY <3>4, <3>6, <3>7, <3>8, Zenon DEF ChunkFits
  <2>2. CASE d # "front"
    <3>1. chunk'["front"] = chunk["front"] /\ outbox'["front"] = outbox["front"]
      BY <1>1, <1>5, <2>2 DEF Feed
    <3> QED
      BY <3>1 DEF ChunkFits
  <2> QED
    BY <2>1, <2>2
<1>6. ASSUME NEW d \in Dirs, Emit(d)
      PROVE  ChunkFits'
  <2>1. chunk' = chunk
    BY <1>6 DEF Emit
  <2>2. \/ outbox'["front"] = outbox["front"]
        \/ outbox["front"] # <<>> /\ outbox'["front"] = Tail(outbox["front"])
    BY <1>1, <1>6 DEF Emit
  <2>3. Len(outbox'["front"]) <= Len(outbox["front"]) /\ Len(outbox'["front"]) \in Nat
    BY <1>1, <2>2
  <2>4. Len(chunk["front"]) \in Nat /\ Len(outbox["front"]) \in Nat /\ MaxChunk \in Nat
    BY <1>1, ProxyAssumption
  <2> QED
    BY <2>1, <2>3, <2>4, MoreFits, Zenon DEF ChunkFits
<1>7. ASSUME NEW d \in Dirs, ReadError(d) \/ Write(d)
      PROVE  ChunkFits'
  BY <1>2, <1>7 DEF ReadError, Write
<1>8. CASE Dial \/ DeclineEncryption \/ Startup \/ Return \/ Killed
  BY <1>2, <1>8 DEF Dial, DeclineEncryption, Startup, Return, Killed
<1>9. CASE ClientSend \/ (\E p \in Leavers : PeerCloses(p)) \/ Server
  BY <1>2, <1>9 DEF ClientSend, PeerCloses, Server, proxyVars
<1>10. CASE UNCHANGED vars
  BY <1>2, <1>10 DEF vars, proxyVars
<1> QED
  BY <1>3, <1>4, <1>5, <1>6, <1>7, <1>8, <1>9, <1>10 DEF Next, Goroutine

\* The texts of events are as many, and one event more is one text more.
LEMMA TextsAppend ==
    ASSUME NEW s \in Seq(Emitted), NEW e \in Emitted
    PROVE  /\ Texts(s) \in Seq(Lookup)
           /\ Len(Texts(s)) = Len(s)
           /\ DOMAIN Texts(s) = DOMAIN s
           /\ \A i \in DOMAIN s : Texts(s)[i] = s[i].sql
           /\ e.sql \in Lookup
           /\ Texts(Append(s, e)) = Append(Texts(s), e.sql)
<1>1. \A x \in Emitted : x.sql \in Lookup
  BY DEF Emitted, Lookup
<1>2. /\ Texts(s) \in Seq(Lookup) /\ Len(Texts(s)) = Len(s)
      /\ DOMAIN Texts(s) = 1..Len(s) /\ DOMAIN s = 1..Len(s)
      /\ \A i \in 1..Len(s) : Texts(s)[i] = s[i].sql
  BY <1>1 DEF Texts
<1> DEFINE t == Append(s, e)
           l == Texts(t)
           u == Append(Texts(s), e.sql)
<1>3. t \in Seq(Emitted) /\ Len(t) = Len(s) + 1 /\ Len(s) \in Nat
      /\ t[Len(s) + 1] = e /\ \A i \in 1..Len(s) : t[i] = s[i]
  OBVIOUS
<1> HIDE DEF t
<1>4. /\ l \in Seq(Lookup) /\ Len(l) = Len(s) + 1
      /\ \A i \in 1..Len(s) + 1 : l[i] = t[i].sql
  BY <1>1, <1>3 DEF Texts
<1>5. e.sql \in Lookup
  BY <1>1
<1>6. /\ u \in Seq(Lookup) /\ Len(u) = Len(s) + 1 /\ u[Len(s) + 1] = e.sql
      /\ \A i \in 1..Len(s) : u[i] = Texts(s)[i]
  BY <1>2, <1>3, <1>5
<1> HIDE DEF l, u
<1>7. ASSUME NEW i \in 1..Len(s) + 1 PROVE l[i] = u[i]
  <2>1. CASE i = Len(s) + 1
    BY <1>3, <1>4, <1>6, <2>1
  <2>2. CASE i # Len(s) + 1
    <3>1. i \in 1..Len(s)
      BY <1>3, <2>2
    <3>2. l[i] = s[i].sql
      BY <1>3, <1>4, <3>1
    <3> QED
      BY <1>2, <1>6, <3>1, <3>2
  <2> QED
    BY <2>1, <2>2
<1>8. l = u
  BY <1>4, <1>6, <1>7, SeqEqual
<1> QED
  BY <1>2, <1>5, <1>8 DEF l, u, t

\* What the server ran and the session was fed agree, as TraceContract says it.
SeenOK ==
    ~refused => /\ Contract!Agree(executed, Seen)
                /\ \A i \in DOMAIN executed : executed[i] # NoSQL

\* The Binds the session was fed are events.
LEMMA BindEventsType == StreamInv => BindEvents \in Seq(Emitted)
<1>1. StreamInv => recorded["front"] \o outbox["front"] \in Seq(Emitted)
  BY DEF StreamInv, ProxyInv, ProxyTypeOK, Dirs
<1> QED
  BY <1>1, BindsInType DEF BindEvents

\* In every state of the invariant they do.
LEMMA SeenAgrees == StreamInv => SeenOK
<1> SUFFICES ASSUME StreamInv, ~refused
             PROVE  /\ Contract!Agree(executed, Seen)
                    /\ \A i \in DOMAIN executed : executed[i] # NoSQL
  BY DEF SeenOK
<1>1. PICK h, p : ServerAt(h[p])
  BY StreamsKnown
<1>2. executed \in Seq(Lookup)
  BY DEF StreamInv, ProxyInv, ProxyTypeOK, Lookup
<1>3. \A i \in DOMAIN executed : executed[i] # NoSQL
  BY <1>1, <1>2 DEF ServerAt
<1>4. /\ BindEvents \in Seq(Emitted) /\ DOMAIN Seen = DOMAIN BindEvents
      /\ \A i \in DOMAIN BindEvents : Seen[i] = BindEvents[i].sql
  BY BindEventsType DEF Seen, Texts
<1>5. \A i \in DOMAIN executed \cap DOMAIN BindEvents : BindEvents[i].sql = executed[i]
  BY ShownIsRan
<1>6. \A i \in DOMAIN executed \cap DOMAIN Seen : executed[i] = Seen[i]
  BY <1>4, <1>5
<1> QED
  BY <1>3, <1>6 DEF Contract!Agree

\* Most steps neither run, see, write nor end anything.
LEMMA QuietMeets ==
    ASSUME UNCHANGED <<executed, refused, recorded, outbox, trace, encoder>>,
           phase' = "killed" <=> phase = "killed"
    PROVE  UNCHANGED contractVars
<1>1. BindEvents' = BindEvents
  BY DEF BindEvents
<1>2. Seen' = Seen
  BY <1>1 DEF Seen
<1>3. File' = File
  BY DEF File
<1>4. Capture' = Capture
  BY DEF Capture
<1> QED
  BY <1>2, <1>3, <1>4 DEF contractVars

\* A failed write is the end of the capture, whoever met it.
LEMMA FailMeets ==
    ASSUME UNCHANGED <<executed, refused>>, Seen' = Seen, trace' = trace,
           phase # "killed", phase' # "killed",
           encoder = "ok", encoder' = "failed"
    PROVE  Contract!End
<1>1. File' = File
  BY DEF File
<1>2. Capture = "on" /\ Capture' = "full"
  BY DEF Capture
<1> QED
  BY <1>1, <1>2 DEF Contract!End, Seen, File, Capture

\* While the file can be written, what the session was fed is what is in the file
\* and in the outbox.
LEMMA FileAndOutbox ==
    ASSUME ProxyInv, WrittenOK, encoder = "ok"
    PROVE  /\ recorded["front"] = trace["front"]
           /\ BindsIn(trace["front"]) \in Seq(Emitted)
           /\ BindsIn(outbox["front"]) \in Seq(Emitted)
           /\ BindEvents = BindsIn(trace["front"]) \o BindsIn(outbox["front"])
           /\ Len(BindsIn(outbox["front"])) <= Len(outbox["front"])
<1>1. /\ recorded["front"] \in Seq(Emitted) /\ trace["front"] \in Seq(Emitted)
      /\ outbox["front"] \in Seq(Emitted)
  BY DEF ProxyInv, ProxyTypeOK, Dirs
<1>2. recorded["front"] = trace["front"]
  <2>1. recorded["front"] = trace["front"] \o <<>>
    BY DEF WrittenOK
  <2>2. \A s \in Seq(Emitted) : s \o <<>> = s
    OBVIOUS
  <2> QED
    BY <1>1, <2>1, <2>2
<1>3. BindEvents = BindsIn(trace["front"]) \o BindsIn(outbox["front"])
  BY <1>1, <1>2, BindsInConcat DEF BindEvents
<1> QED
  BY <1>1, <1>2, <1>3, BindsInType

\* Feed sees a Bind, the one run in its place if it was run.
LEMMA FeedMeets ==
    ASSUME StreamInv, StreamInv', ChunkFits, phase # "killed", NEW d \in Dirs, Feed(d)
    PROVE  [Contract!Next]_contractVars
<1>1. /\ UNCHANGED <<executed, refused, phase, traceVars>>
      /\ ProxyInv /\ WrittenOK
  BY DEF Feed, serverVars, StreamInv
<1>2. outbox \in [Dirs -> Seq(Emitted)]
  BY <1>1 DEF ProxyInv, ProxyTypeOK
<1>3. File' = File /\ Capture' = Capture /\ Capture # "stopped"
  BY <1>1 DEF File, Capture, traceVars
<1>4. CASE d = "back"
  <2>1. outbox'["front"] = outbox["front"]
    BY <1>2, <1>4 DEF Feed, Dirs
  <2>2. BindEvents' = BindEvents
    BY <1>1, <2>1 DEF BindEvents, traceVars
  <2> QED
    BY <1>1, <1>3, <2>2 DEF contractVars, Seen
<1>5. CASE d = "front"
  <2>1. /\ event'.kind # "none" => event' \in Emitted
        /\ BindEvents' = IF event'.kind = "bind" THEN Append(BindEvents, event')
                         ELSE BindEvents
    BY <1>1, <1>5, FeedBinds
  <2>2. CASE event'.kind # "bind"
    <3>1. BindEvents' = BindEvents
      BY <2>1, <2>2
    <3> QED
      BY <1>1, <1>3, <3>1 DEF contractVars, Seen
  <2>3. CASE event'.kind = "bind"
    <3>1. PICK e \in Emitted : e = event'
      BY <2>1, <2>3
    <3>2. BindEvents' = Append(BindEvents, e) /\ BindEvents \in Seq(Emitted)
      BY <2>1, <2>3, <3>1, BindEventsType
    <3>3. Seen' = Append(Seen, e.sql) /\ e.sql \in Lookup
      BY <3>2, TextsAppend DEF Seen
    <3>4. ~refused => Contract!Agree(executed, Seen')
      <4>1. StreamInv' => SeenOK'
        BY SeenAgrees, PTL
      <4>2. ~refused => Contract!Agree(executed', Seen')
        BY <1>1, <4>1 DEF SeenOK
      <4> QED
        BY <1>1, <4>2
    <3>5. Capture = "on" => Len(Seen) < Len(File) + MaxChunk
      <4> SUFFICES ASSUME Capture = "on" PROVE Len(Seen) < Len(File) + MaxChunk
        OBVIOUS
      <4>1. encoder = "ok"
        BY DEF Capture
      <4>2. PICK s \in Seq(Emitted), o \in Seq(Emitted) :
              /\ s = BindsIn(trace["front"]) /\ o = BindsIn(outbox["front"])
              /\ BindEvents = s \o o /\ Len(o) <= Len(outbox["front"])
        BY <1>1, <4>1, FileAndOutbox
      <4>3. Len(Seen) = Len(s) + Len(o) /\ Len(File) = Len(s)
        <5>1. s \o o \in Seq(Emitted) /\ Len(s \o o) = Len(s) + Len(o)
          OBVIOUS
        <5>2. \A x \in Seq(Emitted) : Len(Texts(x)) = Len(x)
          BY <3>1, TextsAppend
        <5> QED
          BY <4>2, <5>1, <5>2 DEF Seen, File
      <4>4. chunk["front"] \in Seq(FrontMsg) /\ chunk["front"] # <<>>
        BY <1>1, <1>5 DEF Feed, ProxyInv, InTransitOK, HoldsAChunk, Dirs, Msgs
      <4>5. PICK x \in Nat, y \in Nat : /\ x = Len(chunk["front"]) /\ x > 0
                                        /\ y = Len(outbox["front"])
        <5>1. Len(chunk["front"]) \in Nat /\ Len(chunk["front"]) > 0
          BY <4>4
        <5>2. Len(outbox["front"]) \in Nat
          BY <1>2 DEF Dirs
        <5> QED
          BY <5>1, <5>2
      <4>6. x + y <= MaxChunk /\ Len(o) <= y
        BY <4>2, <4>5 DEF ChunkFits
      <4>7. Len(s) \in Nat /\ Len(o) \in Nat /\ MaxChunk \in Nat
        BY ProxyAssumption
      <4>8. Len(s) + Len(o) < Len(s) + MaxChunk
        <5>1. \A i, j, k, l, n \in Nat : k > 0 /\ k + l <= n /\ j <= l => i + j < i + n
          OBVIOUS
        <5> QED
          BY <4>5, <4>6, <4>7, <5>1, Zenon
      <4> QED
        BY <4>3, <4>8
    <3>6. Contract!See(e.sql)
      BY <1>1, <1>3, <3>3, <3>4, <3>5 DEF Contract!See, Seen, File, Capture
    <3>7. e.sql \in Contract!Text
      BY <3>3 DEF Contract!Text, Lookup
    <3> QED
      BY <3>6, <3>7 DEF Contract!Next
  <2> QED
    BY <2>2, <2>3
<1> QED
  BY <1>4, <1>5 DEF Dirs

\* Emit writes the event seen first of those not in the file.
LEMMA EmitMeets ==
    ASSUME StreamInv, phase # "killed", NEW d \in Dirs, Emit(d)
    PROVE  [Contract!Next]_contractVars
<1>1. /\ UNCHANGED <<executed, refused, phase>>
      /\ ProxyInv /\ WrittenOK
  BY DEF Emit, serverVars, StreamInv
<1>2. Seen' = Seen
  BY <1>1, EmitBinds DEF Seen
<1>3. /\ outbox \in [Dirs -> Seq(Emitted)] /\ trace \in [Dirs -> Seq(Emitted)]
      /\ recorded \in [Dirs -> Seq(Emitted)]
      /\ encoder \in {"ok", "failed"}
  BY <1>1 DEF ProxyInv, ProxyTypeOK
<1>4. CASE trace' = trace /\ encoder' = encoder
  BY <1>1, <1>2, <1>4 DEF contractVars, File, Capture
<1>5. CASE outbox[d] = <<>>
  BY <1>4, <1>5 DEF Emit, traceVars
<1>6. CASE outbox[d] # <<>>
  <2>1. PICK e \in Emitted : e = Head(outbox[d])
    BY <1>3, <1>6
  <2>2. /\ Record(d, e)
        /\ outbox' = [outbox EXCEPT ![d] = Tail(outbox[d])]
    BY <1>6, <2>1 DEF Emit
  <2>3. CASE encoder = "ok" /\ encoder' = "failed" /\ trace' = trace
    <3>1. Contract!End
      BY <1>1, <1>2, <2>3, FailMeets
    <3> QED
      BY <3>1 DEF Contract!Next
  <2>4. CASE /\ encoder = "ok" /\ encoder' = "ok"
             /\ trace' = [trace EXCEPT ![d] = Append(trace[d], e)]
    <3>1. Capture = "on" /\ Capture' = "on"
      BY <1>1, <2>4 DEF Capture
    <3>2. CASE d = "back"
      <4>1. trace'["front"] = trace["front"]
        BY <1>3, <2>4, <3>2 DEF Dirs
      <4>2. File' = File
        BY <4>1 DEF File
      <4> QED
        BY <1>1, <1>2, <3>1, <4>2 DEF contractVars
    <3>3. CASE d = "front"
      <4>1. trace["front"] \in Seq(Emitted) /\ trace'["front"] = Append(trace["front"], e)
        BY <1>3, <2>4, <3>3 DEF Dirs
      <4>2. BindsIn(trace'["front"]) = IF e.kind = "bind" THEN Append(BindsIn(trace["front"]), e)
                                       ELSE BindsIn(trace["front"])
        BY <4>1, BindsInAppend
      <4>3. CASE e.kind # "bind"
        <5>1. File' = File
          BY <4>2, <4>3 DEF File
        <5> QED
          BY <1>1, <1>2, <3>1, <5>1 DEF contractVars
      <4>4. CASE e.kind = "bind"
        <5>1. PICK s \in Seq(Emitted) : s = BindsIn(trace["front"])
          BY <4>1, BindsInType
        <5>2. File = Texts(s) /\ File' = Append(Texts(s), e.sql)
          BY <4>2, <4>4, <5>1, TextsAppend DEF File
        <5>3. PICK o \in Seq(Emitted) : BindEvents = Append(s, e) \o o
          <6>1. recorded["front"] = trace["front"]
            BY <1>1, <2>4, FileAndOutbox
          <6>2. outbox["front"] \in Seq(Emitted) /\ outbox["front"] # <<>>
            BY <1>3, <1>6, <3>3 DEF Dirs
          <6>3. PICK rest \in Seq(Emitted) : rest = Tail(outbox["front"])
            <7>1. Tail(outbox["front"]) \in Seq(Emitted)
              BY <6>2
            <7> QED
              BY <7>1, Zenon
          <6>4. trace["front"] \o outbox["front"] = Append(trace["front"], e) \o rest
            BY <2>1, <3>3, <4>1, <6>2, <6>3, Emitting
          <6>5. Append(trace["front"], e) \in Seq(Emitted)
            BY <4>1
          <6>6. BindsIn(Append(trace["front"], e) \o rest)
                  = BindsIn(Append(trace["front"], e)) \o BindsIn(rest)
            BY <6>5, BindsInConcat
          <6>7. BindsIn(Append(trace["front"], e)) = Append(s, e)
            BY <4>1, <4>2, <4>4, <5>1
          <6>8. BindsIn(rest) \in Seq(Emitted)
            BY BindsInType
          <6> QED
            BY <6>1, <6>4, <6>6, <6>7, <6>8 DEF BindEvents
        <5>4. PICK u \in Seq(Emitted) : u = Append(s, e) \o o
          <6>1. Append(s, e) \o o \in Seq(Emitted)
            OBVIOUS
          <6> QED
            BY <6>1, Zenon
        <5>5. /\ Len(s) + 1 \in DOMAIN u /\ u[Len(s) + 1] = e
              /\ Len(s) < Len(u)
          BY <5>4
        <5>6. Seen = Texts(u)
          BY <5>3, <5>4 DEF Seen
        <5>7. Seen[Len(s) + 1] = e.sql /\ Len(s) < Len(Seen)
          BY <5>5, <5>6, TextsAppend
        <5>8. Len(File) = Len(s) /\ File' = Append(File, e.sql)
          BY <5>2, TextsAppend
        <5>9. Contract!Write
          BY <1>1, <1>2, <3>1, <5>7, <5>8 DEF Contract!Write, Seen, File, Capture
        <5> QED
          BY <5>9 DEF Contract!Next
      <4> QED
        BY <4>3, <4>4
    <3> QED
      BY <3>2, <3>3 DEF Dirs
  <2> QED
    BY <1>3, <1>4, <2>2, <2>3, <2>4 DEF Record
<1> QED
  BY <1>5, <1>6

\* The server runs the Bind seen in its place, or refuses something.
LEMMA ServerMeets ==
    ASSUME StreamInv, StreamInv', Server
    PROVE  [Contract!Next]_contractVars
<1>1. UNCHANGED <<phase, recorded, outbox, trace, encoder>>
  BY DEF Server, proxyVars, traceVars
<1>2. BindEvents' = BindEvents
  BY <1>1 DEF BindEvents
<1>3. Seen' = Seen /\ File' = File /\ Capture' = Capture
  BY <1>1, <1>2 DEF Seen, File, Capture
<1>4. /\ inbox \in Seq(FrontMsg) /\ inbox # <<>> /\ refused \in BOOLEAN
      /\ executed \in Seq(Lookup) /\ prepared \in [Names -> Lookup]
  BY DEF Server, StreamInv, ProxyInv, ProxyTypeOK, NotesOK, Lookup
<1>5. PICK m \in FrontMsg : ServerServes(m) \/ ServerRefuses(m)
  BY <1>4 DEF Server
<1>6. m.type = "Bind" => prepared[m.stmt] \in Lookup
  BY <1>4 DEF FrontMsg
<1>7. NoSQL \in Lookup /\ Contract!Text = Lookup
  BY DEF Lookup, Contract!Text
<1>8. /\ refused => refused'
      /\ refused' \in BOOLEAN
      /\ executed' = executed \/ \E q \in Lookup : executed' = Append(executed, q)
  BY <1>4, <1>5, <1>6, <1>7 DEF ServerServes, ServerRefuses
<1>9. CASE refused'
  <2>1. executed' \in {executed} \cup {Append(executed, q) : q \in Contract!Text}
    BY <1>7, <1>8
  <2>2. Contract!Refuse
    BY <1>3, <1>8, <1>9, <2>1 DEF Contract!Refuse, Seen, File, Capture
  <2> QED
    BY <2>2 DEF Contract!Next
<1>10. CASE ~refused'
  <2>1. refused' = refused /\ ~refused
    BY <1>4, <1>8, <1>10
  <2>2. CASE executed' = executed
    BY <1>3, <2>1, <2>2 DEF contractVars
  <2>3. CASE \E q \in Lookup : executed' = Append(executed, q)
    <3>1. PICK q \in Lookup : executed' = Append(executed, q)
      BY <2>3
    <3>2. StreamInv' => SeenOK'
      BY SeenAgrees, PTL
    <3>3. /\ Contract!Agree(executed', Seen')
          /\ \A i \in DOMAIN executed' : executed'[i] # NoSQL
      BY <1>10, <3>2 DEF SeenOK
    <3>4. q # NoSQL
      <4>1. /\ Len(executed) + 1 \in DOMAIN executed'
            /\ executed'[Len(executed) + 1] = q
        BY <1>4, <3>1
      <4> QED
        BY <3>3, <4>1
    <3>5. Contract!Run(q)
      BY <1>3, <2>1, <3>1, <3>3, <3>4 DEF Contract!Run, Seen, File, Capture
    <3> QED
      BY <1>7, <3>5 DEF Contract!Next
  <2> QED
    BY <1>8, <2>2, <2>3
<1> QED
  BY <1>9, <1>10

\* Every step of the connection is one of the contract, or none.
LEMMA StepMeets ==
    StreamInv /\ StreamInv' /\ ChunkFits /\ [Next]_vars => [Contract!Next]_contractVars
<1> SUFFICES ASSUME StreamInv, StreamInv', ChunkFits, [Next]_vars
             PROVE  [Contract!Next]_contractVars
  OBVIOUS
<1>1. CASE /\ UNCHANGED <<executed, refused, recorded, outbox, trace, encoder>>
           /\ phase' = "killed" <=> phase = "killed"
  BY <1>1, QuietMeets
<1>2. CASE Dial \/ DeclineEncryption \/ Return
  <2>1. /\ UNCHANGED <<executed, refused, recorded, outbox, trace, encoder>>
        /\ phase' # "killed" /\ phase # "killed"
    BY <1>2 DEF Dial, DeclineEncryption, Return, traceVars, serverVars
  <2> QED
    BY <1>1, <2>1
<1>3. CASE Startup
  <2>1. /\ UNCHANGED <<executed, refused, recorded, outbox, trace>>
        /\ phase # "killed" /\ phase' # "killed"
        /\ encoder' = encoder \/ encoder' = "failed"
    BY <1>3 DEF Startup, serverVars
  <2>2. encoder \in {"ok", "failed"}
    BY DEF StreamInv, ProxyInv, ProxyTypeOK
  <2>3. CASE encoder' = encoder
    BY <1>1, <2>1, <2>3
  <2>4. CASE encoder' # encoder
    <3>1. BindEvents' = BindEvents
      BY <2>1 DEF BindEvents
    <3>2. Seen' = Seen
      BY <3>1 DEF Seen
    <3>3. Contract!End
      BY <2>1, <2>2, <2>4, <3>2, FailMeets
    <3> QED
      BY <3>3 DEF Contract!Next
  <2> QED
    BY <2>3, <2>4
<1>4. CASE Killed
  <2>1. /\ UNCHANGED <<executed, refused, recorded, outbox, trace, encoder>>
        /\ phase = "running" /\ phase' = "killed"
    BY <1>4 DEF Killed, traceVars, serverVars
  <2>2. BindEvents' = BindEvents
    BY <2>1 DEF BindEvents
  <2>3. Seen' = Seen /\ File' = File
    BY <2>1, <2>2 DEF Seen, File
  <2>4. Capture # "stopped" /\ Capture' = "stopped"
    BY <2>1 DEF Capture
  <2>5. Contract!End
    BY <2>1, <2>3, <2>4 DEF Contract!End, Seen, File, Capture
  <2> QED
    BY <2>5 DEF Contract!Next
<1>5. ASSUME NEW d \in Dirs, Goroutine(d)
      PROVE  [Contract!Next]_contractVars
  <2>1. phase # "killed"
    BY <1>5 DEF Goroutine
  <2>2. CASE Read(d) \/ ReadError(d) \/ Write(d) \/ WriteError(d)
    <3>1. /\ UNCHANGED <<executed, refused, recorded, outbox, trace, encoder>>
          /\ phase' = phase
      BY <2>2 DEF Read, ReadError, Write, WriteError, traceVars, serverVars
    <3> QED
      BY <1>1, <3>1
  <2>3. CASE Feed(d)
    BY <2>1, <2>3, FeedMeets
  <2>4. CASE Emit(d)
    BY <2>1, <2>4, EmitMeets
  <2> QED
    BY <1>5, <2>2, <2>3, <2>4 DEF Goroutine
<1>6. CASE ClientSend \/ (\E p \in Leavers : PeerCloses(p)) \/ UNCHANGED vars
  <2>1. /\ UNCHANGED <<executed, refused, recorded, outbox, trace, encoder>>
        /\ phase' = phase
    BY <1>6 DEF ClientSend, PeerCloses, vars, proxyVars, traceVars, serverVars
  <2> QED
    BY <1>1, <2>1
<1>7. CASE Server
  BY <1>7, ServerMeets
<1> QED
  BY <1>2, <1>3, <1>4, <1>5, <1>6, <1>7 DEF Next

\* Nothing was run, seen or written before the first message.
LEMMA InitMeets == Init => Contract!Init
<1> SUFFICES ASSUME Init PROVE Contract!Init
  OBVIOUS
<1>1. recorded["front"] \o outbox["front"] = <<>> /\ trace["front"] = <<>>
  BY DEF Init, Dirs
<1>2. BindEvents = <<>> /\ BindsIn(trace["front"]) = <<>>
  BY <1>1, BindsInNone DEF BindEvents
<1>3. Texts(<<>>) = <<>>
  BY DEF Texts
<1>4. Seen = <<>> /\ File = <<>> /\ Capture = "on"
  BY <1>2, <1>3 DEF Seen, File, Capture, Init
<1> QED
  BY <1>4 DEF Contract!Init, Seen, File, Capture, Init

\* The trace can be read as what the server ran: however the goroutines, the
\* server, the disk and the end of the capture interleave (proxy.go, handle;
\* recorder.go, Emit).
THEOREM CaptureMeetsContract == Spec => KeepsItsContract
<1>1. Init => Contract!Init /\ StreamInv /\ ChunkFits
  BY InitMeets, InitStreams, InitFits
<1>2. StreamInv /\ ChunkFits /\ [Next]_vars => StreamInv' /\ ChunkFits'
  BY StepStreams, StepFits DEF StreamInv
<1>3. StreamInv /\ StreamInv' /\ ChunkFits /\ [Next]_vars
        => [Contract!Next]_contractVars
  BY StepMeets
<1> QED
  BY <1>1, <1>2, <1>3, PTL
     DEF Spec, KeepsItsContract, Contract!Spec, Contract!vars, contractVars,
         Seen, File, Capture
=============================================================================
