---------------------------- MODULE CaptureLemmas ----------------------------
(***************************************************************************)
(* What the proofs about a capture share.  What one message does to the    *)
(* types of a Session, however it arrives: on its own (SessionProofs) or   *)
(* behind the proxy (ProxyProofs).  Induction, for facts about recursive   *)
(* functions, from the least number that would break them.  Parts of a     *)
(* stream of messages, for where everyone is in it (TraceProofs).          *)
(***************************************************************************)
EXTENDS Session, FiniteSets, FiniteSetTheorems, SequenceTheorems,
        WellFoundedInduction, TLAPS

\* The record a parameter of a Bind resolves to is a Param.
LEMMA ResolveParamsType ==
    ASSUME TypeOK, NEW m \in FrontMsg, m.type = "Bind"
    PROVE  ResolveParams(m) \in Seq(Param)
<1>1. /\ m.stmt \in Names
      /\ m.formats \in Seq(Formats)
      /\ m.params \in Seq(WireParam)
  BY DEF FrontMsg
<1>2. paramOIDs[m.stmt] \in Seq(OIDs)
  BY <1>1 DEF TypeOK
<1>3. ASSUME NEW i \in 1..Len(m.params)
      PROVE  ResolvedParam(m, i) \in Param
  <2>1. m.params[i] \in WireParam
    BY <1>1
  <2>2. m.params[i].null \in BOOLEAN
    BY <2>1 DEF WireParam
  <2>3. HasType(m, i) => paramOIDs[m.stmt][i] \in OIDs
    BY <1>1, <1>2 DEF HasType, CorrelationOK
  <2>4. ResolvedParam(m, i).oid \in OIDs \cup {NoOID}
    BY <2>3 DEF ResolvedParam
  <2>5. ResolvedParam(m, i).known \in BOOLEAN
    BY <2>2 DEF ResolvedParam
  <2> QED
    BY <2>4, <2>5 DEF ResolvedParam, Param
<1> QED
  BY <1>1, <1>3 DEF ResolveParams

\* An event built from values of the right types is an Event.
LEMMA EvType ==
    ASSUME NEW k \in EventKinds, NEW n \in Names, NEW q \in SQLs \cup {NoSQL},
           NEW r \in BOOLEAN, NEW ps \in Seq(Param)
    PROVE  Ev(k, n, q, r, ps) \in Event
BY DEF Ev, Event

\* A frontend message keeps the session well typed.
LEMMA HandleType ==
    ASSUME TypeOK, NEW m \in FrontMsg, Handle(m)
    PROVE  TypeOK'
<1> USE SessionAssumption
<1>1. <<>> \in Seq(Param)
  OBVIOUS
<1>2. NoEvent \in Event
  BY <1>1, EvType DEF NoEvent, EventKinds
<1>3. CASE HandleParse(m)
  <2>1. m.name \in Names /\ m.sql \in SQLs
    BY <1>3 DEF HandleParse, FrontMsg
  <2>2. event' \in Event
    BY <1>1, <1>3, <2>1, EvType DEF HandleParse, EventKinds
  <2> QED
    BY <1>3, <2>1, <2>2 DEF HandleParse, TypeOK
<1>4. CASE HandleBind(m)
  <2>1. m.stmt \in Names /\ m.type = "Bind"
    BY <1>4 DEF HandleBind, FrontMsg
  <2>2. stmts[m.stmt] \in SQLs \cup {NoSQL}
    BY <2>1 DEF TypeOK
  <2>3. event' \in Event
    BY <1>4, <2>1, <2>2, ResolveParamsType, EvType DEF HandleBind, EventKinds
  <2> QED
    BY <1>4, <2>3 DEF HandleBind, TypeOK
<1>5. CASE HandleDescribe(m)
  <2>1. m.name \in Names
    BY <1>5 DEF HandleDescribe, FrontMsg
  <2>2. pendingDescribe' \in Seq(Names)
    BY <1>5, <2>1 DEF HandleDescribe, TypeOK
  <2> QED
    BY <1>2, <1>5, <2>2 DEF HandleDescribe, TypeOK
<1>6. CASE HandleClose(m)
  <2>1. m.name \in Names
    BY <1>6 DEF HandleClose, FrontMsg
  <2>2. Ev("close", m.name, NoSQL, FALSE, <<>>) \in Event
    BY <1>1, <2>1, EvType DEF EventKinds
  <2>3. event' \in Event
    BY <1>2, <1>6, <2>2 DEF HandleClose
  <2> QED
    BY <1>6, <2>1, <2>3 DEF HandleClose, TypeOK
<1>7. CASE HandleQuery(m)
  <2>1. m.sql \in SQLs
    BY <1>7 DEF HandleQuery, FrontMsg
  <2>2. event' \in Event
    BY <1>1, <1>7, <2>1, EvType DEF HandleQuery, EventKinds
  <2> QED
    BY <1>7, <2>2 DEF HandleQuery, TypeOK
<1>8. CASE HandleIgnored(m)
  BY <1>2, <1>8 DEF HandleIgnored, TypeOK
<1> QED
  BY <1>3, <1>4, <1>5, <1>6, <1>7, <1>8 DEF Handle

\* A backend message keeps the session well typed.
LEMMA HandleBackendType ==
    ASSUME TypeOK, NEW m, HandleBackend(m),
           m.type \in {"ParameterDescription", "RowDescription"}
               => m.oids \in Seq(OIDs)
    PROVE  TypeOK'
<1> USE SessionAssumption
<1>1. <<>> \in Seq(Param)
  OBVIOUS
<1>2. CASE HandleParamDesc(m)
  <2>1. m.oids \in Seq(OIDs)
    BY <1>2 DEF HandleParamDesc
  <2>2. CASE pendingDescribe = <<>>
    <3>1. Ev("param_description", Unnamed, NoSQL, FALSE, <<>>) \in Event
      BY <1>1, EvType DEF EventKinds
    <3>2. event' \in Event
      BY <1>2, <2>2, <3>1 DEF HandleParamDesc
    <3> QED
      BY <1>2, <2>2, <3>2 DEF HandleParamDesc, TypeOK
  <2>3. CASE pendingDescribe # <<>>
    <3>1. /\ Head(pendingDescribe) \in Names
          /\ Tail(pendingDescribe) \in Seq(Names)
      BY <2>3 DEF TypeOK
    <3>2. Ev("param_description", Head(pendingDescribe), NoSQL, TRUE, <<>>)
             \in Event
      BY <1>1, <3>1, EvType DEF EventKinds
    <3>3. event' \in Event
      BY <1>2, <2>3, <3>2 DEF HandleParamDesc
    <3> QED
      BY <1>2, <2>1, <2>3, <3>1, <3>3 DEF HandleParamDesc, TypeOK
  <2> QED
    BY <2>2, <2>3
<1>3. CASE HandleRowDesc(m)
  <2>1. m.oids \in Seq(OIDs)
    BY <1>3 DEF HandleRowDesc
  <2>2. event' \in Event
    BY <1>1, <1>3, EvType DEF HandleRowDesc, EventKinds, TypeOK
  <2> QED
    BY <1>3, <2>1, <2>2 DEF HandleRowDesc, TypeOK
<1>4. CASE HandleIgnored(m)
  <2>1. NoEvent \in Event
    BY <1>1, EvType DEF NoEvent, EventKinds
  <2> QED
    BY <1>4, <2>1 DEF HandleIgnored, TypeOK
<1> QED
  BY <1>2, <1>3, <1>4 DEF HandleBackend

-----------------------------------------------------------------------------
(* Induction: of the naturals with a property, one is the least. *)

\* A nonempty set of naturals has a least element.
LEMMA HasLeast ==
    ASSUME NEW S \in SUBSET Nat, S # {}
    PROVE  \E x \in S : \A y \in S : x <= y
<1>1. PICK x \in S : \A y \in S : ~(<<y, x>> \in OpToRel(<, Nat))
  BY WFMin, NatLessThanWellFounded, Zenon
<1>2. ASSUME NEW y \in S, y < x
      PROVE  <<y, x>> \in OpToRel(<, Nat)
  <2>1. <<y, x>> \in Nat \X Nat /\ <<y, x>>[1] < <<y, x>>[2]
    BY <1>2
  <2> QED
    BY <2>1, Zenon DEF OpToRel
<1>3. \A y \in S : ~(y < x)
  BY <1>1, <1>2, Zenon
<1> QED
  BY <1>3

\* A set that has 0 and with n, if below N, the next, reaches N.
LEMMA Reaches ==
    ASSUME NEW N \in Nat, NEW S, 0 \in S,
           \A n \in 0..N : n \in S /\ n < N => n + 1 \in S
    PROVE  \A n \in 0..N : n \in S
<1> DEFINE Missing == {n \in 0..N : n \notin S}
<1> SUFFICES ASSUME Missing # {} PROVE FALSE
  OBVIOUS
<1>1. PICK x \in Missing : \A y \in Missing : x <= y
  <2>1. Missing \in SUBSET Nat
    OBVIOUS
  <2> HIDE DEF Missing
  <2> QED
    BY <2>1, HasLeast
<1>2. x # 0 /\ x - 1 \in 0..N /\ x - 1 < N
  OBVIOUS
<1>3. x - 1 \in S
  BY <1>1, <1>2
<1>4. (x - 1) + 1 = x
  OBVIOUS
<1> QED
  BY <1>2, <1>3, <1>4

-----------------------------------------------------------------------------
(* Parts of a stream. *)

\* What follows the first i messages of s, up to the jth.
Part(s, i, j) == SubSeq(s, i + 1, j)

\* A part has the messages of the stream, shifted.
LEMMA PartType ==
    ASSUME NEW T, NEW s \in Seq(T), NEW i \in 0..Len(s), NEW j \in i..Len(s)
    PROVE  /\ Part(s, i, j) \in Seq(T)
           /\ Len(Part(s, i, j)) = j - i
           /\ \A k \in 1..j - i : Part(s, i, j)[k] = s[i + k]
           /\ Part(s, i, j) = <<>> <=> i = j
<1>1. /\ Part(s, i, j) \in Seq(T)
      /\ Len(Part(s, i, j)) = j - i
      /\ \A k \in 1..j - i : Part(s, i, j)[k] = s[i + k]
  BY DEF Part
<1>2. Part(s, i, j) = <<>> <=> Len(Part(s, i, j)) = 0
  BY <1>1
<1> QED
  BY <1>1, <1>2

\* The head of a part is the message at its start; the tail starts one later.
LEMMA PartTail ==
    ASSUME NEW T, NEW s \in Seq(T), NEW i \in 0..Len(s), NEW j \in i..Len(s),
           i # j
    PROVE  /\ Head(Part(s, i, j)) = s[i + 1]
           /\ Tail(Part(s, i, j)) = Part(s, i + 1, j)
<1> DEFINE a == Part(s, i, j)
           b == Part(s, i + 1, j)
<1>1. /\ a \in Seq(T) /\ Len(a) = j - i /\ a # <<>>
      /\ \A k \in 1..j - i : a[k] = s[i + k]
  BY PartType
<1>2. i + 1 \in 0..Len(s) /\ j \in i + 1..Len(s)
  OBVIOUS
<1>3. /\ b \in Seq(T) /\ Len(b) = j - (i + 1)
      /\ \A k \in 1..j - (i + 1) : b[k] = s[(i + 1) + k]
  BY <1>2, PartType
<1> HIDE DEF a, b
<1>4. Head(a) = s[i + 1]
  <2>1. 1 \in 1..j - i
    BY <1>2
  <2> QED
    BY <1>1, <2>1
<1>5. Tail(a) = b
  <2>1. Tail(a) \in Seq(T) /\ Len(Tail(a)) = j - (i + 1)
    BY <1>1
  <2>2. ASSUME NEW k \in 1..j - (i + 1)
        PROVE  Tail(a)[k] = b[k]
    <3>1. k + 1 \in 1..j - i /\ i + (k + 1) = (i + 1) + k
      BY <1>2
    <3>2. Tail(a)[k] = a[k + 1]
      BY <1>1, <3>1
    <3> QED
      BY <1>1, <1>3, <3>1, <3>2
  <2> QED
    BY <1>3, <2>1, <2>2, SeqEqual
<1> QED
  BY <1>4, <1>5 DEF a, b

\* Two parts that meet are one part.
LEMMA PartJoin ==
    ASSUME NEW T, NEW s \in Seq(T), NEW i \in 0..Len(s), NEW j \in i..Len(s),
           NEW k \in j..Len(s)
    PROVE  Part(s, i, j) \o Part(s, j, k) = Part(s, i, k)
<1> DEFINE a == Part(s, i, j)
           b == Part(s, j, k)
           c == Part(s, i, k)
<1>1. /\ a \in Seq(T) /\ Len(a) = j - i
      /\ \A x \in 1..j - i : a[x] = s[i + x]
  BY PartType
<1>2. /\ j \in 0..Len(s) /\ k \in i..Len(s) /\ k \in j..Len(s)
      /\ i \in Nat /\ j \in Nat /\ k \in Nat /\ i <= j /\ j <= k
  OBVIOUS
<1>3. /\ b \in Seq(T) /\ Len(b) = k - j
      /\ \A x \in 1..k - j : b[x] = s[j + x]
  BY <1>2, PartType
<1>4. /\ c \in Seq(T) /\ Len(c) = k - i
      /\ \A x \in 1..k - i : c[x] = s[i + x]
  BY <1>2, PartType
<1> HIDE DEF a, b, c
<1>5. /\ a \o b \in Seq(T) /\ Len(a \o b) = k - i
      /\ \A x \in 1..j - i : (a \o b)[x] = a[x]
      /\ \A x \in 1..k - i : x > j - i => (a \o b)[x] = b[x - (j - i)]
  <2>1. Len(a) \in Nat /\ Len(b) \in Nat /\ Len(a) + Len(b) = k - i
    BY <1>1, <1>2, <1>3
  <2>2. /\ a \o b \in Seq(T) /\ Len(a \o b) = Len(a) + Len(b)
        /\ \A x \in 1..Len(a) + Len(b) :
             (a \o b)[x] = IF x <= Len(a) THEN a[x] ELSE b[x - Len(a)]
    <3>1. a \in Seq(T) /\ b \in Seq(T)
      BY <1>1, <1>3
    <3> QED
      BY <3>1
  <2>3. Len(a) = j - i /\ Len(a) + Len(b) = k - i
    BY <1>1, <2>1
  <2>4. \A x \in 1..k - i :
          (a \o b)[x] = IF x <= j - i THEN a[x] ELSE b[x - (j - i)]
    BY <2>2, <2>3
  <2>5. /\ \A x \in 1..j - i : x \in 1..k - i /\ x <= j - i
        /\ \A x \in 1..k - i : x > j - i => ~(x <= j - i)
    BY <1>2
  <2> QED
    BY <2>2, <2>3, <2>4, <2>5
<1>6. ASSUME NEW x \in 1..k - i
      PROVE  (a \o b)[x] = c[x]
  <2>1. CASE x <= j - i
    <3>1. x \in 1..j - i
      BY <1>2, <2>1
    <3> QED
      BY <1>1, <1>4, <1>5, <3>1
  <2>2. CASE ~(x <= j - i)
    <3>1. /\ x - (j - i) \in 1..k - j
          /\ j + (x - (j - i)) = i + x
      BY <1>2, <2>2
    <3>2. (a \o b)[x] = b[x - (j - i)]
      BY <1>2, <1>5, <2>2
    <3> QED
      BY <1>3, <1>4, <3>1, <3>2
  <2> QED
    BY <2>1, <2>2
<1>7. a \o b = c
  BY <1>4, <1>5, <1>6, SeqEqual
<1> QED
  BY <1>7 DEF a, b, c

\* A part cut in two is two parts.
LEMMA PartCut ==
    ASSUME NEW T, NEW s \in Seq(T), NEW i \in 0..Len(s), NEW j \in i..Len(s),
           NEW k \in 0..j - i
    PROVE  /\ SubSeq(Part(s, i, j), 1, k) = Part(s, i, i + k)
           /\ SubSeq(Part(s, i, j), k + 1, Len(Part(s, i, j))) = Part(s, i + k, j)
<1> DEFINE a == Part(s, i, j)
           b == Part(s, i, i + k)
           c == Part(s, i + k, j)
<1>1. /\ a \in Seq(T) /\ Len(a) = j - i
      /\ \A x \in 1..j - i : a[x] = s[i + x]
  BY PartType
<1>2. /\ i + k \in i..Len(s) /\ i + k \in 0..Len(s) /\ j \in i + k..Len(s)
      /\ i \in Nat /\ j \in Nat /\ k \in Nat /\ (i + k) - i = k
  OBVIOUS
<1>3. /\ b \in Seq(T) /\ Len(b) = k
      /\ \A x \in 1..k : b[x] = s[i + x]
  <2>1. /\ b \in Seq(T) /\ Len(b) = (i + k) - i
        /\ \A x \in 1..(i + k) - i : b[x] = s[i + x]
    <3>1. PICK m \in i..Len(s) : m = i + k
      BY <1>2
    <3>2. /\ Part(s, i, m) \in Seq(T) /\ Len(Part(s, i, m)) = m - i
          /\ \A x \in 1..m - i : Part(s, i, m)[x] = s[i + x]
      BY PartType
    <3> QED
      BY <3>1, <3>2
  <2> QED
    BY <1>2, <2>1
<1>4. /\ c \in Seq(T) /\ Len(c) = j - (i + k)
      /\ \A x \in 1..j - (i + k) : c[x] = s[(i + k) + x]
  BY <1>2, PartType
<1> HIDE DEF a, b, c
<1>5. SubSeq(a, 1, k) = b
  <2>1. /\ SubSeq(a, 1, k) \in Seq(T) /\ Len(SubSeq(a, 1, k)) = k
        /\ \A x \in 1..k : SubSeq(a, 1, k)[x] = a[x]
    BY <1>1, <1>2
  <2>2. \A x \in 1..k : x \in 1..j - i
    BY <1>2
  <2> HIDE DEF b
  <2>3. \A x \in 1..k : SubSeq(a, 1, k)[x] = b[x]
    BY <1>1, <1>3, <2>1, <2>2
  <2> QED
    BY <1>3, <2>1, <2>3, SeqEqual
<1>6. SubSeq(a, k + 1, Len(a)) = c
  <2> DEFINE d == SubSeq(a, k + 1, Len(a))
  <2>1. /\ d \in Seq(T) /\ Len(d) = j - (i + k)
        /\ \A x \in 1..j - (i + k) : d[x] = a[k + x]
    BY <1>1, <1>2
  <2>2. \A x \in 1..j - (i + k) : k + x \in 1..j - i /\ i + (k + x) = (i + k) + x
    BY <1>2
  <2> HIDE DEF d
  <2>3. \A x \in 1..j - (i + k) : d[x] = c[x]
    BY <1>1, <1>4, <2>1, <2>2
  <2>4. d = c
    BY <1>4, <2>1, <2>3, SeqEqual
  <2> QED
    BY <2>4 DEF d
<1> QED
  BY <1>5, <1>6 DEF a, b, c

\* A stream that goes on keeps its parts, and its last part goes on with it.
LEMMA PartConcat ==
    ASSUME NEW T, NEW s \in Seq(T), NEW t \in Seq(T),
           NEW i \in 0..Len(s), NEW j \in i..Len(s)
    PROVE  /\ Part(s \o t, i, j) = Part(s, i, j)
           /\ Part(s, i, Len(s)) \o t = Part(s \o t, i, Len(s \o t))
<1> DEFINE u == s \o t
           n == Len(s)
<1>1. /\ u \in Seq(T) /\ Len(u) = n + Len(t) /\ n \in Nat /\ Len(t) \in Nat
      /\ \A x \in 1..n : u[x] = s[x]
      /\ \A x \in 1..Len(t) : u[n + x] = t[x]
  OBVIOUS
<1>2. /\ i \in 0..n /\ j \in i..n /\ n \in i..n /\ n \in 0..n /\ i \in Nat
  BY <1>1
<1> HIDE DEF u
<1>3. /\ i \in 0..Len(u) /\ j \in i..Len(u) /\ n \in 0..Len(u)
      /\ n \in i..Len(u) /\ Len(u) \in n..Len(u)
  BY <1>1, <1>2
<1>4. \A x \in i..n : Part(u, i, x) = Part(s, i, x)
  <2> SUFFICES ASSUME NEW x \in i..n PROVE Part(u, i, x) = Part(s, i, x)
    OBVIOUS
  <2>1. x \in i..Len(u)
    BY <1>1
  <2>2. /\ Part(s, i, x) \in Seq(T) /\ Len(Part(s, i, x)) = x - i
        /\ \A k \in 1..x - i : Part(s, i, x)[k] = s[i + k]
    BY PartType
  <2>3. /\ Part(u, i, x) \in Seq(T) /\ Len(Part(u, i, x)) = x - i
        /\ \A k \in 1..x - i : Part(u, i, x)[k] = u[i + k]
    <3>1. u \in Seq(T)
      BY <1>1
    <3>2. PICK v \in Seq(T) : v = u
      BY <3>1
    <3>3. i \in 0..Len(v) /\ x \in i..Len(v)
      BY <1>3, <2>1, <3>2
    <3>4. /\ Part(v, i, x) \in Seq(T) /\ Len(Part(v, i, x)) = x - i
          /\ \A k \in 1..x - i : Part(v, i, x)[k] = v[i + k]
      BY <3>3, PartType
    <3> QED
      BY <3>2, <3>4
  <2>4. \A k \in 1..x - i : i + k \in 1..n
    BY <1>1, <1>2
  <2>5. \A k \in 1..x - i : Part(u, i, x)[k] = Part(s, i, x)[k]
    BY <1>1, <2>2, <2>3, <2>4
  <2> QED
    BY <2>2, <2>3, <2>5, SeqEqual
<1>5. Part(u, n, Len(u)) = t
  <2>1. /\ Part(u, n, Len(u)) \in Seq(T) /\ Len(Part(u, n, Len(u))) = Len(u) - n
        /\ \A k \in 1..Len(u) - n : Part(u, n, Len(u))[k] = u[n + k]
    <3>1. u \in Seq(T)
      BY <1>1
    <3>2. PICK v \in Seq(T) : v = u
      BY <3>1
    <3>3. PICK m \in 0..Len(v) : m = n
      BY <1>3, <3>2
    <3>4. PICK k \in m..Len(v) : k = Len(v)
      BY <1>3, <3>2, <3>3
    <3>5. /\ Part(v, m, k) \in Seq(T) /\ Len(Part(v, m, k)) = k - m
          /\ \A x \in 1..k - m : Part(v, m, k)[x] = v[m + x]
      BY PartType
    <3> HIDE DEF n
    <3> QED
      BY <3>2, <3>3, <3>4, <3>5
  <2>2. Len(u) - n = Len(t)
    BY <1>1
  <2> QED
    BY <1>1, <2>1, <2>2, SeqEqual
<1>6. Part(u, i, n) \o Part(u, n, Len(u)) = Part(u, i, Len(u))
  BY <1>1, <1>3, PartJoin
<1> QED
  BY <1>2, <1>4, <1>5, <1>6 DEF u
=============================================================================
