----------------------------- MODULE DifferProofs -----------------------------
(***************************************************************************)
(* Theorems about the differ: what a replay may do to the rows, which      *)
(* session it runs in, and what its verdicts mean, for any table content,  *)
(* any queries and any number of them.                                     *)
(***************************************************************************)
EXTENDS Differ, FiniteSetTheorems, WellFoundedInduction, TLAPS

-----------------------------------------------------------------------------
(* The rows of an INSERT. *)

\* A set of natural numbers that is not empty has a least member.
LEMMA LeastNatural ==
    ASSUME NEW S \in SUBSET Nat, S # {}
    PROVE  Min(S) \in S
<1>1. PICK x \in S : \A y \in S : ~(<<y, x>> \in OpToRel(<, Nat))
  BY WFMin, NatLessThanWellFounded, Zenon
<1>2. ASSUME NEW y \in S, y < x
      PROVE  <<y, x>> \in OpToRel(<, Nat)
  <2>1. <<y, x>> \in Nat \X Nat /\ <<y, x>>[1] < <<y, x>>[2]
    BY <1>2
  <2> QED
    BY <2>1, Zenon DEF OpToRel
<1>3. \A y \in S : ~(y < x)
  BY <1>1, <1>2, Zenon
<1>4. \A y \in S : x <= y
  BY <1>3
<1> QED
  BY <1>4 DEF Min

\* The fields of a query, by what it does.
LEMMA QueryFields ==
    ASSUME query \in Query
    PROVE  /\ query.claim \in Values
           /\ query.op \in {"select", "delete", "update", "insert"}
           /\ query.op \in {"select", "delete", "update"} => query.match \subseteq Keys
           /\ query.op = "select" =>
                 query.answer \in [SUBSET Keys -> (SUBSET Answers) \ {{}}]
           /\ query.op = "update" => query.to \in Values \cup {Keep}
           /\ query.op = "insert" => query.rows \in Seq([key : Keys, tenant : Values])
BY DEF Query

\* The members of a sequence.
LEMMA SeqMembers ==
    ASSUME NEW S, NEW q \in Seq(S)
    PROVE  /\ DOMAIN q \subseteq Nat
           /\ \A i \in DOMAIN q : q[i] \in S
OBVIOUS

\* The rows of an INSERT have a key and a tenant.
LEMMA RowFields ==
    ASSUME query \in Query, query.op = "insert"
    PROVE  /\ DOMAIN query.rows \subseteq Nat
           /\ \A i \in DOMAIN query.rows :
                 query.rows[i].key \in Keys /\ query.rows[i].tenant \in Values
<1>1. query.rows \in Seq([key : Keys, tenant : Values])
  BY QueryFields
<1>2. \A i \in DOMAIN query.rows : query.rows[i] \in [key : Keys, tenant : Values]
  BY <1>1, SeqMembers, Zenon
<1>3. DOMAIN query.rows \subseteq Nat
  BY <1>1, SeqMembers, Zenon
<1> QED
  BY <1>2, <1>3

\* The row an INSERT fails at is one of its own.
LEMMA BadRow ==
    ASSUME query \in Query, query.op = "insert", NEW w, NEW s, BadRows(w, s) # {}
    PROVE  /\ Min(BadRows(w, s)) \in BadRows(w, s)
           /\ Min(BadRows(w, s)) \in DOMAIN query.rows
<1>1. BadRows(w, s) \subseteq DOMAIN query.rows
  BY DEF BadRows
<1>2. BadRows(w, s) \in SUBSET Nat
  BY <1>1, RowFields
<1> QED
  BY <1>1, <1>2, LeastNatural

\* What a statement does to the rows is well typed.
LEMMA OutcomeType ==
    ASSUME query \in Query, NEW w, NEW s
    PROVE  /\ Outcome(w, s).err \in {"none", "unique", "rls"}
           /\ Outcome(w, s).key \in Keys \cup {NoKey}
           /\ Outcome(w, s).keys \subseteq Keys
           /\ Outcome(w, s).err = "unique" => Outcome(w, s).key \in Keys
<1>1. CASE query.op \in {"select", "delete"}
  BY <1>1 DEF Outcome, Result, Visible
<1>2. CASE query.op = "update"
  BY <1>2 DEF Outcome, Result, Visible
<1>3. CASE query.op = "insert"
  <2>1. \A i \in DOMAIN query.rows : query.rows[i].key \in Keys
    BY <1>3, RowFields
  <2>2. CASE BadRows(w, s) = {}
    <3>1. Outcome(w, s) =
            Result("none", NoKey, {query.rows[i].key : i \in DOMAIN query.rows})
      BY <1>3, <2>2 DEF Outcome
    <3>2. {query.rows[i].key : i \in DOMAIN query.rows} \subseteq Keys
      BY <2>1
    <3> QED
      BY <3>1, <3>2 DEF Result
  <2>3. CASE BadRows(w, s) # {}
    <3> DEFINE row == query.rows[Min(BadRows(w, s))]
    <3>1. row.key \in Keys
      BY <1>3, <2>1, <2>3, BadRow
    <3>2. Outcome(w, s) = IF Admits(s, row.tenant)
                          THEN Result("unique", row.key, {})
                          ELSE Result("rls", NoKey, {})
      BY <1>3, <2>3 DEF Outcome
    <3> QED
      BY <3>1, <3>2 DEF Result
  <2> QED
    BY <2>2, <2>3
<1> QED
  BY <1>1, <1>2, <1>3, QueryFields

\* What a statement leaves is a content of the table.
LEMMA AppliedType ==
    ASSUME query \in Query, NEW w \in Content, NEW s
    PROVE  Applied(w, Outcome(w, s).keys) \in Content
<1> DEFINE ks == Outcome(w, s).keys
<1>1. CASE query.op = "select"
  BY <1>1 DEF Applied
<1>2. CASE query.op = "delete"
  BY <1>2 DEF Applied, Remove, Content
<1>3. CASE query.op = "update"
  <2>1. query.to \in Values \cup {Keep}
    BY <1>3, QueryFields
  <2> HIDE DEF ks
  <2> QED
    BY <1>3, <2>1 DEF Applied, Content
<1>4. CASE query.op = "insert"
  <2>1. ks \subseteq {query.rows[i].key : i \in DOMAIN query.rows}
    BY <1>4 DEF Outcome, Result
  <2> HIDE DEF ks
  <2>2. ASSUME NEW k \in ks
        PROVE  RowAt(k).tenant \in Values
    <3>1. \E i \in DOMAIN query.rows : query.rows[i].key = k
      BY <2>1
    <3>2. (CHOOSE i \in DOMAIN query.rows : query.rows[i].key = k) \in DOMAIN query.rows
      BY <3>1
    <3> QED
      BY <1>4, <3>2, RowFields DEF RowAt
  <2>3. Applied(w, ks) = [k \in Keys |-> IF k \in ks THEN RowAt(k).tenant ELSE w[k]]
    BY <1>4 DEF Applied
  <2> QED
    BY <2>2, <2>3 DEF Content, ks
<1> QED
  BY <1>1, <1>2, <1>3, <1>4, QueryFields

-----------------------------------------------------------------------------
(* The inductive invariant. *)

\* Rows some of which a transaction has removed from the committed ones.
Remains(w) ==
    /\ w \in Content
    /\ \A k \in Keys : w[k] \in {NoRow, content[k]}

\* The restricted transaction and its statements run in a session bound to the
\* tenant the query claims, whatever ran on the connection before.
Bound == pc \in {"r_begin", "r_delete", "r_exec"} => setting[conn] = query.claim

\* Where a replay is, by its step.
Control ==
    /\ pc # "idle" =>
         /\ query \in Query
         /\ IsReplayable(query)
         /\ verdict = "none"
         /\ replayed < MaxQueries
    /\ pc \notin {"idle", "give_up"} => ~faulted /\ attempt < MaxConflictRetries
    /\ pc = "u_query" => ~IsWrite
    /\ pc \in {"u_savepoint", "u_exec", "u_rollback_to", "u_delete", "r_delete"} => IsWrite
    /\ pc \in {"r_set_tenant", "r_begin", "r_delete", "r_exec"} => conn \in Conns
    /\ Bound

\* What the open transaction sees, and what the unrestricted leg has seen.
\* Every statement finds a transaction, and no replay leaves one.
Sees ==
    /\ pc = "idle" => work = NoTx
    /\ pc \in {"u_query", "u_savepoint", "u_exec", "u_delete", "r_delete", "r_exec"}
         => Remains(work)
    /\ pc \in {"u_exec", "u_rollback_to", "u_delete"} => Remains(saved)
    /\ (pc \in {"u_query", "r_exec"} /\ ~IsWrite) => work = content
    /\ pc \in RestrictedSteps \cup {"u_return"} =>
         /\ query.op = "select" => /\ touched = query.match \cap Visible(content, Super)
                                  /\ got \in query.answer[touched]
         /\ query.op = "insert" => touched = {query.rows[i].key : i \in DOMAIN query.rows}

\* The restricted leg's result is that of the query on rows w, run as the
\* tenant it claims.
RanOn(w) ==
    /\ failure = Outcome(w, query.claim).err
    /\ admitted = Outcome(w, query.claim).keys

\* The result a replay returns with.
Decided ==
    pc = "r_return" =>
        /\ \E w : Remains(w) /\ (~IsWrite => w = content) /\ RanOn(w)
        /\ query.op = "select" => seen \in query.answer[admitted]

\* What the verdict of a finished replay means.
Meaning == JudgedOnEvidence /\ LeakIsForeign /\ SafeIsOwn /\ SafeAnswerIsOwn

DifferInv == TypeOK /\ Control /\ Sees /\ Decided /\ Meaning

-----------------------------------------------------------------------------
\* Steps that give no verdict, or UNATTRIBUTABLE, claim nothing.
LEMMA NoClaim ==
    ASSUME verdict' \in {"none", "UNATTRIBUTABLE"}
    PROVE  Meaning'
BY DEF Meaning, JudgedOnEvidence, LeakIsForeign, SafeIsOwn, SafeAnswerIsOwn

\* Removing rows from what remains of the committed ones leaves some of them.
LEMMA RemoveRemains ==
    ASSUME NEW w, Remains(w), NEW ks
    PROVE  Remains(Remove(w, ks))
BY DEF Remains, Remove, Content

\* Nothing is removed at the start of a transaction.
LEMMA ContentRemains ==
    ASSUME TypeOK
    PROVE  Remains(content)
BY DEF Remains, TypeOK

\* What a statement in a transaction leaves is the transaction's.
LEMMA InTransaction ==
    ASSUME Remains(work)
    PROVE  /\ Rows = work
           /\ work \in Content /\ work # NoTx
           /\ \A w : Store(w) <=> (work' = w /\ content' = content)
BY DifferAssumption DEF Remains, Rows, Store

\* At the start no replay is under way.
LEMMA InitInv == Init => DifferInv
<1> SUFFICES ASSUME Init PROVE DifferInv
  OBVIOUS
<1>1. TypeOK
  <2>1. content \in Content
    BY DifferAssumption DEF Init
  <2>2. attempt \in 0..MaxConflictRetries /\ replayed \in 0..MaxQueries
    BY DifferAssumption DEF Init
  <2>3. setting \in [Conns -> Values \cup {Unset}]
    BY DEF Init
  <2> QED
    BY <2>1, <2>2, <2>3 DEF Init, TypeOK
<1>2. Control /\ Sees /\ Decided
  BY DEF Init, Control, Sees, Decided, Bound, RestrictedSteps
<1>3. Meaning
  BY DEF Init, Meaning, JudgedOnEvidence, LeakIsForeign, SafeIsOwn, SafeAnswerIsOwn
<1> QED
  BY <1>1, <1>2, <1>3 DEF DifferInv

\* The verdict a replay returns with means what it says.
LEMMA RestrictedMeaning ==
    ASSUME TypeOK, Control, Sees, Decided, ReturnRestricted
    PROVE  Meaning'
<1>0. PICK rows : Remains(rows) /\ (~IsWrite => rows = content) /\ RanOn(rows)
  BY DEF ReturnRestricted, Decided
<1> DEFINE claim == query.claim
           r == Outcome(rows, claim)
<1>1. /\ query \in Query
      /\ IsReplayable(query)
      /\ ~faulted
      /\ query.op = "select" => /\ touched = query.match \cap Visible(content, Super)
                               /\ got \in query.answer[touched]
                               /\ seen \in query.answer[r.keys]
      /\ query.op = "insert" => touched = {query.rows[i].key : i \in DOMAIN query.rows}
  BY <1>0 DEF ReturnRestricted, Control, Sees, Decided, RanOn, RestrictedSteps
<1>2. /\ admitted = r.keys
      /\ failure = r.err
      /\ IF IsWrite THEN CompareWrites ELSE CompareReads
      /\ UNCHANGED <<content, query, touched, got, failure, faulted>>
  BY <1>0 DEF ReturnRestricted, Rollback, RanOn
<1>3. claim \in Values /\ claim # Super
  BY <1>1, QueryFields, DifferAssumption
<1>4. \A t : Admits(claim, t) <=> t = claim
  BY <1>3 DEF Admits
<1>5. TenantsTouched' = TenantsTouched
  BY <1>2 DEF TenantsTouched, Written
<1>6. content \in Content
  BY DEF TypeOK
<1>7. CASE query.op = "select"
  <2>1. rows = content /\ ~IsWrite
    BY <1>0, <1>7 DEF IsWrite
  <2>2. r.keys = query.match \cap Visible(content, claim)
    BY <1>7, <2>1 DEF Outcome, Result
  <2>3. touched = {k \in query.match \cap Keys : content[k] # NoRow}
    BY <1>1, <1>7 DEF Visible, Admits
  <2>4. r.keys = {k \in query.match \cap Keys : content[k] # NoRow /\ content[k] = claim}
    BY <2>2, <1>4 DEF Visible
  <2>5. CompareReads /\ seen \in query.answer[r.keys]
    BY <1>1, <1>2, <1>7, <2>1
  <2>6. /\ seen = got => verdict' = "SAFE" /\ vacuous' = (seen = NoRows)
        /\ seen # got => verdict' = "LEAK"
    BY <2>5 DEF CompareReads, Finish
  <2>7. /\ TenantsTouched = {content[k] : k \in query.match} \ {NoRow}
        /\ query.match \subseteq Keys
        /\ touched \in SUBSET Keys
        /\ r.keys \in SUBSET Keys
        /\ got \in query.answer[touched]
    BY <1>1, <1>7, <2>3, <2>4, QueryFields DEF TenantsTouched
  <2> HIDE DEF r
  <2>8. LeakIsForeign'
    <3> SUFFICES ASSUME verdict' = "LEAK", IsStable
                 PROVE  TenantsTouched \ {claim} # {}
      BY <1>2, <1>5, <1>7 DEF LeakIsForeign, IsStable
    <3>1. touched # r.keys
      BY <2>5, <2>6, <2>7 DEF IsStable
    <3>2. PICK k \in query.match : content[k] # NoRow /\ content[k] # claim
      BY <2>3, <2>4, <2>7, <3>1
    <3> QED
      BY <2>7, <3>2
  <2>9. SafeIsOwn'
    <3> SUFFICES ASSUME verdict' = "SAFE", ShowsItsRows
                 PROVE  /\ TenantsTouched \subseteq {claim}
                        /\ vacuous' <=> TenantsTouched = {}
      BY <1>2, <1>5, <1>7 DEF SafeIsOwn, ShowsItsRows
    <3>1. seen = got /\ vacuous' = (seen = NoRows)
      BY <2>6
    <3>2. touched = r.keys
      BY <2>5, <2>7, <3>1 DEF ShowsItsRows
    <3>3. \A k \in query.match : content[k] # NoRow => content[k] = claim
      BY <2>3, <2>4, <2>7, <3>2
    <3>4. touched = {} <=> TenantsTouched = {}
      BY <2>3, <2>7
    <3>5. seen = NoRows <=> touched = {}
      <4>1. {} \in SUBSET Keys /\ query.answer[{}] = {NoRows}
        BY DEF ShowsItsRows
      <4>2. ASSUME seen = NoRows, touched # {}
            PROVE  FALSE
        <5>1. query.answer[touched] \cap query.answer[{}] = {}
          BY <2>7, <4>1, <4>2 DEF ShowsItsRows
        <5> QED
          BY <2>7, <3>1, <4>1, <4>2, <5>1
      <4>3. ASSUME touched = {}
            PROVE  seen = NoRows
        BY <2>7, <3>1, <4>1, <4>3
      <4> QED
        BY <4>2, <4>3
    <3> QED
      BY <2>7, <3>1, <3>3, <3>4, <3>5
  <2>10. SafeAnswerIsOwn'
    <3> SUFFICES ASSUME verdict' = "SAFE"
                 PROVE  got \in query.answer[OwnRows]
      BY <1>2 DEF SafeAnswerIsOwn, OwnRows
    <3>1. claim # NoRow
      BY <1>3, DifferAssumption
    <3>2. OwnRows = r.keys
      BY <2>4, <2>7, <3>1 DEF OwnRows
    <3> QED
      BY <2>5, <2>6, <3>2
  <2>11. JudgedOnEvidence'
    BY <1>1, <1>2, <1>7, <2>1 DEF JudgedOnEvidence, IsReplayable, IsWrite
  <2> QED
    BY <2>8, <2>9, <2>10, <2>11 DEF Meaning
<1>8. CASE query.op \in {"delete", "update"}
  <2>1. IsWrite /\ CompareWrites
    BY <1>2, <1>8 DEF IsWrite
  <2>2. verdict' = "LEAK" => r.err = "rls"
    BY <1>2, <2>1 DEF CompareWrites, Finish
  <2>3. LeakIsForeign'
    <3> SUFFICES ASSUME verdict' = "LEAK"
                 PROVE  TenantsTouched \ {claim} # {}
      BY <1>2, <1>5, <1>8 DEF LeakIsForeign
    <3>1. query.op = "update"
      BY <1>8, <2>2 DEF Outcome, Result
    <3>2. /\ query.match \cap Visible(rows, claim) # {}
          /\ query.to # Keep
          /\ ~Admits(claim, query.to)
      BY <2>2, <3>1 DEF Outcome, Result
    <3>3. PICK k \in query.match : k \in Keys /\ rows[k] # NoRow
      BY <3>2 DEF Visible
    <3>4. content[k] # NoRow
      BY <1>0, <3>3 DEF Remains
    <3>5. {content[j] : j \in query.match} \ {NoRow} # {}
      BY <3>4
    <3>6. query.to \in TenantsTouched
      BY <3>1, <3>2, <3>5 DEF TenantsTouched
    <3> QED
      BY <1>4, <3>2, <3>6
  <2>4. SafeIsOwn' /\ SafeAnswerIsOwn'
    BY <1>2, <1>8 DEF SafeIsOwn, SafeAnswerIsOwn
  <2>5. JudgedOnEvidence'
    BY <1>1, <1>2, <1>8, <2>2 DEF JudgedOnEvidence, IsReplayable, IsWrite
  <2> QED
    BY <2>3, <2>4, <2>5 DEF Meaning
<1>9. CASE query.op = "insert"
  <2>1. IsWrite /\ CompareWrites
    BY <1>2, <1>9 DEF IsWrite
  <2>2. verdict' = "LEAK" => r.err = "rls"
    BY <1>2, <2>1 DEF CompareWrites, Finish
  <2>3. verdict' = "SAFE" => /\ r.err = "none"
                             /\ vacuous' = (touched = {} /\ r.keys = {})
    BY <1>2, <2>1 DEF CompareWrites, Finish
  <2>4. TenantsTouched = Written
    BY <1>9 DEF TenantsTouched
  <2>5. LeakIsForeign'
    <3> SUFFICES ASSUME verdict' = "LEAK"
                 PROVE  TenantsTouched \ {claim} # {}
      BY <1>2, <1>5, <1>9 DEF LeakIsForeign
    <3> DEFINE bad == Min(BadRows(rows, claim))
    <3>1. BadRows(rows, claim) # {} /\ ~Admits(claim, query.rows[bad].tenant)
      BY <1>9, <2>2 DEF Outcome, Result
    <3>2. bad \in DOMAIN query.rows
      BY <1>1, <1>9, <3>1, BadRow
    <3>3. query.rows[bad].tenant # claim
      BY <1>4, <3>1
    <3> HIDE DEF bad
    <3> QED
      BY <2>4, <3>2, <3>3 DEF Written
  <2>6. SafeIsOwn'
    <3> SUFFICES ASSUME verdict' = "SAFE"
                 PROVE  /\ TenantsTouched \subseteq {claim}
                        /\ vacuous' <=> TenantsTouched = {}
      BY <1>2, <1>5, <1>9 DEF SafeIsOwn
    <3>1. BadRows(rows, claim) = {}
      BY <1>9, <2>3 DEF Outcome, Result
    <3>2. r.keys = {query.rows[i].key : i \in DOMAIN query.rows}
      BY <1>9, <3>1 DEF Outcome, Result
    <3>3. \A i \in DOMAIN query.rows : query.rows[i].tenant = claim
      BY <1>4, <3>1 DEF BadRows
    <3>4. r.keys = {} <=> Written = {}
      BY <3>2 DEF Written
    <3>5. touched = r.keys
      BY <1>1, <1>9, <3>2
    <3> QED
      BY <2>3, <2>4, <3>3, <3>4, <3>5 DEF Written
  <2>7. SafeAnswerIsOwn'
    BY <1>2, <1>9 DEF SafeAnswerIsOwn
  <2>8. JudgedOnEvidence'
    BY <1>1, <1>2, <1>9, <2>2 DEF JudgedOnEvidence, IsReplayable, IsWrite
  <2> QED
    BY <2>5, <2>6, <2>7, <2>8 DEF Meaning
<1> QED
  BY <1>1, <1>7, <1>8, <1>9, QueryFields

\* One step of a replay keeps the invariant, whichever step it is.
LEMMA StepInv == DifferInv /\ [Next]_vars => DifferInv'
<1> SUFFICES ASSUME DifferInv, [Next]_vars
             PROVE  DifferInv'
  OBVIOUS
<1>0. TypeOK /\ Control /\ Sees /\ Decided /\ Meaning
  BY DEF DifferInv
<1>1. ASSUME NEW q \in Queries, Start(q)
      PROVE  DifferInv'
  <2>1. q \in Query
    BY <1>1, DifferAssumption
  <2>2. TypeOK'
    <3>1. replayed' \in 0..MaxQueries /\ attempt' \in 0..MaxConflictRetries
      BY <1>0, <1>1, DifferAssumption DEF Start, Finish, TypeOK
    <3> QED
      BY <1>0, <1>1, <2>1, <3>1
         DEF Start, Finish, TypeOK, UnrestrictedSteps, RestrictedSteps
  <2>3. Control'
    BY <1>1, <2>1, DifferAssumption
       DEF Start, Finish, Control, Bound, IsReplayable, IsWrite
  <2>4. Sees' /\ Decided'
    BY <1>0, <1>1 DEF Start, Finish, Sees, Decided, RestrictedSteps
  <2>5. Meaning'
    BY <1>1, NoClaim DEF Start, Finish
  <2> QED
    BY <2>2, <2>3, <2>4, <2>5 DEF DifferInv
<1>2. CASE DatabaseError
  <2>1. TypeOK'
    BY <1>0, <1>2, DifferAssumption
       DEF DatabaseError, GoTo, TypeOK, Control, UnrestrictedSteps, RestrictedSteps
  <2>2. Control'
    BY <1>0, <1>2
       DEF DatabaseError, GoTo, Control, Bound, IsReplayable, IsWrite
  <2>3. Sees'
    BY <1>0, <1>2
       DEF DatabaseError, GoTo, Sees, Remains, Control, RestrictedSteps, IsWrite
  <2>4. Decided'
    BY <1>2 DEF DatabaseError, GoTo, Decided
  <2>5. Meaning'
    BY <1>0, <1>2, NoClaim DEF DatabaseError, GoTo, Control
  <2> QED
    BY <2>1, <2>2, <2>3, <2>4, <2>5 DEF DifferInv
<1>3. CASE Begin
  <2>1. TypeOK'
    BY <1>0, <1>3, DifferAssumption
       DEF Begin, GoTo, TypeOK, Control, UnrestrictedSteps, RestrictedSteps
  <2>2. Control'
    BY <1>0, <1>3
       DEF Begin, GoTo, Control, Bound, IsReplayable, IsWrite
  <2>3. Sees'
    <3>1. Remains(content)
      BY <1>0, ContentRemains
    <3> QED
      BY <1>3, <3>1 DEF Begin, GoTo, Sees, Remains, RestrictedSteps
  <2>4. Decided'
    BY <1>3 DEF Begin, GoTo, Decided
  <2>5. Meaning'
    BY <1>0, <1>3, NoClaim DEF Begin, GoTo, Control
  <2> QED
    BY <2>1, <2>2, <2>3, <2>4, <2>5 DEF DifferInv
<1>4. CASE QueryUnrestricted
  <2>0. Remains(work) /\ Rows = work
    BY <1>0, <1>4, InTransaction DEF QueryUnrestricted, Sees
  <2>1. TypeOK'
    <3>1. query \in Query /\ query.op = "select"
      BY <1>0, <1>4, QueryFields DEF QueryUnrestricted, Control, IsWrite
    <3>2. touched' \in SUBSET Keys
      BY <1>4, <3>1, OutcomeType DEF QueryUnrestricted
    <3>3. got' \in Answers
      BY <1>4, <3>1, <3>2, QueryFields DEF QueryUnrestricted
    <3> QED
      BY <1>0, <1>4, <3>2, <3>3
         DEF QueryUnrestricted, GoTo, TypeOK, UnrestrictedSteps, RestrictedSteps
  <2>2. Control'
    BY <1>0, <1>4
       DEF QueryUnrestricted, GoTo, Control, Bound, IsReplayable, IsWrite
  <2>3. Sees'
    <3>1. /\ work = content
          /\ query.op = "select"
      BY <1>0, <1>4, QueryFields DEF QueryUnrestricted, Control, Sees, IsWrite
    <3>2. touched' = query.match \cap Visible(content, Super)
      BY <1>4, <2>0, <3>1 DEF QueryUnrestricted, Outcome, Result
    <3> QED
      BY <1>4, <3>1, <3>2 DEF QueryUnrestricted, GoTo, Sees, RestrictedSteps, Visible
  <2>4. Decided'
    BY <1>4 DEF QueryUnrestricted, GoTo, Decided
  <2>5. Meaning'
    BY <1>0, <1>4, NoClaim DEF QueryUnrestricted, GoTo, Control
  <2> QED
    BY <2>1, <2>2, <2>3, <2>4, <2>5 DEF DifferInv
<1>5. CASE Savepoint
  <2>1. TypeOK'
    BY <1>0, <1>5, DifferAssumption
       DEF Savepoint, GoTo, TypeOK, Control, UnrestrictedSteps, RestrictedSteps
  <2>2. Control'
    BY <1>0, <1>5
       DEF Savepoint, GoTo, Control, Bound, IsReplayable, IsWrite
  <2>3. Sees'
    BY <1>0, <1>5
       DEF Savepoint, GoTo, Sees, Remains, Control, RestrictedSteps, IsWrite
  <2>4. Decided'
    BY <1>5 DEF Savepoint, GoTo, Decided
  <2>5. Meaning'
    BY <1>0, <1>5, NoClaim DEF Savepoint, GoTo, Control
  <2> QED
    BY <2>1, <2>2, <2>3, <2>4, <2>5 DEF DifferInv
<1>6. CASE ExecUnrestricted
  <2> DEFINE r == Outcome(work, Super)
  <2>0. /\ query \in Query
        /\ query.op # "select"
        /\ Rows = work /\ work \in Content
    BY <1>0, <1>6, InTransaction DEF ExecUnrestricted, Sees, Control, IsWrite
  <2>a. /\ failure' = r.err /\ hit' = r.key /\ touched' = r.keys
        /\ aborted' = (r.err # "none")
        /\ work' = Applied(work, r.keys)
        /\ GoTo(IF r.err = "none" THEN "u_return" ELSE "u_rollback_to")
        /\ UNCHANGED <<content, query, saved, attempt, known, got, admitted, seen,
                       setting, faulted>>
    BY <1>0, <1>6, InTransaction DEF ExecUnrestricted, Sees
  <2>b. query.op = "insert" /\ r.err = "none"
          => r.keys = {query.rows[i].key : i \in DOMAIN query.rows}
    BY DEF Outcome, Result
  <2>c. /\ r.err \in {"none", "unique", "rls"}
        /\ r.key \in Keys \cup {NoKey}
        /\ r.keys \subseteq Keys
        /\ Applied(work, r.keys) \in Content
    BY <2>0, OutcomeType, AppliedType
  <2> HIDE DEF r
  <2>1. TypeOK'
    BY <1>0, <2>a, <2>c DEF GoTo, TypeOK, UnrestrictedSteps, RestrictedSteps
  <2>2. Control'
    <3>1. /\ pc = "u_exec"
          /\ pc' \in {"u_return", "u_rollback_to"}
          /\ UNCHANGED <<verdict, replayed, faulted, attempt, query>>
      BY <1>6, <2>a DEF ExecUnrestricted, GoTo
    <3> QED
      BY <1>0, <3>1 DEF Control, Bound, IsReplayable, IsWrite
  <2>3. Sees'
    BY <1>0, <1>6, <2>0, <2>a, <2>b
       DEF ExecUnrestricted, GoTo, Sees, Remains, RestrictedSteps
  <2>4. Decided'
    BY <2>a DEF GoTo, Decided
  <2>5. Meaning'
    BY <1>0, <1>6, <2>a, NoClaim DEF ExecUnrestricted, GoTo, Control
  <2> QED
    BY <2>1, <2>2, <2>3, <2>4, <2>5 DEF DifferInv
<1>7. CASE RollbackToSavepoint
  <2>1. TypeOK'
    <3>1. saved \in Content
      BY <1>0, <1>7 DEF RollbackToSavepoint, Sees, Remains
    <3> QED
      BY <1>0, <1>7, <3>1
         DEF RollbackToSavepoint, GoTo, TypeOK, UnrestrictedSteps, RestrictedSteps
  <2>2. Control'
    BY <1>0, <1>7
       DEF RollbackToSavepoint, GoTo, Control, Bound, IsReplayable, IsWrite
  <2>3. Sees'
    BY <1>0, <1>7
       DEF RollbackToSavepoint, GoTo, Sees, Remains, Control, RestrictedSteps, IsWrite
  <2>4. Decided'
    BY <1>7 DEF RollbackToSavepoint, GoTo, Decided
  <2>5. Meaning'
    BY <1>0, <1>7, NoClaim DEF RollbackToSavepoint, GoTo, Control
  <2> QED
    BY <2>1, <2>2, <2>3, <2>4, <2>5 DEF DifferInv
<1>8. CASE DeleteConflict
  <2>0. Remains(work) /\ Rows = work
    BY <1>0, <1>8, InTransaction DEF DeleteConflict, Sees
  <2>a. Remains(Remove(work, {hit}))
    BY <2>0, RemoveRemains
  <2>b. /\ \/ UNCHANGED <<work, attempt, known>> /\ GoTo("give_up")
           \/ /\ attempt' = attempt + 1
              /\ known' = hit
              /\ work' = Remove(work, {hit})
              /\ GoTo(IF attempt' < MaxConflictRetries THEN "u_savepoint" ELSE "give_up")
        /\ pc = "u_delete"
        /\ UNCHANGED <<content, query, saved, aborted, failure, hit, touched, got,
                       admitted, seen, setting, faulted>>
    BY <1>8, <2>0, InTransaction DEF DeleteConflict
  <2>1. TypeOK'
    <3>1. attempt' \in 0..MaxConflictRetries
      <4>1. attempt' \in {attempt, attempt + 1}
        BY <2>b
      <4>2. attempt \in Nat /\ attempt < MaxConflictRetries
        BY <1>0, <2>b, DifferAssumption DEF TypeOK, Control
      <4> QED
        BY <4>1, <4>2, DifferAssumption
    <3>2. Remove(work, {hit}) \in Content
      BY <2>a DEF Remains
    <3> QED
      BY <1>0, <2>b, <3>1, <3>2 DEF GoTo, TypeOK, UnrestrictedSteps, RestrictedSteps
  <2>2. Control'
    BY <1>0, <2>b DEF GoTo, Control, Bound, IsReplayable, IsWrite
  <2>3. Sees'
    BY <1>0, <2>a, <2>b DEF GoTo, Sees, Remains, RestrictedSteps, IsWrite
  <2>4. Decided'
    BY <2>b DEF GoTo, Decided
  <2>5. Meaning'
    BY <1>0, <2>b, NoClaim DEF GoTo, Control
  <2> QED
    BY <2>1, <2>2, <2>3, <2>4, <2>5 DEF DifferInv
<1>9. CASE ReturnUnrestricted
  <2>1. TypeOK'
    BY <1>0, <1>9
       DEF ReturnUnrestricted, Rollback, GoTo, TypeOK, UnrestrictedSteps, RestrictedSteps
  <2>2. Control'
    BY <1>0, <1>9
       DEF ReturnUnrestricted, GoTo, Control, Bound, IsReplayable, IsWrite
  <2>3. Sees'
    BY <1>0, <1>9
       DEF ReturnUnrestricted, Rollback, GoTo, Sees, RestrictedSteps, Visible
  <2>4. Decided'
    BY <1>9 DEF ReturnUnrestricted, GoTo, Decided
  <2>5. Meaning'
    BY <1>0, <1>9, NoClaim DEF ReturnUnrestricted, GoTo, Control
  <2> QED
    BY <2>1, <2>2, <2>3, <2>4, <2>5 DEF DifferInv
<1>10. CASE AcquireConn
  <2>1. TypeOK'
    BY <1>0, <1>10, DifferAssumption
       DEF AcquireConn, GoTo, TypeOK, Control, UnrestrictedSteps, RestrictedSteps
  <2>2. Control'
    BY <1>0, <1>10
       DEF AcquireConn, GoTo, Control, Bound, IsReplayable, IsWrite
  <2>3. Sees'
    BY <1>0, <1>10
       DEF AcquireConn, GoTo, Sees, Remains, Control, RestrictedSteps, IsWrite
  <2>4. Decided'
    BY <1>10 DEF AcquireConn, GoTo, Decided
  <2>5. Meaning'
    BY <1>0, <1>10, NoClaim DEF AcquireConn, GoTo, Control
  <2> QED
    BY <2>1, <2>2, <2>3, <2>4, <2>5 DEF DifferInv
<1>11. CASE SetTenant
  <2>0. query.claim \in Values /\ conn \in Conns
    BY <1>0, <1>11, QueryFields DEF SetTenant, Control
  <2>1. TypeOK'
    BY <1>0, <1>11, <2>0, DifferAssumption
       DEF SetTenant, GoTo, TypeOK, UnrestrictedSteps, RestrictedSteps
  <2>2. Control'
    <3>1. setting'[conn] = query.claim
      BY <1>0, <1>11, <2>0 DEF SetTenant, TypeOK
    <3> QED
      BY <1>0, <1>11, <2>0, <3>1
         DEF SetTenant, GoTo, Control, Bound, IsReplayable, IsWrite
  <2>3. Sees'
    BY <1>0, <1>11
       DEF SetTenant, GoTo, Sees, Remains, Control, RestrictedSteps, IsWrite
  <2>4. Decided'
    BY <1>11 DEF SetTenant, GoTo, Decided
  <2>5. Meaning'
    BY <1>0, <1>11, NoClaim DEF SetTenant, GoTo, Control
  <2> QED
    BY <2>1, <2>2, <2>3, <2>4, <2>5 DEF DifferInv
<1>12. CASE BeginAsTenant
  <2>1. TypeOK'
    BY <1>0, <1>12, DifferAssumption
       DEF BeginAsTenant, GoTo, TypeOK, Control, UnrestrictedSteps, RestrictedSteps
  <2>2. Control'
    BY <1>0, <1>12
       DEF BeginAsTenant, GoTo, Control, Bound, IsReplayable, IsWrite
  <2>3. Sees'
    <3>1. Remains(content)
      BY <1>0, ContentRemains
    <3> QED
      BY <1>0, <1>12, <3>1
         DEF BeginAsTenant, GoTo, Sees, Remains, RestrictedSteps, IsWrite, Visible
  <2>4. Decided'
    BY <1>12 DEF BeginAsTenant, GoTo, Decided
  <2>5. Meaning'
    BY <1>0, <1>12, NoClaim DEF BeginAsTenant, GoTo, Control
  <2> QED
    BY <2>1, <2>2, <2>3, <2>4, <2>5 DEF DifferInv
<1>13. CASE DeleteKnownConflict
  <2>0. Remains(work) /\ Rows = work
    BY <1>0, <1>13, InTransaction DEF DeleteKnownConflict, Sees
  <2>a. Remains(Remove(work, {known}))
    BY <2>0, RemoveRemains
  <2>b. /\ \/ work' = Remove(work, {known}) /\ GoTo("r_exec")
           \/ UNCHANGED work /\ GoTo("give_up")
        /\ pc = "r_delete"
        /\ UNCHANGED <<content, query, saved, aborted, failure, hit, attempt, known,
                       touched, got, admitted, seen, setting, faulted>>
    BY <1>13, <2>0, InTransaction DEF DeleteKnownConflict
  <2>1. TypeOK'
    <3>1. Remove(work, {known}) \in Content
      BY <2>a DEF Remains
    <3> QED
      BY <1>0, <2>b, <3>1 DEF GoTo, TypeOK, UnrestrictedSteps, RestrictedSteps
  <2>2. Control'
    BY <1>0, <2>b DEF GoTo, Control, Bound, IsReplayable, IsWrite
  <2>3. Sees'
    <3>1. IsWrite
      BY <1>0, <2>b DEF Control
    <3> QED
      BY <1>0, <2>a, <2>b, <3>1
         DEF GoTo, Sees, Remains, RestrictedSteps, IsWrite, Visible
  <2>4. Decided'
    BY <2>b DEF GoTo, Decided
  <2>5. Meaning'
    BY <1>0, <2>b, NoClaim DEF GoTo, Control
  <2> QED
    BY <2>1, <2>2, <2>3, <2>4, <2>5 DEF DifferInv
<1>14. CASE ExecRestricted
  <2> DEFINE r == Outcome(work, query.claim)
  <2>0. /\ query \in Query
        /\ Remains(work) /\ Rows = work /\ work \in Content
        /\ setting[conn] = query.claim
        /\ ~IsWrite => work = content
    BY <1>0, <1>14, InTransaction DEF ExecRestricted, Sees, Control, Bound
  <2>a. /\ failure' = r.err /\ admitted' = r.keys
        /\ aborted' = (r.err # "none")
        /\ IF IsWrite THEN UNCHANGED seen ELSE seen' \in query.answer[r.keys]
        /\ work' = Applied(work, r.keys)
        /\ GoTo("r_return")
        /\ pc = "r_exec"
        /\ UNCHANGED <<content, query, saved, hit, attempt, known, touched, got,
                       setting, faulted>>
    BY <1>14, <2>0, InTransaction DEF ExecRestricted
  <2>b. /\ r.err \in {"none", "unique", "rls"}
        /\ r.keys \subseteq Keys
        /\ Applied(work, r.keys) \in Content
    BY <2>0, OutcomeType, AppliedType
  <2>c. PICK w : w = work
    OBVIOUS
  <2>d. Outcome(w, query.claim)' = r
    <3>1. query' = query
      BY <2>a
    <3>2. Outcome(w, query.claim)' = Outcome(w, query.claim)
      BY <3>1 DEF Outcome, BadRows, Visible
    <3> QED
      BY <2>c, <3>2
  <2> HIDE DEF r
  <2>1. TypeOK'
    <3>1. query.op = "select" => seen' \in Answers
      BY <2>0, <2>a, <2>b, QueryFields DEF IsWrite
    <3>2. query.op # "select" => seen' = seen
      BY <2>0, <2>a, QueryFields DEF IsWrite
    <3> QED
      BY <1>0, <2>a, <2>b, <3>1, <3>2 DEF GoTo, TypeOK, UnrestrictedSteps, RestrictedSteps
  <2>2. Control'
    BY <1>0, <2>a DEF GoTo, Control, Bound, IsReplayable, IsWrite
  <2>3. Sees'
    BY <1>0, <2>a DEF GoTo, Sees, RestrictedSteps, Visible
  <2>4. Decided'
    <3>1. Remains(w)' /\ RanOn(w)' /\ (~IsWrite => w = content)'
      BY <2>0, <2>a, <2>c, <2>d DEF Remains, RanOn, IsWrite
    <3>2. query'.op = "select" => seen' \in query'.answer[admitted']
      BY <2>a DEF IsWrite
    <3> QED
      BY <3>1, <3>2, Zenon DEF Decided
  <2>5. Meaning'
    BY <1>0, <2>a, NoClaim DEF GoTo, Control
  <2> QED
    BY <2>1, <2>2, <2>3, <2>4, <2>5 DEF DifferInv
<1>15. CASE ReturnRestricted
  <2>1. \E v \in {"SAFE", "LEAK", "UNATTRIBUTABLE"}, vac \in BOOLEAN : Finish(v, vac)
    BY <1>15 DEF ReturnRestricted, CompareWrites, CompareReads
  <2>2. /\ pc' = "idle"
        /\ work' = NoTx
        /\ conn' = NoConn
        /\ replayed' = replayed + 1
        /\ verdict' \in {"SAFE", "LEAK", "UNATTRIBUTABLE"}
        /\ vacuous' \in BOOLEAN
        /\ UNCHANGED <<content, query, saved, aborted, failure, hit, attempt, known,
                       touched, got, admitted, seen, setting, faulted>>
    BY <1>15, <2>1 DEF ReturnRestricted, Rollback, Finish
  <2>3. TypeOK'
    <3>1. replayed' \in 0..MaxQueries
      BY <1>0, <1>15, <2>2, DifferAssumption DEF ReturnRestricted, Control, TypeOK
    <3> QED
      BY <1>0, <2>2, <3>1 DEF TypeOK
  <2>4. Control' /\ Sees' /\ Decided'
    BY <2>2 DEF Control, Sees, Decided, Bound, RestrictedSteps
  <2>5. Meaning'
    BY <1>0, <1>15, RestrictedMeaning
  <2> QED
    BY <2>3, <2>4, <2>5 DEF DifferInv
<1>16. CASE GiveUp
  <2>1. /\ pc' = "idle"
        /\ work' = NoTx
        /\ conn' = NoConn
        /\ replayed' = replayed + 1
        /\ verdict' = "UNATTRIBUTABLE" /\ vacuous' = FALSE
        /\ UNCHANGED <<content, query, saved, aborted, failure, hit, attempt, known,
                       touched, got, admitted, seen, setting, faulted>>
    BY <1>16 DEF GiveUp, Rollback, Finish
  <2>2. TypeOK'
    <3>1. replayed' \in 0..MaxQueries
      BY <1>0, <1>16, <2>1, DifferAssumption DEF GiveUp, Control, TypeOK
    <3> QED
      BY <1>0, <2>1, <3>1 DEF TypeOK
  <2>3. Control' /\ Sees' /\ Decided'
    BY <2>1 DEF Control, Sees, Decided, Bound, RestrictedSteps
  <2>4. Meaning'
    BY <2>1, NoClaim
  <2> QED
    BY <2>2, <2>3, <2>4 DEF DifferInv
<1>17. CASE UNCHANGED vars
  <2>1. \A w : (Remains(w)' <=> Remains(w)) /\ (RanOn(w)' <=> RanOn(w))
    <3>1. \A w : Outcome(w, query.claim)' = Outcome(w, query.claim)
      BY <1>17 DEF vars, Outcome, BadRows, Visible
    <3> QED
      BY <1>17, <3>1 DEF vars, Remains, RanOn
  <2>2. TypeOK' /\ Control'
    BY <1>0, <1>17 DEF vars, TypeOK, Control, Bound, IsReplayable, IsWrite
  <2>3. Remains(work)' <=> Remains(work)
    BY <1>17 DEF vars, Remains
  <2>4. Remains(saved)' <=> Remains(saved)
    BY <1>17 DEF vars, Remains
  <2>5. Sees' /\ Decided'
    BY <1>0, <1>17, <2>1, <2>3, <2>4 DEF vars, Sees, Decided, IsWrite, Visible
  <2>6. Meaning'
    <3>1. TenantsTouched' = TenantsTouched
      BY <1>17 DEF vars, TenantsTouched, Written
    <3>2. JudgedOnEvidence' <=> JudgedOnEvidence
      BY <1>17 DEF vars, JudgedOnEvidence, IsWrite
    <3> QED
      BY <1>0, <1>17, <3>1, <3>2
         DEF vars, Meaning, LeakIsForeign, SafeIsOwn, SafeAnswerIsOwn, IsStable,
             ShowsItsRows, OwnRows
  <2> QED
    BY <2>2, <2>5, <2>6 DEF DifferInv
<1> QED
  BY <1>1, <1>2, <1>3, <1>4, <1>5, <1>6, <1>7, <1>8, <1>9, <1>10, <1>11, <1>12,
     <1>13, <1>14, <1>15, <1>16, <1>17 DEF Next, Call

-----------------------------------------------------------------------------
\* Every reachable state satisfies the invariant.
THEOREM Inductive == Spec => []DifferInv
<1> QED
  BY InitInv, StepInv, PTL DEF Spec

\* The types of the differ's state, for any table and any queries.
THEOREM DifferTypeCorrect == Spec => []TypeOK
<1>1. DifferInv => TypeOK
  BY DEF DifferInv
<1> QED
  BY <1>1, Inductive, PTL

\* SAFE and LEAK are given only to a resolved and attributed query whose
\* every database call succeeded, a LEAK of a write only to one the policy
\* rejected.
THEOREM VerdictsHaveEvidence == Spec => []JudgedOnEvidence
<1>1. DifferInv => JudgedOnEvidence
  BY DEF DifferInv, Meaning
<1> QED
  BY <1>1, Inductive, PTL

\* A LEAK touches a row of a tenant the query does not claim: there are no
\* false leaks, reads that do not repeat themselves apart.
THEOREM LeaksAreReal == Spec => []LeakIsForeign
<1>1. DifferInv => LeakIsForeign
  BY DEF DifferInv, Meaning
<1> QED
  BY <1>1, Inductive, PTL

\* A SAFE INSERT, or SAFE read that shows its rows, touches rows of the claimed
\* tenant only: there are no missed leaks among them, and a vacuous one touched
\* none.
THEOREM SafeReadsAreOwn == Spec => []SafeIsOwn
<1>1. DifferInv => SafeIsOwn
  BY DEF DifferInv, Meaning
<1> QED
  BY <1>1, Inductive, PTL

\* Any SAFE read, of rows or of what is computed from them, has a result the
\* claimed tenant's own rows give.
THEOREM SafeAnswersAreOwn == Spec => []SafeAnswerIsOwn
<1>1. DifferInv => SafeAnswerIsOwn
  BY DEF DifferInv, Meaning
<1> QED
  BY <1>1, Inductive, PTL
-----------------------------------------------------------------------------
(* What a replay is, seen from outside. *)

\* Only an INSERT collides; for any other query both legs see the committed
\* rows.
Undisturbed ==
    /\ pc \in {"u_rollback_to", "u_delete"} => query.op = "insert"
    /\ (pc # "idle" /\ known # NoKey) => query.op = "insert"
    /\ (pc \in {"u_query", "u_savepoint", "u_exec", "r_exec"} /\ query.op # "insert")
         => work = content
    /\ (pc \in RestrictedSteps \cup {"u_return"} /\ query.op # "insert")
         => touched = query.match \cap Visible(content, Super)
    /\ (pc = "r_return" /\ query.op # "insert") => RanOn(content)

\* Row-level security does not apply to the superuser: a statement that
\* inserts nothing succeeds.
LEMMA SuperSucceeds ==
    ASSUME query \in Query, query.op # "insert", NEW w
    PROVE  /\ Outcome(w, Super).err = "none"
           /\ Outcome(w, Super).keys = query.match \cap Visible(w, Super)
<1>1. CASE query.op \in {"select", "delete"}
  BY <1>1 DEF Outcome, Result
<1>2. CASE query.op = "update"
  BY <1>2 DEF Outcome, Result, Admits
<1> QED
  BY <1>1, <1>2, QueryFields

\* One step of a replay leaves it so.
LEMMA StepUndisturbed ==
    DifferInv /\ Undisturbed /\ [Next]_vars => Undisturbed'
<1> SUFFICES ASSUME DifferInv, Undisturbed, [Next]_vars
             PROVE  Undisturbed'
  OBVIOUS
<1>0. TypeOK /\ Control /\ Sees
  BY DEF DifferInv
<1>1. CASE pc # "idle" /\ pc' \in {"idle", "give_up"} /\ UNCHANGED <<query, known>>
  BY <1>1 DEF Undisturbed, RestrictedSteps
<1>2. ASSUME NEW q \in Queries, Start(q)
      PROVE  Undisturbed'
  BY <1>2 DEF Start, Finish, Undisturbed, RestrictedSteps
<1>3. CASE Begin
  BY <1>3 DEF Begin, GoTo, Undisturbed, RestrictedSteps
<1>4. CASE QueryUnrestricted
  <2>1. query \in Query /\ query.op # "insert" /\ work = content /\ Rows = work
    BY <1>0, <1>4, InTransaction DEF QueryUnrestricted, Control, Sees, IsWrite
  <2>2. touched' = query.match \cap Visible(content, Super)
    BY <1>4, <2>1, SuperSucceeds DEF QueryUnrestricted
  <2> QED
    BY <1>4, <2>1, <2>2
       DEF QueryUnrestricted, GoTo, Undisturbed, RestrictedSteps, Visible
<1>5. CASE Savepoint
  BY <1>5 DEF Savepoint, GoTo, Undisturbed, RestrictedSteps
<1>6. CASE ExecUnrestricted
  <2>1. query \in Query /\ Rows = work /\ content' = content
    BY <1>0, <1>6, InTransaction DEF ExecUnrestricted, Control, Sees
  <2>2. ASSUME query.op # "insert"
        PROVE  /\ pc' = "u_return"
               /\ touched' = query.match \cap Visible(content, Super)
    <3>1. work = content
      BY <1>6, <2>2 DEF ExecUnrestricted, Undisturbed
    <3> QED
      BY <1>6, <2>1, <2>2, <3>1, SuperSucceeds DEF ExecUnrestricted, GoTo
  <2>3. pc' \in {"u_return", "u_rollback_to"}
        /\ UNCHANGED <<query, known>>
    BY <1>6 DEF ExecUnrestricted, GoTo
  <2>4. Visible(content, Super)' = Visible(content, Super)
    BY <2>1 DEF Visible
  <2> QED
    BY <1>6, <2>2, <2>3, <2>4 DEF ExecUnrestricted, Undisturbed, RestrictedSteps
<1>7. CASE RollbackToSavepoint
  BY <1>7 DEF RollbackToSavepoint, GoTo, Undisturbed, RestrictedSteps
<1>8. CASE DeleteConflict
  BY <1>8 DEF DeleteConflict, GoTo, Undisturbed, RestrictedSteps
<1>9. CASE ReturnUnrestricted \/ AcquireConn \/ SetTenant
  BY <1>9 DEF ReturnUnrestricted, Rollback, AcquireConn, SetTenant, GoTo, Undisturbed,
              RestrictedSteps, Visible
<1>10. CASE BeginAsTenant
  BY <1>10 DEF BeginAsTenant, GoTo, Undisturbed, RestrictedSteps, Visible
<1>11. CASE DeleteKnownConflict
  <2>1. CASE known \in Visible(Rows, setting[conn])
    <3>1. known \in Keys
      BY <2>1 DEF Visible
    <3>2. query.op = "insert"
      BY <1>11, <3>1, DifferAssumption DEF DeleteKnownConflict, Undisturbed
    <3> QED
      BY <1>11, <2>1, <3>2 DEF DeleteKnownConflict, GoTo, Undisturbed, RestrictedSteps
  <2>2. CASE known \notin Visible(Rows, setting[conn])
    BY <1>1, <1>11, <2>2 DEF DeleteKnownConflict, GoTo
  <2> QED
    BY <2>1, <2>2
<1>12. CASE DatabaseError
  BY <1>1, <1>12 DEF DatabaseError, GoTo
<1>13. CASE ExecRestricted
  <2>1. /\ Rows = work /\ UNCHANGED <<content, query, known, touched>>
        /\ setting[conn] = query.claim
        /\ pc = "r_exec" /\ pc' = "r_return"
    BY <1>0, <1>13, InTransaction DEF ExecRestricted, GoTo, Control, Sees, Bound
  <2>2. /\ failure' = Outcome(work, query.claim).err
        /\ admitted' = Outcome(work, query.claim).keys
    BY <1>13, <2>1 DEF ExecRestricted
  <2>3. Outcome(content, query.claim)' = Outcome(content, query.claim)
    BY <2>1 DEF Outcome, BadRows, Visible
  <2>4. query.op # "insert" => RanOn(content)'
    BY <2>1, <2>2, <2>3 DEF Undisturbed, RanOn
  <2>5. Visible(content, Super)' = Visible(content, Super)
    BY <2>1 DEF Visible
  <2> QED
    BY <2>1, <2>4, <2>5 DEF Undisturbed, RestrictedSteps
<1>14. CASE ReturnRestricted \/ GiveUp
  <2>1. pc # "idle" /\ pc' = "idle" /\ UNCHANGED <<query, known>>
    BY <1>14 DEF ReturnRestricted, CompareWrites, CompareReads, GiveUp, Finish
  <2> QED
    BY <1>1, <2>1
<1>15. CASE UNCHANGED vars
  <2>1. RanOn(content)' <=> RanOn(content)
    BY <1>15 DEF vars, RanOn, Outcome, BadRows, Visible
  <2> QED
    BY <1>15, <2>1 DEF vars, Undisturbed, Visible
<1> QED
  BY <1>2, <1>3, <1>4, <1>5, <1>6, <1>7, <1>8, <1>9, <1>10, <1>11, <1>12, <1>13,
     <1>14, <1>15 DEF Next, Call

\* The verdict a replay returns with is the contract's.
LEMMA RestrictedAnswers ==
    ASSUME DifferInv, Undisturbed, ReturnRestricted
    PROVE  Contract!GiveUp \/ Contract!Answer \/ Contract!AnswerRead
<1>0. PICK rows : /\ Remains(rows) /\ RanOn(rows)
                  /\ query.op # "insert" => rows = content
  <2>1. \E w : Remains(w) /\ RanOn(w)
    BY DEF ReturnRestricted, DifferInv, Decided
  <2>2. query.op # "insert" => RanOn(content)
    BY DEF ReturnRestricted, Undisturbed
  <2>3. Remains(content)
    BY ContentRemains DEF DifferInv
  <2> QED
    BY <2>1, <2>2, <2>3, Zenon
<1> DEFINE claim == query.claim
           r == Outcome(rows, claim)
<1>1. /\ query \in Query
      /\ IsReplayable(query)
      /\ content \in Content
      /\ pc = "r_return"
      /\ query.op # "insert" =>
           rows = content /\ touched = query.match \cap Visible(content, Super)
      /\ query.op = "select" => /\ got \in query.answer[touched]
                                /\ seen \in query.answer[r.keys]
      /\ query.op = "insert" => touched = {query.rows[i].key : i \in DOMAIN query.rows}
  BY <1>0 DEF ReturnRestricted, DifferInv, TypeOK, Control, Sees, Decided, RanOn,
         Undisturbed, RestrictedSteps
<1>2. /\ IF IsWrite THEN CompareWrites ELSE CompareReads
      /\ admitted = r.keys /\ failure = r.err
      /\ UNCHANGED <<content, query>>
  BY <1>0 DEF ReturnRestricted, Rollback, RanOn
<1>3. \A t : Admits(claim, t) <=> t = claim
  BY <1>1, QueryFields, DifferAssumption DEF Admits
<1>4. ASSUME NEW v, NEW vac, Finish(v, vac)
      PROVE  pc' = "idle" /\ verdict' = v /\ vacuous' = vac
  BY <1>4 DEF Finish
<1>5. ASSUME Finish("UNATTRIBUTABLE", FALSE)
      PROVE  Contract!GiveUp
  BY <1>1, <1>2, <1>4, <1>5 DEF Contract!GiveUp
<1>6. ASSUME Finish("SAFE", Contract!IsEmpty), ~Contract!IsForeign, query.op # "select"
      PROVE  Contract!Answer
  <2>1. pc' = "idle" /\ verdict' = "SAFE" /\ vacuous' = Contract!IsEmpty
    BY <1>6 DEF Finish
  <2>2. vacuous' = (~Contract!IsForeign /\ Contract!IsEmpty)
    <3>1. Contract!IsEmpty \in BOOLEAN
      BY DEF Contract!IsEmpty
    <3> QED
      BY <1>6, <2>1, <3>1
  <2> QED
    BY <1>1, <1>2, <1>6, <2>1, <2>2 DEF Contract!Answer, Contract!Reply, IsReplayable
<1>7. ASSUME Finish("LEAK", FALSE), Contract!IsForeign, query.op # "select"
      PROVE  Contract!Answer
  <2>1. pc' = "idle" /\ verdict' = "LEAK" /\ vacuous' = FALSE
    BY <1>7 DEF Finish
  <2>2. vacuous' = (~Contract!IsForeign /\ Contract!IsEmpty)
    BY <1>7, <2>1, Zenon
  <2> QED
    BY <1>1, <1>2, <1>7, <2>1, <2>2 DEF Contract!Answer, Contract!Reply, IsReplayable
<1>8. CASE query.op # "insert"
  <2>1. query.match \subseteq Keys
    BY <1>1, <1>8, QueryFields
  <2>2. touched = {k \in query.match : content[k] # NoRow}
    BY <1>1, <1>8, <2>1 DEF Visible, Admits
  <2>3. query.match \cap Visible(rows, claim) = {k \in query.match : content[k] = claim}
    <3>1. claim # NoRow
      BY <1>1, QueryFields, DifferAssumption
    <3> QED
      BY <1>1, <1>3, <1>8, <2>1, <3>1 DEF Visible
  <2>4. (touched = {}) <=> (Contract!Matched = {})
    BY <2>2 DEF Contract!Matched
  <2>5. Contract!IsEmpty <=> (touched = {})
    BY <1>8, <2>4 DEF Contract!IsEmpty
  <2>6. CASE query.op = "select"
    <3>1. ~IsWrite /\ r.keys = {k \in query.match : content[k] = claim}
      BY <2>3, <2>6 DEF IsWrite, Outcome, Result
    <3>2. r.keys = Contract!Of({claim})
      BY <3>1 DEF Contract!Of
    <3>3. touched = Contract!Of(Contract!Matched)
      BY <2>2 DEF Contract!Of, Contract!Matched
    <3>4. got \in query.answer[Contract!Of(Contract!Matched)]
      BY <1>1, <2>6, <3>3
    <3>5. CompareReads /\ seen \in query.answer[Contract!Of({claim})]
      BY <1>1, <1>2, <2>6, <3>1, <3>2
    <3>6. pc' = "idle" /\ verdict' = (IF got # seen THEN "LEAK" ELSE "SAFE")
          /\ vacuous' = (~(got # seen) /\ seen = NoRows)
      BY <3>5 DEF CompareReads, Finish
    <3>7. Contract!Reply(got # seen, seen = NoRows)
      BY <1>1, <1>2, <3>6 DEF Contract!Reply, IsReplayable
    <3> QED
      BY <2>6, <3>4, <3>5, <3>7 DEF Contract!AnswerRead
  <2>7. CASE query.op = "delete"
    <3>1. r.err = "none" /\ r.keys \subseteq touched
      BY <2>2, <2>3, <2>7, <1>1, QueryFields, DifferAssumption DEF Outcome, Result
    <3>2. IsWrite /\ ~Contract!IsForeign
      BY <2>7 DEF IsWrite, Contract!IsForeign
    <3>3. (touched = {} /\ r.keys = {}) = Contract!IsEmpty
      BY <2>5, <3>1 DEF Contract!IsEmpty
    <3> QED
      BY <1>2, <1>6, <2>7, <3>1, <3>2, <3>3 DEF CompareWrites
  <2>8. CASE query.op = "update"
    <3> DEFINE mine == {k \in query.match : content[k] = claim}
    <3>1. IsWrite
      BY <2>8 DEF IsWrite
    <3>2. Contract!IsForeign <=> (mine # {} /\ query.to # Keep /\ query.to # claim)
      BY <1>1, <2>8, QueryFields, DifferAssumption
         DEF Contract!IsForeign, Contract!Matched
    <3>3. CASE Contract!IsForeign
      <4>1. r.err = "rls"
        BY <1>3, <2>3, <2>8, <3>2, <3>3 DEF Outcome, Result
      <4> QED
        BY <1>2, <1>7, <2>8, <3>1, <3>3, <4>1 DEF CompareWrites
    <3>4. CASE ~Contract!IsForeign
      <4>1. r.err = "none" /\ r.keys = mine
        BY <1>3, <2>3, <2>8, <3>2, <3>4 DEF Outcome, Result
      <4>2. mine \subseteq touched
        BY <1>1, <2>2, QueryFields, DifferAssumption
      <4>3. (touched = {} /\ r.keys = {}) = Contract!IsEmpty
        BY <2>5, <4>1, <4>2 DEF Contract!IsEmpty
      <4> QED
        BY <1>2, <1>6, <2>8, <3>1, <3>4, <4>1, <4>3 DEF CompareWrites
    <3> QED
      BY <3>3, <3>4
  <2> QED
    BY <1>1, <1>8, <2>6, <2>7, <2>8, QueryFields
<1>9. CASE query.op = "insert"
  <2>1. IsWrite
    BY <1>9 DEF IsWrite
  <2>2. CASE BadRows(rows, claim) = {}
    <3>1. r.err = "none" /\ r.keys = {query.rows[i].key : i \in DOMAIN query.rows}
      BY <1>9, <2>2 DEF Outcome, Result
    <3>2. \A i \in DOMAIN query.rows : query.rows[i].tenant = claim
      BY <1>3, <2>2 DEF BadRows
    <3>3. ~Contract!IsForeign
      BY <1>9, <3>2 DEF Contract!IsForeign, Contract!Inserted
    <3>4. (touched = {} /\ r.keys = {}) = Contract!IsEmpty
      <4>1. (touched = {}) <=> (DOMAIN query.rows = {})
        BY <1>1, <1>9
      <4>2. (Contract!Inserted = {}) <=> (DOMAIN query.rows = {})
        BY DEF Contract!Inserted
      <4>3. Contract!IsEmpty = (Contract!Inserted = {})
        BY <1>9 DEF Contract!IsEmpty
      <4>4. r.keys = touched
        BY <1>1, <1>9, <3>1
      <4> QED
        BY <4>1, <4>2, <4>3, <4>4
    <3> QED
      BY <1>2, <1>6, <1>9, <2>1, <3>1, <3>3, <3>4 DEF CompareWrites
  <2>3. CASE BadRows(rows, claim) # {}
    <3> DEFINE bad == Min(BadRows(rows, claim))
    <3>1. bad \in DOMAIN query.rows
      BY <1>1, <1>9, <2>3, BadRow
    <3>2. r = IF Admits(claim, query.rows[bad].tenant)
              THEN Result("unique", query.rows[bad].key, {})
              ELSE Result("rls", NoKey, {})
      BY <1>9, <2>3 DEF Outcome
    <3> HIDE DEF bad
    <3>3. CASE Admits(claim, query.rows[bad].tenant)
      <4>1. r.err = "unique"
        BY <3>2, <3>3 DEF Result
      <4> QED
        BY <1>2, <1>5, <2>1, <4>1 DEF CompareWrites
    <3>4. CASE ~Admits(claim, query.rows[bad].tenant)
      <4>1. r.err = "rls"
        BY <3>2, <3>4 DEF Result
      <4>2. Contract!IsForeign
        BY <1>3, <1>9, <3>1, <3>4 DEF Contract!IsForeign, Contract!Inserted
      <4> QED
        BY <1>2, <1>7, <1>9, <2>1, <4>1, <4>2 DEF CompareWrites
    <3> QED
      BY <3>3, <3>4
  <2> QED
    BY <2>2, <2>3
<1> QED
  BY <1>8, <1>9

\* Every step of a replay is one of the contract, or changes nothing it sees.
LEMMA StepMeets ==
    DifferInv /\ Undisturbed /\ [Next]_vars =>
        [Contract!Next]_<<content, query, pc # "idle", verdict, vacuous>>
<1> DEFINE shown == <<content, query, pc # "idle", verdict, vacuous>>
<1> SUFFICES ASSUME DifferInv, Undisturbed, [Next]_vars
             PROVE  Contract!Next \/ UNCHANGED shown
  OBVIOUS
<1>1. ASSUME NEW q \in Queries, Start(q)
      PROVE  Contract!Ask(q) \/ Contract!Refuse(q)
  <2>1. CASE IsReplayable(q)
    BY <1>1, <2>1 DEF Start, Contract!Ask
  <2>2. CASE ~IsReplayable(q)
    <3>1. ~q.resolved \/ q.attr = "unattributable"
      BY <2>2 DEF IsReplayable
    <3> QED
      BY <1>1, <2>2, <3>1 DEF Start, Finish, Contract!Refuse
  <2> QED
    BY <2>1, <2>2
<1>2. ASSUME NEW p, p # "idle", pc # "idle", GoTo(p), UNCHANGED <<content, query>>
      PROVE  UNCHANGED shown
  BY <1>2 DEF GoTo
<1>3. CASE DatabaseError \/ Begin \/ QueryUnrestricted \/ Savepoint \/ SetTenant
           \/ BeginAsTenant \/ RollbackToSavepoint
  BY <1>2, <1>3 DEF DatabaseError, Begin, QueryUnrestricted, Savepoint, SetTenant,
                    BeginAsTenant, RollbackToSavepoint
<1>4. CASE ReturnUnrestricted
  BY <1>2, <1>4 DEF ReturnUnrestricted, Rollback
<1>5. CASE AcquireConn
  BY <1>5 DEF AcquireConn
<1>6. CASE ExecUnrestricted \/ DeleteConflict \/ DeleteKnownConflict \/ ExecRestricted
  <2>1. Remains(work)
    BY <1>6 DEF ExecUnrestricted, DeleteConflict, DeleteKnownConflict, ExecRestricted,
                DifferInv, Sees
  <2>2. ASSUME NEW w, Store(w)
        PROVE  content' = content
    BY <2>1, <2>2, InTransaction
  <2> QED
    BY <1>2, <1>6, <2>2
       DEF ExecUnrestricted, DeleteConflict, DeleteKnownConflict, ExecRestricted
<1>7. CASE ReturnRestricted
  BY <1>7, RestrictedAnswers DEF Contract!Next
<1>8. CASE GiveUp
  BY <1>8 DEF GiveUp, Rollback, Finish, Contract!Next, Contract!GiveUp
<1>9. CASE UNCHANGED vars
  BY <1>9 DEF vars
<1> QED
  BY <1>1, <1>3, <1>4, <1>5, <1>6, <1>7, <1>8, <1>9 DEF Next, Call, Contract!Next

\* Diff meets its contract: for any table, any queries and any failures, its
\* two legs with their connections, savepoints and retries amount to one answer
\* that the query and the rows determine, or to UNATTRIBUTABLE, and change no
\* row (differ.go, Diff).
THEOREM DiffMeetsContract == Spec => MeetsContract
<1>1. Init => Contract!Init /\ Undisturbed
  BY DEF Init, Contract!Init, Undisturbed, RestrictedSteps
<1>2. DifferInv /\ Undisturbed /\ [Next]_vars =>
        Undisturbed' /\ [Contract!Next]_<<content, query, pc # "idle", verdict, vacuous>>
  BY StepUndisturbed, StepMeets
<1> QED
  BY <1>1, <1>2, Inductive, PTL DEF Spec, MeetsContract, Contract!Spec

\* No replay writes durably: every statement finds the leg's transaction open,
\* and the replay ends after it was rolled back, whichever call failed.
THEOREM ReplayWritesNothing == Spec => NothingIsWritten
<1>1. [Contract!Next]_<<content, query, pc # "idle", verdict, vacuous>>
        => content' = content
  BY DEF Contract!Next, Contract!Ask, Contract!Refuse, Contract!GiveUp, Contract!Answer,
         Contract!AnswerRead, Contract!Reply
<1>2. DifferInv /\ Undisturbed /\ DifferInv' /\ [Next]_vars
        => [content' = content /\ (pc' = "idle" => work' = NoTx)]_vars
  BY <1>1, StepMeets DEF DifferInv, Sees
<1>3. Init => Undisturbed
  BY DEF Init, Undisturbed, RestrictedSteps
<1> QED
  BY <1>2, <1>3, StepInv, StepUndisturbed, Inductive, PTL DEF Spec, NothingIsWritten

-----------------------------------------------------------------------------
(* One collision is resolved in both legs. *)

\* The only row of the tenant's own INSERT that collides is row c.
OneAt(c) == OwnInsert /\ Collisions = {c}

\* How far the collision at key k is resolved.
ResolvedSoFar(k) ==
    /\ pc # "u_query"
    /\ pc = "u_begin" => known = NoKey /\ attempt = 0
    /\ pc \in {"u_savepoint", "u_exec"} =>
         \/ known = NoKey /\ attempt = 0 /\ work = content
         \/ known = k /\ attempt = 1 /\ work = Remove(content, {k})
    /\ pc = "u_exec" => saved = work
    /\ pc \in {"u_rollback_to", "u_delete"} => known = NoKey /\ attempt = 0 /\ hit = k
    /\ pc = "u_rollback_to" => failure = "unique" /\ saved = content
    /\ pc = "u_delete" => ~aborted /\ work = content
    /\ pc \in RestrictedSteps \cup {"u_return"} => known = k
    /\ pc = "r_delete" => work = content
    /\ pc = "r_exec" => work = Remove(content, {k})
    /\ pc = "r_return" => failure = "none"
    /\ pc = "give_up" => faulted

Resolving == pc # "idle" => \A c : OneAt(c) => ResolvedSoFar(query.rows[c].key)

\* The least element of a set of one number.
LEMMA MinOfOne ==
    ASSUME NEW c \in Nat
    PROVE  Min({c}) = c
BY DEF Min

\* The row that collides is the claimed tenant's, is the only one at which the
\* INSERT fails, and once it is deleted the INSERT does not fail.
LEMMA CollidingRow ==
    ASSUME query \in Query, content \in Content, NEW c, OneAt(c),
           NEW s \in {Super, query.claim}
    PROVE  LET k == query.rows[c].key
           IN /\ c \in DOMAIN query.rows
              /\ c \in Nat
              /\ k \in Keys
              /\ content[k] = query.claim
              /\ content[k] # NoRow
              /\ Admits(s, query.rows[c].tenant)
              /\ BadRows(content, s) = {c}
              /\ BadRows(Remove(content, {k}), s) = {}
<1> DEFINE k == query.rows[c].key
<1>1. query.op = "insert" /\ Written \subseteq {query.claim}
  BY DEF OneAt, OwnInsert
<1>2. /\ DOMAIN query.rows \subseteq Nat
      /\ \A i \in DOMAIN query.rows :
            query.rows[i].key \in Keys /\ query.rows[i].tenant \in Values
  BY <1>1, RowFields
<1>3. c \in DOMAIN query.rows /\ content[k] = query.claim
  BY DEF OneAt, OwnInsert, Collisions
<1>4. query.claim # NoRow
  BY QueryFields, DifferAssumption
<1>5. \A i \in DOMAIN query.rows : content[query.rows[i].key] # NoRow <=> i = c
  BY <1>3, <1>4 DEF OneAt, Collisions
<1>6. \A i \in DOMAIN query.rows : Admits(s, query.rows[i].tenant)
  BY <1>1 DEF Admits, Written
<1>7. \A i, j \in DOMAIN query.rows :
         query.rows[i].key = query.rows[j].key => i = j
  BY DEF OneAt, OwnInsert
<1>8. \A i \in DOMAIN query.rows : ~\E j \in 1..(i - 1) :
         query.rows[j].key = query.rows[i].key
  <2> SUFFICES ASSUME NEW i \in DOMAIN query.rows, NEW j \in 1..(i - 1),
                      query.rows[j].key = query.rows[i].key
               PROVE  FALSE
    OBVIOUS
  <2>1. query.rows \in Seq([key : Keys, tenant : Values])
    BY <1>1, QueryFields
  <2>2. j \in DOMAIN query.rows /\ i # j
    <3>1. i \in 1..Len(query.rows) /\ Len(query.rows) \in Nat
      BY <2>1
    <3> QED
      BY <2>1, <3>1
  <2> QED
    BY <1>7, <2>2
<1>9. BadRows(content, s) = {c}
  BY <1>3, <1>5, <1>6, <1>8 DEF BadRows
<1>10. BadRows(Remove(content, {k}), s) = {}
  <2>1. \A i \in DOMAIN query.rows :
           Remove(content, {k})[query.rows[i].key] = NoRow
    BY <1>2, <1>5 DEF Remove
  <2> QED
    BY <1>6, <1>8, <2>1 DEF BadRows
<1> HIDE DEF k
<1> QED
  BY <1>2, <1>3, <1>4, <1>6, <1>9, <1>10 DEF k

\* What the INSERT does before and after the deletion.
LEMMA CollidingOutcome ==
    ASSUME query \in Query, content \in Content, NEW c, OneAt(c),
           NEW s \in {Super, query.claim}
    PROVE  LET k == query.rows[c].key
           IN /\ Outcome(content, s).err = "unique"
              /\ Outcome(content, s).key = k
              /\ Outcome(Remove(content, {k}), s).err = "none"
<1> DEFINE k == query.rows[c].key
<1>1. query.op = "insert"
  BY DEF OneAt, OwnInsert
<1>2. /\ BadRows(content, s) = {c}
      /\ BadRows(Remove(content, {k}), s) = {}
      /\ Admits(s, query.rows[c].tenant)
      /\ c \in Nat
  BY CollidingRow
<1>3. Min(BadRows(content, s)) = c
  BY <1>2, MinOfOne
<1>4. Outcome(content, s) = Result("unique", query.rows[c].key, {})
  BY <1>1, <1>2, <1>3 DEF Outcome
<1>5. Outcome(Remove(content, {k}), s).err = "none"
  BY <1>1, <1>2 DEF Outcome, Result
<1> QED
  BY <1>4, <1>5 DEF Result

\* One collision is a collision of some row.
LEMMA OneIsSome ==
    ASSUME query \in Query, OwnInsert, Cardinality(Collisions) = 1
    PROVE  \E c : OneAt(c)
<1>1. query.rows \in Seq([key : Keys, tenant : Values])
  BY QueryFields DEF OwnInsert
<1>2. Collisions \subseteq 1..Len(query.rows) /\ Len(query.rows) \in Nat
  BY <1>1 DEF Collisions
<1>3. IsFiniteSet(Collisions)
  <2>1. IsFiniteSet(1..Len(query.rows))
    BY <1>2, FS_Interval
  <2> QED
    BY <1>2, <2>1, FS_Subset
<1>4. \E c : Collisions = {c}
  BY <1>3, FS_Singleton
<1> QED
  BY <1>4 DEF OneAt

\* One step resolves the collision further.
LEMMA StepResolving ==
    ASSUME MaxConflictRetries > 1, DifferInv, Resolving, [Next]_vars
    PROVE  Resolving'
<1>0. TypeOK /\ Control /\ Sees
  BY DEF DifferInv
<1>1. CASE pc' = "idle"
  BY <1>1 DEF Resolving
<1>2. ASSUME NEW q \in Queries, Start(q), pc' # "idle"
      PROVE  Resolving'
  <2>1. pc' = "u_begin" /\ known' = NoKey /\ attempt' = 0
    BY <1>2 DEF Start, Finish
  <2> QED
    BY <2>1 DEF Resolving, ResolvedSoFar, RestrictedSteps
<1>3. ASSUME pc # "idle", pc' # "idle", UNCHANGED <<content, query>>,
             \A c : OneAt(c) /\ ResolvedSoFar(query.rows[c].key) =>
                        ResolvedSoFar(query.rows[c].key)'
      PROVE  Resolving'
  <2>1. \A c : OneAt(c)' <=> OneAt(c)
    BY <1>3 DEF OneAt, OwnInsert, Written, Collisions
  <2> QED
    BY <1>3, <2>1 DEF Resolving
<1>4. CASE UNCHANGED vars
  <2>1. CASE pc = "idle"
    BY <1>1, <1>4, <2>1 DEF vars
  <2>2. CASE pc # "idle"
    <3>1. \A k : ResolvedSoFar(k)' <=> ResolvedSoFar(k)
      BY <1>4 DEF vars, ResolvedSoFar, Remove, RestrictedSteps
    <3>2. UNCHANGED <<content, query, pc>>
      BY <1>4 DEF vars
    <3> QED
      BY <1>3, <2>2, <3>1, <3>2
  <2> QED
    BY <2>1, <2>2
<1>5. CASE Begin
  BY <1>3, <1>5 DEF Begin, GoTo, ResolvedSoFar, IsWrite, OneAt, OwnInsert, RestrictedSteps
<1>6. CASE QueryUnrestricted
  <2>1. \A k : ~ResolvedSoFar(k)
    BY <1>6 DEF QueryUnrestricted, ResolvedSoFar
  <2> QED
    BY <1>3, <1>6, <2>1 DEF QueryUnrestricted, GoTo
<1>7. CASE Savepoint
  BY <1>3, <1>7 DEF Savepoint, GoTo, ResolvedSoFar, Remove, RestrictedSteps
<1>8. CASE ExecUnrestricted
  <2>1. /\ query \in Query /\ content \in Content
        /\ Rows = work
        /\ pc # "idle" /\ UNCHANGED <<content, query>>
    BY <1>0, <1>8, InTransaction DEF ExecUnrestricted, Control, Sees, TypeOK
  <2>2. ASSUME NEW c, OneAt(c), ResolvedSoFar(query.rows[c].key)
        PROVE  ResolvedSoFar(query.rows[c].key)'
    <3> DEFINE k == query.rows[c].key
    <3>1. /\ Outcome(content, Super).err = "unique"
          /\ Outcome(content, Super).key = k
          /\ Outcome(Remove(content, {k}), Super).err = "none"
      BY <2>1, <2>2, CollidingOutcome
    <3>2. /\ \/ known = NoKey /\ attempt = 0 /\ work = content
             \/ known = k /\ attempt = 1 /\ work = Remove(content, {k})
          /\ saved = work
      BY <1>8, <2>2 DEF ExecUnrestricted, ResolvedSoFar
    <3>3. k' = k
      BY <2>1
    <3> HIDE DEF k
    <3>4. CASE known = NoKey /\ attempt = 0 /\ work = content
      <4>1. /\ pc' = "u_rollback_to"
            /\ failure' = "unique" /\ hit' = k
            /\ UNCHANGED <<saved, known, attempt>>
        BY <1>8, <2>1, <3>1, <3>4 DEF ExecUnrestricted, GoTo
      <4> QED
        BY <2>1, <3>2, <3>3, <3>4, <4>1 DEF ResolvedSoFar, RestrictedSteps, k
    <3>5. CASE known = k /\ work = Remove(content, {k})
      <4>1. pc' = "u_return" /\ known' = known
        BY <1>8, <2>1, <3>1, <3>5 DEF ExecUnrestricted, GoTo
      <4> QED
        BY <3>3, <3>5, <4>1 DEF ResolvedSoFar, RestrictedSteps, k
    <3> QED
      BY <3>2, <3>4, <3>5
  <2> QED
    BY <1>1, <1>3, <2>1, <2>2
<1>9. CASE RollbackToSavepoint
  BY <1>1, <1>3, <1>9
     DEF RollbackToSavepoint, GoTo, ResolvedSoFar, Remove, RestrictedSteps
<1>10. CASE DeleteConflict
  <2>1. /\ query \in Query /\ content \in Content
        /\ Rows = work
        /\ pc = "u_delete" /\ UNCHANGED <<content, query>>
    BY <1>0, <1>10, InTransaction DEF DeleteConflict, Control, Sees, TypeOK
  <2>2. ASSUME NEW c, OneAt(c), ResolvedSoFar(query.rows[c].key)
        PROVE  ResolvedSoFar(query.rows[c].key)'
    <3> DEFINE k == query.rows[c].key
    <3>1. content[k] # NoRow
      BY <2>1, <2>2, CollidingRow
    <3>2. ~aborted /\ hit = k /\ work = content /\ attempt = 0
      BY <2>1, <2>2 DEF ResolvedSoFar
    <3> HIDE DEF k
    <3>3. ~(aborted \/ Rows[hit] = NoRow)
      BY <2>1, <3>1, <3>2
    <3>4. /\ known' = k /\ attempt' = attempt + 1
          /\ Store(Remove(content, {k}))
          /\ GoTo(IF attempt' < MaxConflictRetries THEN "u_savepoint" ELSE "give_up")
      BY <1>10, <2>1, <3>2, <3>3 DEF DeleteConflict
    <3>5. attempt' = 1 /\ work' = Remove(content, {k}) /\ pc' = "u_savepoint"
      <4>1. Remains(work)
        BY <1>0, <2>1 DEF Sees
      <4>2. work' = Remove(content, {k})
        BY <3>4, <4>1, InTransaction
      <4> QED
        BY <3>2, <3>4, <4>2 DEF GoTo
    <3>6. k' = k /\ Remove(content, {k})' = Remove(content, {k})
      BY <2>1 DEF k, Remove
    <3> QED
      BY <3>4, <3>5, <3>6 DEF ResolvedSoFar, RestrictedSteps, k
  <2>3. pc' # "idle"
    BY <1>10 DEF DeleteConflict, GoTo
  <2> QED
    BY <1>3, <2>1, <2>2, <2>3
<1>11. CASE ReturnUnrestricted
  BY <1>3, <1>11 DEF ReturnUnrestricted, Rollback, GoTo, ResolvedSoFar, Remove,
                     RestrictedSteps
<1>12. CASE AcquireConn
  BY <1>3, <1>12 DEF AcquireConn, ResolvedSoFar, Remove, RestrictedSteps
<1>13. CASE SetTenant
  BY <1>3, <1>13 DEF SetTenant, GoTo, ResolvedSoFar, Remove, RestrictedSteps
<1>14. CASE BeginAsTenant
  <2>1. query \in Query /\ content \in Content
    BY <1>0, <1>14 DEF BeginAsTenant, Control, TypeOK
  <2>2. ASSUME NEW c, OneAt(c), ResolvedSoFar(query.rows[c].key)
        PROVE  ResolvedSoFar(query.rows[c].key)'
    <3>1. known = query.rows[c].key
      BY <1>14, <2>2 DEF BeginAsTenant, ResolvedSoFar, RestrictedSteps
    <3>2. query.rows[c].key # NoKey
      BY <2>1, <2>2, CollidingRow, DifferAssumption
    <3>3. IsWrite
      BY <2>2 DEF OneAt, OwnInsert, IsWrite
    <3>4. pc' = "r_delete" /\ work' = content /\ UNCHANGED <<content, query, known>>
      BY <1>14, <3>1, <3>2, <3>3 DEF BeginAsTenant, GoTo
    <3> QED
      BY <3>1, <3>4 DEF ResolvedSoFar, RestrictedSteps
  <2> QED
    BY <1>1, <1>3, <1>14, <2>2 DEF BeginAsTenant
<1>15. CASE DeleteKnownConflict
  <2>1. /\ query \in Query /\ content \in Content
        /\ Rows = work
        /\ setting[conn] = query.claim
        /\ pc = "r_delete" /\ UNCHANGED <<content, query, known>>
    BY <1>0, <1>15, InTransaction DEF DeleteKnownConflict, Control, Sees, Bound, TypeOK
  <2>2. ASSUME NEW c, OneAt(c), ResolvedSoFar(query.rows[c].key)
        PROVE  ResolvedSoFar(query.rows[c].key)'
    <3> DEFINE k == query.rows[c].key
    <3>1. k \in Keys /\ content[k] = query.claim /\ content[k] # NoRow
      BY <2>1, <2>2, CollidingRow
    <3>2. known = k /\ work = content
      BY <2>1, <2>2 DEF ResolvedSoFar, RestrictedSteps
    <3> HIDE DEF k
    <3>3. known \in Visible(Rows, setting[conn])
      BY <2>1, <3>1, <3>2 DEF Visible, Admits
    <3>4. pc' = "r_exec" /\ work' = Remove(content, {k})
      <4>1. Remains(work)
        BY <1>0, <2>1 DEF Sees
      <4> QED
        BY <1>15, <2>1, <3>2, <3>3, <4>1, InTransaction DEF DeleteKnownConflict, GoTo
    <3>5. k' = k /\ Remove(content, {k})' = Remove(content, {k}) /\ known' = k
      BY <2>1, <3>2 DEF k, Remove
    <3> QED
      BY <3>4, <3>5 DEF ResolvedSoFar, RestrictedSteps, k
  <2>3. pc' # "idle"
    BY <1>15 DEF DeleteKnownConflict, GoTo
  <2> QED
    BY <1>3, <2>1, <2>2, <2>3
<1>16. CASE ExecRestricted
  <2>1. /\ query \in Query /\ content \in Content
        /\ Rows = work
        /\ setting[conn] = query.claim
        /\ pc = "r_exec" /\ pc' = "r_return" /\ UNCHANGED <<content, query, known>>
    BY <1>0, <1>16, InTransaction DEF ExecRestricted, GoTo, Control, Sees, Bound, TypeOK
  <2>2. ASSUME NEW c, OneAt(c), ResolvedSoFar(query.rows[c].key)
        PROVE  ResolvedSoFar(query.rows[c].key)'
    <3> DEFINE k == query.rows[c].key
    <3>1. Outcome(Remove(content, {k}), query.claim).err = "none"
      BY <2>1, <2>2, CollidingOutcome
    <3>2. known = k /\ work = Remove(content, {k})
      BY <2>1, <2>2 DEF ResolvedSoFar, RestrictedSteps
    <3>3. failure' = "none"
      BY <1>16, <2>1, <3>1, <3>2 DEF ExecRestricted
    <3>4. known' = k'
      BY <2>1, <3>2
    <3> HIDE DEF k
    <3> QED
      BY <2>1, <3>3, <3>4 DEF ResolvedSoFar, RestrictedSteps, k
  <2> QED
    BY <1>3, <2>1, <2>2
<1>17. CASE DatabaseError
  BY <1>3, <1>17 DEF DatabaseError, GoTo, ResolvedSoFar, RestrictedSteps
<1>18. CASE ReturnRestricted \/ GiveUp
  <2>1. pc' = "idle"
    BY <1>18 DEF ReturnRestricted, CompareWrites, CompareReads, GiveUp, Finish
  <2> QED
    BY <1>1, <2>1
<1> QED
  BY <1>1, <1>2, <1>4, <1>5, <1>6, <1>7, <1>8, <1>9, <1>10, <1>11, <1>12, <1>13,
     <1>14, <1>15, <1>16, <1>17, <1>18 DEF Next, Call

\* The replay of an INSERT with one collision does not end before both legs
\* have run, and then in SAFE.
LEMMA StepResolves ==
    ASSUME MaxConflictRetries > 1, DifferInv, Resolving, OneCollisionResolves,
           [Next]_vars
    PROVE  OneCollisionResolves'
<1>0. TypeOK /\ Control /\ Sees
  BY DEF DifferInv
<1>1. CASE ~Judged'
  BY <1>1 DEF OneCollisionResolves
<1>2. CASE UNCHANGED vars
  BY <1>2 DEF vars, OneCollisionResolves, Judged, OwnInsert, Written, Collisions
<1>3. ASSUME NEW q \in Queries, Start(q)
      PROVE  ~Judged'
  BY <1>3 DEF Start, Finish, Judged, IsReplayable
<1>4. CASE pc' # "idle"
  BY <1>1, <1>4 DEF Judged
<1>5. CASE GiveUp
  <2>1. query \in Query /\ content \in Content /\ pc = "give_up" /\ faulted' = faulted
        /\ UNCHANGED <<content, query>>
    BY <1>0, <1>5 DEF GiveUp, Rollback, Control, TypeOK
  <2>2. SUFFICES ASSUME OwnInsert, Cardinality(Collisions) = 1
                 PROVE  ~Judged'
    BY <1>1, <2>1 DEF OneCollisionResolves, OwnInsert, Written, Collisions
  <2>3. PICK c : OneAt(c)
    BY <2>1, <2>2, OneIsSome
  <2>4. faulted
    BY <2>1, <2>3 DEF Resolving, ResolvedSoFar
  <2> QED
    BY <2>1, <2>4 DEF Judged
<1>6. CASE ReturnRestricted
  <2>1. query \in Query /\ content \in Content /\ pc = "r_return"
        /\ UNCHANGED <<content, query>>
    BY <1>0, <1>6 DEF ReturnRestricted, Rollback, Control, TypeOK
  <2>2. SUFFICES ASSUME OwnInsert, Cardinality(Collisions) = 1
                 PROVE  verdict' = "SAFE"
    BY <2>1 DEF OneCollisionResolves, OwnInsert, Written, Collisions
  <2>3. PICK c : OneAt(c)
    BY <2>1, <2>2, OneIsSome
  <2>4. failure = "none"
    BY <2>1, <2>3 DEF Resolving, ResolvedSoFar
  <2>5. IsWrite
    BY <2>2 DEF OwnInsert, IsWrite
  <2> QED
    BY <1>6, <2>4, <2>5 DEF ReturnRestricted, CompareWrites, Finish
<1>7. CASE DatabaseError \/ Begin \/ QueryUnrestricted \/ Savepoint \/ ExecUnrestricted
           \/ RollbackToSavepoint \/ DeleteConflict \/ ReturnUnrestricted
           \/ AcquireConn \/ SetTenant \/ BeginAsTenant \/ DeleteKnownConflict
           \/ ExecRestricted
  <2>1. pc' # "idle"
    BY <1>7 DEF DatabaseError, Begin, QueryUnrestricted, Savepoint, ExecUnrestricted,
                RollbackToSavepoint, DeleteConflict, ReturnUnrestricted, AcquireConn,
                SetTenant, BeginAsTenant, DeleteKnownConflict, ExecRestricted, GoTo
  <2> QED
    BY <1>4, <2>1
<1> QED
  BY <1>1, <1>2, <1>3, <1>5, <1>6, <1>7 DEF Next, Call

\* The claimed tenant's INSERT that collides with the one row it left behind
\* when it was captured is SAFE, given a second attempt: the collision found by
\* the first leg is resolved in both, whatever its other rows and whatever was
\* replayed before.
THEOREM OwnCollisionsResolve ==
    MaxConflictRetries > 1 => (Spec => []OneCollisionResolves)
<1> SUFFICES ASSUME MaxConflictRetries > 1
             PROVE  Spec => []OneCollisionResolves
  OBVIOUS
<1>1. Init => Resolving /\ OneCollisionResolves
  BY DEF Init, Resolving, OneCollisionResolves, Judged
<1>2. DifferInv /\ Resolving /\ OneCollisionResolves /\ [Next]_vars
        => Resolving' /\ OneCollisionResolves'
  BY StepResolving, StepResolves
<1> QED
  BY <1>1, <1>2, Inductive, PTL DEF Spec
=============================================================================
