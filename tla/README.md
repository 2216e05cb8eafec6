# TenantGuard in TLA+

TenantGuard asks whether an application keeps its tenants apart. It captures
the SQL an application sends to PostgreSQL, builds a copy of the database with
row-level security on every tenant-scoped table, proves on that copy that the
security works, and re-executes every captured query twice: as the superuser
and as a role bound to the tenant the query claims to act for. Where the two
differ the query is a `LEAK`; where they agree it is `SAFE`; where nothing can
be concluded it is `UNATTRIBUTABLE`.

The whole program is an argument that a verdict can be relied on. This
directory states that argument: what the captured trace means, when the oracle
may judge, and what a verdict says. Beside it the guardrail checks queries
before an application runs them, by what their text says of the tenant; the
audit reads the same text, so the two are modelled together.

## The system

| Component | Code | State | Operations | Talks to |
|---|---|---|---|---|
| Capture session | `internal/capture/session.go`, `protocol.go`, `oid.go` | per connection: open statements, queue of unanswered `Describe`s, parameter and column types per statement | one handler per frontend and backend message | fed by the proxy; its events go to the recorder |
| Wire framing | `protocol.go` (`framer`) | bytes of an incomplete message | `push`, `next` | between socket and session |
| Capture proxy | `internal/capture/proxy.go` | per connection: two goroutines and their chunks, two sockets | dial, start-up, forward, feed, emit, tear down | client, server, session, recorder |
| Recorder, decoder | `recorder.go`, `decoder.go` | a JSON-lines file | `Emit`, `Decode` | proxy; the audit command reads the file back |
| Tenant attribution | `internal/differ/extract.go` | none | `ExtractTenant` | differ |
| Differ | `internal/differ/differ.go` | open transaction, savepoint, pooled connections with a session tenant | `Diff`: an unrestricted and a restricted leg | the probe database |
| Oracle | `internal/oracle/oracle.go`, `probe.go` | the probe database, the restricted role, canary rows, policies, proof state | create, seed, grant, enable, checks A1 to A4, drop | the target server |
| Verify and audit commands | `cmd/tenantguard/*.go`, `differ/population.go` | verdicts, counts, exit status | gate, replay, report, ceiling | oracle, differ |
| Guardrail (Tier 2) | `internal/guardrail`, `differ/tier2.go` | the policy it was given | `Wrap`; `QueryContext`, `ExecContext`, `QueryRowContext` and `Row.Scan`, each with a `check` by `CheckTenant` first | the application's database |
| Schema inference | `internal/schema/schema.go` | none | `Infer`, `Classify` | policy file, which an operator reviews |
| Triage (Tier 0) | `internal/triage/triage.go` | none | text scan | report |

What is hard about it:

* **Two goroutines, one session, nobody in charge of the order.** The proxy
  forwards a chunk *before* the session sees it, and each direction has its own
  goroutine. A reply names no statement: who it belongs to follows from the
  order of messages alone.
* **A server that says no.** The session learns of a `Parse` or a `Describe`
  when it is sent, not when it is accepted.
* **Transactions under failure.** Replay must not write, whichever of its
  database calls fails; a collision with the row the captured `INSERT` left
  behind is resolved in each leg by a deletion that only a rollback to a
  savepoint makes possible.
* **Connections that remember.** The session tenant outlives a transaction on
  a pooled connection.
* **A gate with a dozen failure points** that has to clean up on all of them,
  and to say which of its checks failed.
* **Two depths of proof.** Relations that could not be seeded have policies
  nobody has proven.
* **Bytes, not messages.** The network cuts the stream anywhere, and a length
  that cannot be right moves the header of everything after it.
* **A policy that ages.** What Tier 2 knows of the database is what it was when
  the policy was inferred; a statement's text says less than the statement
  does; unknown must mean denied.

## Modules

| Module | Models | State and actions |
|---|---|---|
| `MessageStream` | what the framer promises: the messages of a stream read in one piece | `Take` a message, `Skip` a byte that begins none |
| `Framer` | `framer` in the loop of `FeedFrontend` and `FeedBackend` | `buf` is `framer.buf`; `Push` is a read of any size, `Deliver`, `DropByte` and `NeedMore` are the outcomes of `next` |
| `FramerProofs` | theorems about `Framer` | |
| `Session` | the session's message handlers | a variable per field of `Session`; one action per message type, `HandleParse` to `HandleRowDesc`; `event` is what the handler returned |
| `SessionHistory` | a session fed any interleaving of both streams | adds what was handled (`log`), asked (`asked`) and attributed (`captured`) |
| `CaptureLemmas`, `SessionProofs` | what the handlers keep, induction, parts of a stream; theorems about `SessionHistory` | |
| `CaptureProxy` | one proxied connection; EXTENDS `Session` | `phase` is `Proxy.handle`'s; `pc`, `chunk`, `outbox` belong to each goroutine; `mu` is `Session.mu`; `wire` and `inbox` are the sockets. `Read`, `Write`, `Feed`, `Emit` are the loop of one goroutine; `Return` is `handle` returning after the first ends; `Record` is `Recorder.Emit` with a disk that may fill, `Startup` emits too; `Killed` is the signal that ends the capture command |
| `TraceContract` | what a capture promises of the Binds of one connection | `Run` and `Refuse` of the server, `See` of the session, `Write` of the file, `End` of either |
| `ProxyProofs`, `TraceProofs` | theorems about `CaptureProxy`: types; what the trace says of what the server did | |
| `Trace` | a parameter through `Recorder.Emit` and `DecodeEvents` | operators `CapturedParam`, `EmitParam`, `DecodeParam` |
| `DifferContract` | what `Diff` promises: one step from question to answer, and the verdict a function of the query and the rows | `Ask`, `Refuse`, `GiveUp`, `Answer`, `AnswerRead` |
| `Differ` | `Diff` | one action per database call of either leg: `Begin`, `Savepoint`, `ExecUnrestricted`, ... , `SetTenant`, `ExecRestricted`; `ReturnUnrestricted` and `ReturnRestricted` are a leg returning with its deferred `Rollback`, `DatabaseError` is any call failing and `GiveUp` the return after it; `work` is what the open transaction holds, and a statement without one changes `content` for good |
| `OracleGate` | `runOracleGate` and the oracle functions it calls | one action per call, `pc` says which is next; `Return` starts the deferred clean-up (`DropRole`, `DropProbe`); `Interrupted` is a signal |
| `GateCommand` | `runGateCommand`; EXTENDS `OracleGate` | adds `Replay`, the report and the exit status |
| `SchemaInference` | `Infer` and `Classify` | operators; a relation is its kind and columns |
| `Attribution` | `ExtractTenant` and `CheckTenant` | operators over what the regular expressions find in a statement |
| `Guardrail` | an application behind `Wrap`; EXTENDS `Attribution`, `SchemaInference`, `Trace` | `InferPolicy`, `Review`, `Wrap` once; then each query is `Call`, `Check`, `Run` or not, `Return`, while `Migrate` changes the database |
| `DifferProofs`, `GateProofs`, `GuardrailProofs` | theorems about `Differ`, `GateCommand` and `Guardrail` | |
| `MC*` | instances for TLC | |

`CaptureProxy` composes the session with two goroutines, a client and a server;
`GateCommand` composes the gate with the replay of queries. What a replay of one
query does is `Differ`; `GateCommand` only takes its result, one of the
verdicts `Diff` can return for a query given the relations it names. `Framer`
hands `Session` its messages, one instance of it per direction. `Guardrail`
composes schema inference, attribution and the check of every query with a
database that changes, and compares what it reads of a call with what the
audit would read of the same call in a trace.

Three modules state what a component promises and are implemented by the one
that models its code: `Framer` implements `MessageStream`
(`CutsMakeNoDifference`), `CaptureProxy` implements `TraceContract`
(`KeepsItsContract`), `Differ` implements `DifferContract` (`MeetsContract`). The
refinements are checked and proved.

Definitions marked `Faulty` are variants of the one that follows them, with a
bug such code could have. Nothing uses them; they show that the properties
notice.

### What is abstracted

* SQL text is opaque in `Session` and `CaptureProxy`; in `Differ` a query is
  one statement: what it does to a table of rows (the rows it matches, or inserts), and what a
  `SELECT` answers is a function of the rows it reads, to a set of results where
  it may answer differently each time; in `GateCommand` it is the relations it names.
* In `OracleGate` the target's own policies are the rows the permissive ones show
  and the rows the restrictive ones hide: any two sets of rows, but the same for every
  session, since they were written without knowing `tenantguard.tenant`.
* A parameter's bytes are known by the type they were encoded as. `Decodes`
  says which types read them: a payload of one type read as another of the
  same width gives a wrong value and no error, which is what the properties
  about guessed types need.
* In `CaptureProxy` a chunk is a sequence of whole messages: by `Framer` a split
  message is handled with the chunk that completes it, and where chunks are cut
  makes no other difference.
* In `Attribution` a statement is what the regular expressions find in it: names
  after `FROM` and `JOIN`, aliases, names `WITH` declares, comparisons, and the
  lists of an `INSERT`. Beside its text a statement of `Guardrail` has what it
  *does* read, which the text need not show; views and functions read further
  relations, which only the database knows.
* In `Trace` a payload is the text PostgreSQL would show its value as; that JSON
  replaces bytes that are no UTF-8 is `Utf8`, and that Go prints some arguments
  in its own way is `GoText`.
* The external parts follow from how the code relies on them: PostgreSQL's
  extended-query protocol (an error skips to `Sync`; a name in use is
  rejected; a simple query drops the unnamed statement), row-level security
  (`SELECT`, `UPDATE` and `DELETE` see admitted rows, a written row must be
  admitted; permissive policies are joined by OR, restrictive ones by AND), transactions and savepoints, `DROP ROLE`
  refused while the role holds privileges in a database. The client may send
  anything its script allows, at any time.

## Runs

| Run | Question | Bounds |
|---|---|---|
| `framing` | Are the messages those of the stream, wherever reads cut it? | streams of up to 4 messages with bodies of 0 to 2 bytes, cut off or with a malformed length, reads of any size |
| `session` | Does what a session resolves, attributes and decodes follow from the messages it handled? | any 5 of 17 messages over a named and the unnamed statement |
| `proxy` | Does the trace show what ran, through two goroutines? | three clients of 6, 4 and 8 messages, chunks of up to 2 |
| `proxy_teardown` | Do both goroutines end when a peer leaves, is what ran recorded otherwise, and what does a full disk or a stopped capture leave? | three clients of 2 to 4 messages, one refused; either or both peers leave, writing fails from any event on, the capture is stopped, at any time |
| `differ` | What do `SAFE` and `LEAK` mean, and is anything written? | two queries in a row of 15 statements under 4 claims, 16 table contents, 2 connections, any call failing |
| `gate` | Who may judge, what is reported, what is left behind? | two relations of 12 kinds, empty or with rows, with policies of the target that show or hide all rows, another tenant's or one canary's, four policy files, up to 3 queries of any verdict, any call failing, an interrupt anywhere |
| `guardrail` | What has a query read that was let through, and does the audit read the same tenant in it? | 24 statements, 7 argument lists, 16 databases of up to 4 relations, two of one name, any review, one of 8 migrations at any moment |
| `proxy_race`, `proxy_parse_twice`, `differ_writes`, `gate_role`, `gate_join` | one documented claim each that the code does not meet (below) | the smallest instance that shows it |

Why the bounds are enough:

* `framing`: what the framer does depends on its buffer alone, so a message
  before, at and after a cut, with a body that looks like a length, shows every
  outcome; two malformed lengths differ in how far they move the next header.
* `session`: the longest argument its properties make is a `Parse`, a
  `Describe`, its answer, another `Parse` or `Close`, and a `Bind`: five
  messages. Two statements are needed to confuse one with another.
* `proxy`: two statements whose types have the same arity and width, so only
  the order of replies tells them apart; four messages of describing and
  binding in any order after the two `Parse`s let one description be answered
  early and another late. Chunks of two let a `Describe` and the `Bind` that
  depends on it travel together.
* `differ`: two keys are needed for a query that reaches both tenants' rows and
  for an `INSERT` that collides with one row and not the other; two queries in
  a row and two connections for a tenant left behind on a connection.
* `guardrail`: a relation that is read by itself, one joined to it, one of the
  same name, and one that reads another; one migration, since the policy is
  never read again: more of them only change how the two differ.
* `gate`: two relations are needed for one that passes to follow one that
  fails; three queries for a rate above, at and below the ceiling of 1/3. Of a
  relation two rows matter, one a policy treats apart and one it does not, and either canary's.

### Properties

Framing:

* `BufferIsUnread`: the buffer is exactly the bytes read and not passed.
* `WaitsOnlyIfMalformed`: a whole message waits for another read only after a
  malformed length, where `next` reports what it reports when bytes are missing.
* `CutsMakeNoDifference` (refinement): the messages are those of the stream.
* `EveryMessageArrives` (liveness): a well-formed stream is handled to its end.

Session and proxy:

* `BindNamesOpenStatement`: a `Bind` resolves to the SQL of the latest `Parse`
  of its name, unless closed since.
* `AnsweredInOrder`: the names asked for are those answered, in order, followed
  by the queue.
* `DecodedOnlyAsDescribed`: a binary parameter is decoded with the latest
  description attributed to its statement, and only if that has one type for
  each parameter.
* `MisattributionIsPreceded`: a description is given to the wrong statement
  only after one was reported unattributable or a `Describe` went unanswered.
* `NeverGuessedInOrder`: a parameter shown as decoded has the type it has in the SQL
  shown beside it, *provided* no name was parsed with a second SQL text, every
  `Describe` was answered and every description found its `Describe`. Each
  premise is needed, see below.
* `RecordedIsWhatRanUnlessRefused`: the SQL shown for a `Bind` is what the
  server ran, as long as it refused nothing.
* `TraceHasNoHoles`: the Binds in the trace are the first the server processed,
  in order, also when writing it fails on the way or the capture is stopped.
* `OneChunkIsLost`: as long as the trace can be written, a `Bind` the server
  processed is in it or with the client's goroutine, which holds one chunk:
  however the capture ends, no more than that is missing.
* `KeepsItsContract`: all of this step by step, as module `TraceContract` has it.
  Server, session and file tell of the same `Bind`s in one order, whichever is ahead;
  none ever changes what it has told; the file grows by the next `Bind` seen, is at
  most a chunk behind, and is not touched after a failed write.
* `BindsAreRecorded`, `GoroutinesEnd` (liveness).

Differ:

* `LeakIsForeign`: what is called a `LEAK` reaches a row of a tenant it does not
  claim; *provided* a `SELECT` repeats itself (`IsStable`).
* `SafeIsOwn`: a `SAFE` `INSERT`, or read whose result shows which rows were read
  (`ShowsItsRows`), touches rows of the claimed tenant only.
* `SafeAnswerIsOwn`: any `SAFE` read, an aggregate or a `LIMIT` too, has a result
  that the claimed tenant's rows alone give. This is what comparing results can
  show: the query may well have reached other rows.

* `NothingIsWritten` (action property): the probe stays as it was, and nothing is
  left open when `Diff` returns: every statement of either leg, the deletion of a
  colliding row included, runs in a transaction, and no leg returns before its rollback.

Both premises are needed. The others are `JudgedOnEvidence`,
`OneCollisionResolves`, the refinement `MeetsContract` and the liveness property
`EveryQueryIsJudged`. Whose tenant the restricted leg is bound to has no property of
its own: a leg under another setting breaks `SafeIsOwn`, `LeakIsForeign` and the contract. The contract says
in one place what the invariants say of one verdict each: the calls,
transactions and connections it took make no difference.

Guardrail:

* `TenantedRowsAreClaimed`: a query that ran has read no tenant's rows, through
  views and functions included, unless it names the tenant of its context;
  *provided* the text shows the relations it accesses (`InPlainSight`), the policy
  knows no other relation by their names (`Unshadowed`), and those it accesses are as they were
  inferred or unknown to the policy (`UpToDate`).
* `NoOtherTenantIsNamed`: it gives no tenant column another tenant, wherever in
  a join the comparison is, provided it says its tenant once (`SaysOnce`).
* `TiersAgree`: what a replay from a trace makes of the query, beside what the
  guardrail read out of it; provided Go prints its arguments as PostgreSQL does and
  JSON keeps them. The audit gives `ExtractTenant` only the relations it has proven
  at row level (`main.go:537`), so this is said for *every* subset of the scoped ones.
  If it has all those the query mentions, the two agree, but for a parameter that
  could not be decoded. If it lacks some, a query that names no other is
  `UNATTRIBUTABLE` where the guardrail reads its tenant, and one that names others is read by
  those; of a query that inserts plainly (`InsertsPlainly`) it is still never
  attributed to another tenant than the guardrail read.
* `TraceKeepsWhatIsKnown`: a trace keeps what was known of a parameter and makes
  nothing known that was not.

Each premise is needed: TLC finds a query that breaks the conclusion when one is
dropped. They are the boundary of what the tier can promise.

Gate and command:

* `JudgedByASoundOracle`: while a query is judged, no relation it can be attributed to
  shows a tenant another tenant's row, whichever policies the target came with,
  canary A's own row aside. What a tenant misses of its *own* rows a
  restrictive policy of the target hides. A4 compares what canary A sees, so a policy
  that hides canary A's row is noticed, and one that hides others, archived rows
  say, is not: then a query over such rows differs between the legs.
* `AbortsSayWhy`: an exit code of 10 to 13 names a check that failed while the ones
  before it passed, and nothing was replayed or reported.
* `RateFails`: a written report ends in 3 exactly when the share left unattributed
  exceeds the ceiling, counted over the verdicts themselves; an equal share passes,
  and a `LEAK` makes no difference.
* `ProbeIsDropped`, `ReportAddsUp`.

### Fairness

`CaptureProxy`, `Framer` and `Differ` have liveness properties. In `CaptureProxy`
weakly fair are: each goroutine (the Go scheduler runs what can run, and a mutex
that is released is handed on), `Return` (`handle` waits on a channel both
goroutines send on) and the server (it reads its input). Nothing makes a client
send, or a peer leave. A goroutine whose peer keeps a connection open and silent
blocks in `Read` for ever, as in the code, where no deadline is set; so
`BindsAreRecorded` allows the connection to be torn down, and `GoroutinesEnd`
starts from a peer leaving. A full disk is never noticed and a signal is not handled
(`main.go:180`), so the first also allows a trace that cannot be written, and both
a capture that was stopped.

`Framer`'s `FairSpec` is about one goroutine: bytes the peer has sent are read, and
the loop over `next` runs on. `Differ`'s is that a database call which was made
returns, with a result or an error: the code sets no timeout, so a server that
never answers holds the replay for ever, and `EveryQueryIsJudged` is about the
retries the code itself makes. No query has to be asked.

Deadlock checking is off where the model stops because a script or a bound
ends, or the process exits.

## Where the code departs from what it says

Each is a run that TLC refutes, and quotes the claim in `PROJECT.json`.

* `proxy_race`: the client's chunk is written before it is fed
  (`proxy.go:105`), so a description can be fed before its `Describe`. From
  then on each description goes to the statement before, and a binary
  parameter is decoded with another's type.
* `proxy_parse_twice`: a rejected `Parse` replaces the SQL kept for the open
  statement (`session.go:209`).
* `differ_writes`: an `UPDATE` or `DELETE` is `SAFE` whenever the restricted
  leg succeeds, even if it affects other rows (`differ.go:746`).
* `gate_role`: the restricted role is dropped before the probe database, where
  it still has privileges; the refusal is ignored (`oracle_gate.go:183`).
* `gate_join`: a query that names a row-level and a structural-only relation is
  judged (`oracle_gate.go:314`).

Met on the way and stated here only: a check that RLS is no more restrictive than the
tenant predicate looks at canary A alone (`oracle_gate.go:250`), so a target whose
restrictive policies hide other rows is accepted, where the comment has too restrictive
as a divergence too (`oracle.go:362`); a `Describe` the server rejects stays
queued (`session.go:242`) and shifts the answers as in `proxy_race`, hence the
premise *every `Describe` was answered* of `NeverGuessedInOrder`; the exit status
does not depend on verdicts (`main.go:651`), where the SRS has 1 for a `LEAK`; types captured for a statement survive a
new `Parse` of its name (`session.go:209`; hence the premise `OneSQLPerName`); every
`RowDescription` is recorded under the statement described last, also that of
a simple query (`session.go:147`); a read that calls the clock or a random function is a `LEAK` when its two
executions differ (`differ.go:109`), and a `count(*)` over no rows returns one row, so it is
not vacuous although neither leg matched any (`differ.go:124`, where line 41 says
matched); of two collisions the restricted leg
resolves the last only (`differ.go:393`, hence *one* in `OneCollisionResolves`);
without a tenant the session tenant is the empty string, which admits rows of
the empty tenant, where the comment says unset (`differ.go:175`); an
interrupted process leaves the probe behind, which the SRS excludes
(`oracle_gate.go:140`); the exit codes 4 and 5 of the SRS are not implemented; a failed write of the
trace is dropped and nothing more is written (`recorder.go:75`), so a trace may
end early with no sign of it.

Of attribution and the guardrail: a comparison is found by the end of its
column's name, so `old_tenant_id = $1` counts as one of `tenant_id`
(`extract.go:116`); of a multi-row `INSERT` the first row is read
(`extract.go:387`); a name that `WITH` declares is not looked up even where it is
the relation it reads (`tier2.go:206`), and tables after a comma are not found
(`extract.go:134`); of two relations of one name the last is looked up
(`tier2.go:138`) and an `INSERT` is read by the first; the policy is not read
again after a migration (`wrap.go:79`); Go prints byte slices and times in its
own way (`wrap.go:182`), JSON replaces what is no UTF-8 (`recorder.go:75`); and a
comparison with a null or empty parameter is refused as `ErrUnscopedQuery`, as if
there were none (`wrap.go:101`). The code calls the text scan a heuristic (`guardrail.go:53`),
so none of these contradicts it; they are the premises above.

## Proofs

Checked by TLAPS, for every value of the constants that satisfies the named
assumptions of the module. TLC evaluates the assumptions in each run.

| Module | Theorems |
|---|---|
| `SessionProofs` | `TypeCorrect`, `AnswersAreInOrder`, `BindsResolveToOpenStatements`, `DecodedMeansDescribed` |
| `FramerProofs` | `FramerTypeCorrect`, `NothingIsLost`, `WaitingMeansMalformed`, `CutsDoNotMatter` |
| `ProxyProofs` | `ProxyTypeCorrect` |
| `TraceProofs` | `DescriptionsFindTheirDescribe`, `ParametersNeverGuessed`, `RecordedIsWhatRanHolds`, `TraceFileHasNoHoles`, `OnlyOneChunkIsLost`, `CaptureMeetsContract` |
| `DifferProofs` | `DiffMeetsContract`, `ReplayWritesNothing`, `DifferTypeCorrect`, `VerdictsHaveEvidence`, `LeaksAreReal`, `SafeReadsAreOwn`, `SafeAnswersAreOwn`, `OwnCollisionsResolve` |
| `GateProofs` | `GateTypeCorrect`, `OracleIsSound`, `CodesAreTrue`, `ProbeGoesAway`, `ReportIsComplete`, `RateDecides` |
| `GuardrailProofs` | `GuardrailTypeCorrect`, `ReadsAreClaimed`, `NamesItsTenant`, `AuditAgrees`, `TraceIsFaithful` |

* **Session.** `AnsweredInOrder` relates the queue of outstanding names to the
  names asked for and attributed so far. Together with the type invariant it is
  inductive: a `Describe` appends to both sides, a description moves the head
  of the queue to the end of the attributed names, nothing else touches them.
  The properties of a `Bind` speak of the whole history and the session keeps only
  maps: `KeptInv` says that they are what the history says last (`OpenAsLogged`,
  `TypedAsCaptured`), and that the event at hand was read from them
  (`BoundAsKept`).
* **Proxy.** `ProxyInv` is the type invariant, with the direction of whatever is
  on its way (`InTransitOK`) and which goroutine holds a chunk (`HoldsAChunk`).
* **Trace.** The other five safety properties of `CaptureProxy` compare the trace
  with what the server did, over two goroutines, two sockets and the server,
  and none is inductive. Their common invariant is `StreamInv`: there are a stream
  `S` of client messages and a stream `R` of replies, and everyone is somewhere in
  them. Of `S`, `f` messages were fed to the session, `p` processed by the server,
  `w` written to it and `r` read; sockets and chunks hold the parts in between
  (`FrontAt`, `BackAt`). What can be known after `i` messages is a function of `S`, the
  `Moment` `h[i]`: statements as the session and as the server must see them, SQL
  texts run and shown, and each `Describe` with the texts its name had by then.
  The session is at `h[f]` (`SessionAt`), the server at `h[p]` if it refused nothing
  (`ServerAt`), the replies answer the `Describe`s of `h[p]` in order (`AnsweredAt`), and the
  `Describe`s outstanding in the session are those of `h[f]` less the answers it was fed
  (`PendingAt`). `f` and `p` differ either way, for a chunk is written before it is fed;
  but moments only grow along a stream (`Grows`), so what is known at both is the
  same. Streams, moments and positions are bound in the invariant, not added to
  the model as history variables. `WrittenOK` relates the file to what was
  recorded, and `BindsOf` counts the `Bind`s between two positions, for
  `OneChunkIsLost`: a chunk holds at most `MaxChunk` of them. `BindsIn` is a recursive
  function, of which the library says nothing; its facts follow from the least
  index that would break them (`HasLeast`). For `KeepsItsContract` one fact is added,
  `ChunkFits`: a goroutine's messages and events are never more than it read at once. A
  step of the server is then `Run` or `Refuse`, because `SeenAgrees` holds after it; `Feed`
  is `See`; `Emit` is `Write`, because while the encoder works the `Bind`s fed are those
  in the file followed by those in the outbox (`FileAndOutbox`); a failed write and
  a signal are `End`; every other step is a stutter.
* **Framer.** `FramerInv` is the type invariant, `BufferIsUnread` and
  `WaitsOnlyIfMalformed`, and is inductive: every action takes bytes off the
  front of the buffer or appends those that follow in the stream
  (`CutKeepsUnread`). By `BufferIsUnread` the header in the buffer is the one in
  the stream (`SameHeader`), so `Deliver` is `Take` and `DropByte` is `Skip`, and a
  push or a need for more is a stutter.
* **Differ.** None of the verdict properties is inductive: at the moment of a
  verdict the rows are gone, in a transaction that was rolled back. `DifferInv`
  adds `Control` (which step follows which, in a transaction or not), `Bound` (from
  `SetTenant` on the connection has the claimed tenant), `Sees` (what the open transaction holds: the committed content less the rows
  deleted to resolve a collision; what the unrestricted leg touched and read) and
  `Meaning` (the properties, of the verdict being given). A `LEAK` by another result
  then follows because the restricted leg read other rows than the unrestricted
  one, and row-level security withholds only foreign rows; a `LEAK` by
  rejection because a written row was not admitted (`Decided` has the same of a read's two
  results, whose rows are gone once the leg has returned). `ReplayWritesNothing` rests on
  `Sees` too: at every step that executes a statement a transaction is open (`InTransaction`),
  so `Store` leaves the committed content alone, and at `idle` none is. `LeastNatural` picks the
  first row of an `INSERT` that fails. For the contract two facts are added: what
  a superuser's leg can do it does (`SuperSucceeds`: no row is withheld from it),
  and an attempt that met no collision ran on the committed content
  (`Undisturbed`). The step that gives a verdict is then `Answer` or `AnswerRead`, with the
  verdict the contract computes; every other step is `Ask`, `Refuse`, `GiveUp` or a
  stutter. `OwnCollisionsResolve` has an invariant of its own, `Resolving`: what
  each step of both legs knows of the one colliding row on the way to its
  deletion and the second attempt. Its premise is `MaxConflictRetries > 1`: with
  one attempt the row is deleted and nothing is tried again. The code has three.
* **Gate.** `GateInv` adds `Lifecycle` (which of probe and role exist at which
  step), `Seeding` (a seeded relation holds a row of *each* canary, and
  row-level security is on everywhere before the first check), `Checked` (what
  a check that passed has looked at) and `Codes` (what an error code says).
  The step from A4 to soundness is the lemma `OneCanaryIsEnough`: A4 compares
  what canary A sees, so a row the target's permissive policies show and its restrictive
  ones do not hide is canary A's own, and none of its own is hidden. What any *other*
  tenant sees differs from its rows by no more than that row and what is hidden.
  `Sorted` says which verdicts are in the population that counts against the ceiling, and
  `ShareOfVerdicts` takes `RateFails` from the report's counts to the verdicts.
  `Reporting` is what the report needs
  beside it: it is of the state it was written in, its exit status of its rate,
  and every unattributable query has a population. That the counts add up is
  arithmetic of disjoint sets (`CountsAddUp`, `RatesAreNested`).
* **Guardrail.** `GuardrailInv` is the type invariant, with one entry of the policy
  per relation, `UnscopedAsInferred` (what the policy calls unscoped was a table
  without a tenant column when it was inferred; a review never changes that) and
  `LetThrough` (the policy has not changed since the check). A relation in plain
  sight of a query let through without a tenant is then in the policy as unscoped
  (`SeenIsUnscoped`), so it is a table, which reads nothing else, and the relations
  reached are those accessed. A query let through with a tenant has it from every
  comparison it makes (`ComparisonsAgree`). A tier that knows fewer relations makes fewer comparisons
  (`FewerRelations`, `FewerComparisons`), and one that knows all those a query
  mentions makes the same (`MentionedDecide`). An attribution depends on the texts of
  the parameters alone (`TextsDecide`), which the trace keeps (`ReadBackText`).

The constants range over any set of names, statements, types, tenants,
relations, rows and queries. What is assumed of them is little:
`SessionAssumption` and `HistoryAssumption` (the sets are what they are said to
be), `ProxyAssumption` (scripts are sequences of choices of client messages, bounds are numbers), `FramerAssumption` (streams are byte sequences), `DifferAssumption` (bounds are numbers, queries are queries, the absent row
is no row), `GuardrailAssumption` and those of the modules it extends (relations are
schema and name, a table reads no other relation, a statement has at most one
`INSERT`, columns are finitely many, JSON written twice is JSON written once), `GateAssumption` (the canaries are two values other than the
target's, and a policy file names a relation once), `CommandAssumption`.

Only model-checked: liveness (`BindsAreRecorded`, `GoroutinesEnd`, `EveryMessageArrives`,
`EveryQueryIsJudged`), which needs fairness and `ENABLED`, out of the prover's
reach. Every safety and action property of a passing run is a theorem.

## Not modelled

* `Serve`'s accept loop: it numbers connections, which share only the
  recorder, whose `Emit` is one locked step.
* The triage command, the capture command but for how it ends, and `infer`'s file:
  flags and files around one component. What `infer` puts into the file is `InferPolicy` of `Guardrail`.
* Triage: a scan of source files for SQL-like strings, sorted; it keeps no state
  and gives no verdict.
* How regular expressions and the small scanners find names, lists and casts in
  SQL text: `Attribution` starts from what they find.
* In `DecodeEvents`, a file that is no trace: it is refused as a whole.
* In `Differ`, a captured text of several statements (a simple query may bring its own
  `COMMIT`, which ends the transaction `Rollback` relies on), `INSERT ... SELECT`, triggers, sequences, and relations under policies
  of another kind than the oracle's. A join over scoped relations is a read whose
  answer depends on the rows it sees, which a statement's `answer` covers; in `OracleGate`, how a canary row
  is put together column by column (success, failure, or one row left behind), policies of the target that ask who the session is, and a wrongly declared tenant column.
  The checks read the same declared column the policies use, so no check can
  notice a wrong one; the model would only repeat that.
* Two error paths no input reaches: a leg that reports a conflict without a
  key, and the report layer's own refusal of verdicts without a proof (the
  guard in `Write` is its condition).

## Plan

Done, in this order: `Session`, `SessionHistory`, `CaptureProxy`, `Differ`,
`OracleGate`, `GateCommand`, `MessageStream` and `Framer`, `Trace`,
`SchemaInference`, `Attribution` and `Guardrail`, `DifferContract`, `TraceContract`, the recorder's
failing writes and a capture that is stopped, the results of reads in `Differ`, and
the proofs above.

Next: an abstract session that knows which statement each reply answers,
implemented by `SessionHistory` while every `Describe` is answered.
