----------------------------- MODULE CaptureProxy -----------------------------
(***************************************************************************)
(* One connection through the capturing proxy (internal/capture/proxy.go): *)
(* a client, a PostgreSQL server, and the two goroutines of Proxy.handle   *)
(* that forward a chunk first and feed it to the shared Session after.     *)
(*                                                                         *)
(* A chunk is what one Read returns: here a prefix, in whole messages, of  *)
(* what is on the wire (module Session's framer keeps the rest of a split  *)
(* message, so it is handled with the chunk that completes it).  The bytes *)
(* the client gets back are not kept; it may send anything at any time, as *)
(* a pipelining driver does.  The server is external: the extended-query   *)
(* protocol as session.go relies on it.                                    *)
(***************************************************************************)
EXTENDS Session, FiniteSetsExt

CONSTANTS
    Scripts,      \* clients: the messages one may send first, second, ...
    NoName,       \* the statement of a reply that describes none
    ParamTypes,   \* parameter types of each SQL text
    ColumnTypes,  \* column types of each SQL text, <<>> if it returns no rows
    BadSQLs,      \* SQL texts the server's parser rejects
    Leavers,      \* peers that may close their end
    DiskFills,    \* writing the trace may fail
    Killable,     \* the capture may be stopped while a connection is open
    MaxDeclines,  \* bound on SSL and GSS requests before the startup packet
    MaxChunk      \* bound on the messages of one Read

ASSUME ProxyAssumption ==
    /\ Scripts \subseteq Seq(SUBSET FrontMsg)
    /\ NoName \notin Names
    /\ ParamTypes \in [SQLs -> Seq(OIDs)]
    /\ ColumnTypes \in [SQLs -> Seq(OIDs)]
    /\ BadSQLs \subseteq SQLs
    /\ Leavers \subseteq {"client", "server"}
    /\ DiskFills \in BOOLEAN /\ Killable \in BOOLEAN
    /\ MaxDeclines \in Nat /\ MaxChunk \in Nat \ {0}

VARIABLES
    phase,       \* of Proxy.handle: dial, startup, running, returned; killed
                 \* if the process was
    declines,    \* encryption requests answered with 'N'
    pc,          \* of each goroutine: read, write, feed, emit, done
    chunk,       \* messages each goroutine holds
    outbox,      \* events each goroutine has yet to Emit
    mu,          \* Session.mu: its holder, or "free"
    recorded,    \* events the Sink got from each goroutine
    trace,       \* those of them that are in the trace file
    encoder,     \* the Recorder's JSON encoder, which keeps its first error
    wire,        \* sent to the proxy and not read: front from client, back from server
    inbox,       \* forwarded to the server and not processed
    gone,        \* peers that closed their end
    prepared,    \* the server's prepared statements
    skipping     \* the server ignores messages until Sync

\* What the properties remember of the run.
VARIABLES
    script,        \* the client of the run
    sent,          \* number of messages the client sent
    executed,      \* per Bind the server processed: its SQL, NoSQL if none ran
    parsedAs,      \* SQL texts each name was parsed with, as the session saw
    refused,       \* the server rejected or skipped a message
    unanswered,    \* a Describe('S') got no ParameterDescription
    unattributed,  \* a ParameterDescription found no outstanding Describe
    misattributed  \* a ParameterDescription was given to another statement

traceVars == <<recorded, trace, encoder>>
proxyVars == <<phase, declines, pc, chunk, outbox, mu, traceVars>>
netVars == <<wire, inbox, gone, script, sent>>
serverVars == <<prepared, skipping, executed, refused, unanswered>>
noteVars == <<parsedAs, unattributed, misattributed>>
vars == <<sessionVars, proxyVars, netVars, serverVars, noteVars>>

Dirs == {"front", "back"}
Peers == {"client", "server"}
\* Whom a goroutine reads from and whom it writes to.
Source(d) == IF d = "front" THEN "client" ELSE "server"
Sink(d) == IF d = "front" THEN "server" ELSE "client"

Init ==
    /\ NewSession
    /\ phase = "dial"
    /\ declines = 0
    /\ pc = [d \in Dirs |-> "read"]
    /\ chunk = [d \in Dirs |-> <<>>]
    /\ outbox = [d \in Dirs |-> <<>>]
    /\ mu = "free"
    /\ recorded = [d \in Dirs |-> <<>>]
    /\ trace = [d \in Dirs |-> <<>>]
    /\ encoder = "ok"
    /\ wire = [d \in Dirs |-> <<>>]
    /\ inbox = <<>>
    /\ gone = {}
    /\ prepared = [n \in Names |-> NoSQL]
    /\ skipping = FALSE
    /\ script \in Scripts
    /\ sent = 0
    /\ executed = <<>>
    /\ parsedAs = [n \in Names |-> {}]
    /\ refused = FALSE
    /\ unanswered = FALSE
    /\ unattributed = FALSE
    /\ misattributed = FALSE

-----------------------------------------------------------------------------
(* Connection set-up. *)

Dial ==
    /\ phase = "dial"
    /\ phase' \in {"startup", "returned"}
    /\ UNCHANGED <<declines, pc, chunk, outbox, mu, traceVars>>
    /\ UNCHANGED <<sessionVars, netVars, serverVars, noteVars>>

DeclineEncryption ==
    /\ phase = "startup"
    /\ declines < MaxDeclines
    /\ declines' = declines + 1
    /\ UNCHANGED <<phase, pc, chunk, outbox, mu, traceVars>>
    /\ UNCHANGED <<sessionVars, netVars, serverVars, noteVars>>

\* The startup packet is forwarded and recorded, which the disk may be too
\* full for; or reading or writing it fails.
Startup ==
    /\ phase = "startup"
    /\ phase' \in {"running", "returned"}
    /\ \/ UNCHANGED encoder
       \/ DiskFills /\ phase' = "running" /\ encoder' = "failed"
    /\ UNCHANGED <<declines, pc, chunk, outbox, mu, recorded, trace>>
    /\ UNCHANGED <<sessionVars, netVars, serverVars, noteVars>>

\* Faulty: it waits for both.
ReturnAfterBoth ==
    /\ phase = "running"
    /\ \A d \in Dirs : pc[d] = "done"
    /\ phase' = "returned"
    /\ UNCHANGED <<declines, pc, chunk, outbox, mu, traceVars>>
    /\ UNCHANGED <<sessionVars, netVars, serverVars, noteVars>>

\* handle waits for one goroutine, then closes both connections.
Return ==
    /\ phase = "running"
    /\ \E d \in Dirs : pc[d] = "done"
    /\ phase' = "returned"
    /\ UNCHANGED <<declines, pc, chunk, outbox, mu, traceVars>>
    /\ UNCHANGED <<sessionVars, netVars, serverVars, noteVars>>

\* The capture command serves until it is stopped by a signal, which it does
\* not handle: every goroutine ends where it is.
Killed ==
    /\ Killable
    /\ phase = "running"
    /\ phase' = "killed"
    /\ UNCHANGED <<declines, pc, chunk, outbox, mu, traceVars>>
    /\ UNCHANGED <<sessionVars, netVars, serverVars, noteVars>>

-----------------------------------------------------------------------------
(* A forwarding goroutine. *)

Read(d) ==
    /\ phase = "running"
    /\ pc[d] = "read"
    /\ \E k \in 1..MaxChunk :
        /\ k <= Len(wire[d])
        /\ chunk' = [chunk EXCEPT ![d] = SubSeq(wire[d], 1, k)]
        /\ wire' = [wire EXCEPT ![d] = SubSeq(@, k + 1, Len(@))]
    /\ pc' = [pc EXCEPT ![d] = "write"]
    /\ UNCHANGED <<phase, declines, outbox, mu, traceVars, inbox, gone, script, sent>>
    /\ UNCHANGED <<sessionVars, serverVars, noteVars>>

\* End of stream, or the connection was closed by handle's return.
ReadError(d) ==
    /\ pc[d] = "read"
    /\ \/ phase = "returned"
       \/ phase = "running" /\ wire[d] = <<>> /\ Source(d) \in gone
    /\ pc' = [pc EXCEPT ![d] = "done"]
    /\ UNCHANGED <<phase, declines, chunk, outbox, mu, traceVars>>
    /\ UNCHANGED <<sessionVars, netVars, serverVars, noteVars>>

Write(d) ==
    /\ pc[d] = "write"
    /\ phase = "running"
    /\ Sink(d) \notin gone
    /\ inbox' = IF d = "front" THEN inbox \o chunk[d] ELSE inbox
    /\ pc' = [pc EXCEPT ![d] = "feed"]
    /\ UNCHANGED <<phase, declines, chunk, outbox, mu, traceVars, wire, gone, script, sent>>
    /\ UNCHANGED <<sessionVars, serverVars, noteVars>>

\* The write fails, after part of the chunk may have left: the goroutine
\* breaks out of its loop without feeding what it read.
WriteError(d) ==
    /\ pc[d] = "write"
    /\ phase = "returned" \/ Sink(d) \in gone
    /\ \E k \in 0..Len(chunk[d]) :
        inbox' = IF d = "front" THEN inbox \o SubSeq(chunk[d], 1, k) ELSE inbox
    /\ chunk' = [chunk EXCEPT ![d] = <<>>]
    /\ pc' = [pc EXCEPT ![d] = "done"]
    /\ UNCHANGED <<phase, declines, outbox, mu, traceVars, wire, gone, script, sent>>
    /\ UNCHANGED <<sessionVars, serverVars, noteVars>>

\* Faulty: a message the session ignores is passed on as an empty event.
WithAnyEvent(events) == Append(events, event')

\* Faulty: what a chunk made is emitted last first.
WithEventFirst(events) ==
    IF event'.kind = "none" THEN events ELSE <<event'>> \o events

\* Most messages of a connection are no events.
WithEvent(events) ==
    IF event'.kind = "none" THEN events ELSE Append(events, event')

\* FeedFrontend and FeedBackend hold mu from the first message of the chunk
\* to the last.
Feed(d) ==
    LET m == Head(chunk[d])
        rest == Tail(chunk[d])
    IN /\ pc[d] = "feed"
       /\ mu \in {"free", d}
       /\ IF d = "front" THEN Handle(m) ELSE HandleBackend(m)
       /\ chunk' = [chunk EXCEPT ![d] = rest]
       /\ outbox' = [outbox EXCEPT ![d] = WithEvent(@)]
       /\ mu' = IF rest = <<>> THEN "free" ELSE d
       /\ pc' = IF rest = <<>> THEN [pc EXCEPT ![d] = "emit"] ELSE pc
       /\ parsedAs' = IF event'.kind = "parse"
                      THEN [parsedAs EXCEPT ![m.name] = @ \cup {m.sql}]
                      ELSE parsedAs
       /\ IF m.type = "ParameterDescription"
          THEN /\ unattributed' = (unattributed \/ ~event'.resolved)
               /\ misattributed' =
                    (misattributed \/ (event'.resolved /\ event'.stmt # m.for))
          ELSE UNCHANGED <<unattributed, misattributed>>
       /\ UNCHANGED <<phase, declines, traceVars, netVars, serverVars>>

\* Faulty: the encoder tries again after an error.
RecordAgain(d, e) ==
    /\ recorded' = [recorded EXCEPT ![d] = Append(@, e)]
    /\ \/ trace' = [trace EXCEPT ![d] = Append(@, e)] /\ encoder' = "ok"
       \/ DiskFills /\ encoder' = "failed" /\ UNCHANGED trace

\* Recorder.Emit drops the encoder's error, and the encoder writes nothing
\* after it.
Record(d, e) ==
    /\ recorded' = [recorded EXCEPT ![d] = Append(@, e)]
    /\ \/ encoder = "ok"
          /\ trace' = [trace EXCEPT ![d] = Append(@, e)]
          /\ UNCHANGED encoder
       \/ encoder = "ok" /\ DiskFills
          /\ encoder' = "failed"
          /\ UNCHANGED trace
       \/ encoder = "failed"
          /\ UNCHANGED <<trace, encoder>>

\* Faulty: only the first event of a batch is recorded.
EmitFirst(d) ==
    /\ pc[d] = "emit"
    /\ IF outbox[d] = <<>> THEN UNCHANGED <<traceVars>>
       ELSE Record(d, Head(outbox[d]))
    /\ outbox' = [outbox EXCEPT ![d] = <<>>]
    /\ pc' = [pc EXCEPT ![d] = "read"]
    /\ UNCHANGED <<phase, declines, chunk, mu>>
    /\ UNCHANGED <<sessionVars, netVars, serverVars, noteVars>>

Emit(d) ==
    /\ pc[d] = "emit"
    /\ IF outbox[d] = <<>>
       THEN /\ pc' = [pc EXCEPT ![d] = "read"]
            /\ UNCHANGED <<outbox, traceVars>>
       ELSE /\ Record(d, Head(outbox[d]))
            /\ outbox' = [outbox EXCEPT ![d] = Tail(@)]
            /\ UNCHANGED pc
    /\ UNCHANGED <<phase, declines, chunk, mu>>
    /\ UNCHANGED <<sessionVars, netVars, serverVars, noteVars>>

Goroutine(d) ==
    /\ phase # "killed"
    /\ Read(d) \/ ReadError(d) \/ Write(d) \/ WriteError(d) \/ Feed(d) \/ Emit(d)

-----------------------------------------------------------------------------
(* The client. *)

ClientSend ==
    /\ phase = "running"
    /\ "client" \notin gone
    /\ sent < Len(script)
    /\ sent' = sent + 1
    /\ \E m \in script[sent + 1] :
        wire' = [wire EXCEPT !["front"] = Append(@, m)]
    /\ UNCHANGED <<inbox, gone, script>>
    /\ UNCHANGED <<sessionVars, proxyVars, serverVars, noteVars>>

PeerCloses(p) ==
    /\ phase = "running"
    /\ p \notin gone
    /\ gone' = gone \cup {p}
    /\ UNCHANGED <<wire, inbox, script, sent>>
    /\ UNCHANGED <<sessionVars, proxyVars, serverVars, noteVars>>

-----------------------------------------------------------------------------
(* The server.  Replies the session ignores are left out. *)

LastRun == executed[Len(executed)]

Accepts(m) ==
    CASE m.type = "Parse" ->
            /\ m.sql \notin BadSQLs
            /\ m.name = Unnamed \/ prepared[m.name] = NoSQL
      [] m.type = "Bind" ->
            /\ prepared[m.stmt] # NoSQL
            /\ Len(m.params) = Len(ParamTypes[prepared[m.stmt]])
      [] m.type = "Describe" ->
            IF m.kind = "S" THEN prepared[m.name] # NoSQL
            ELSE executed # <<>> /\ LastRun # NoSQL
      [] m.type = "Query" -> m.sql \notin BadSQLs
      [] OTHER -> TRUE

Rows(q, n) ==
    IF ColumnTypes[q] = <<>> THEN <<>>
    ELSE <<[type |-> "RowDescription", oids |-> ColumnTypes[q], for |-> n]>>

Replies(m) ==
    CASE m.type = "Describe" /\ m.kind = "S" ->
            <<[type |-> "ParameterDescription", for |-> m.name,
               oids |-> ParamTypes[prepared[m.name]]]>>
            \o Rows(prepared[m.name], m.name)
      [] m.type = "Describe" /\ m.kind = "P" -> Rows(LastRun, NoName)
      [] m.type = "Query" -> Rows(m.sql, NoName)
      [] OTHER -> <<>>

ServerServes(m) ==
    /\ m.type = "Sync" \/ (~skipping /\ Accepts(m))
    /\ skipping' = FALSE
    /\ prepared' =
         CASE m.type = "Parse" -> [prepared EXCEPT ![m.name] = m.sql]
           [] m.type = "Close" /\ m.kind = "S" ->
                [prepared EXCEPT ![m.name] = NoSQL]
           [] m.type = "Query" -> [prepared EXCEPT ![Unnamed] = NoSQL]
           [] OTHER -> prepared
    /\ executed' = IF m.type = "Bind" THEN Append(executed, prepared[m.stmt])
                   ELSE executed
    /\ wire' = [wire EXCEPT !["back"] = @ \o Replies(m)]
    /\ UNCHANGED <<refused, unanswered>>

\* An error discards everything up to the next Sync; a failed Parse or a
\* simple query drops the unnamed statement first.
ServerRefuses(m) ==
    /\ m.type # "Sync"
    /\ skipping \/ ~Accepts(m)
    /\ skipping' = (skipping \/ m.type # "Query")
    /\ prepared' = IF /\ ~skipping
                      /\ \/ m.type = "Parse" /\ m.name = Unnamed
                         \/ m.type = "Query"
                   THEN [prepared EXCEPT ![Unnamed] = NoSQL] ELSE prepared
    /\ executed' = IF m.type = "Bind" THEN Append(executed, NoSQL) ELSE executed
    /\ refused' = TRUE
    /\ unanswered' = (unanswered \/ (m.type = "Describe" /\ m.kind = "S"))
    /\ UNCHANGED wire

Server ==
    /\ inbox # <<>>
    /\ "server" \notin gone
    /\ LET m == Head(inbox) IN ServerServes(m) \/ ServerRefuses(m)
    /\ inbox' = Tail(inbox)
    /\ UNCHANGED <<gone, script, sent, sessionVars, proxyVars, noteVars>>

-----------------------------------------------------------------------------
Next ==
    \/ Dial \/ DeclineEncryption \/ Startup \/ Return \/ Killed
    \/ \E d \in Dirs : Goroutine(d)
    \/ ClientSend
    \/ \E p \in Leavers : PeerCloses(p)
    \/ Server

\* The Go scheduler runs every goroutine that can run, mu is handed on, and
\* the server reads its input; neither peer has to send or close anything.
Fairness ==
    /\ WF_vars(Return)
    /\ \A d \in Dirs : WF_vars(Goroutine(d))
    /\ WF_vars(Server)

Spec == Init /\ [][Next]_vars /\ Fairness

\* What a handler returns and is worth recording.
Emitted == [kind : EventKinds \ {"none"}, stmt : Names, sql : SQLs \cup {NoSQL},
            resolved : BOOLEAN, params : Seq(Param)]

ProxyTypeOK ==
    /\ TypeOK
    /\ phase \in {"dial", "startup", "running", "returned", "killed"}
    /\ declines \in 0..MaxDeclines
    /\ pc \in [Dirs -> {"read", "write", "feed", "emit", "done"}]
    /\ outbox \in [Dirs -> Seq(Emitted)]
    /\ mu \in Dirs \cup {"free"}
    /\ recorded \in [Dirs -> Seq(Emitted)]
    /\ trace \in [Dirs -> Seq(Emitted)]
    /\ encoder \in {"ok", "failed"}
    /\ inbox \in Seq(FrontMsg)
    /\ gone \subseteq Peers
    /\ prepared \in [Names -> SQLs \cup {NoSQL}]
    /\ skipping \in BOOLEAN
    /\ script \in Scripts
    /\ sent \in 0..Len(script)
    /\ executed \in Seq(SQLs \cup {NoSQL})
    /\ parsedAs \in [Names -> SUBSET SQLs]

-----------------------------------------------------------------------------
\* The Bind events of a sequence of events.  A recursive function, so that
\* TraceProofs can reason about it.
BindsIn(s) ==
    LET binds[i \in 0..Len(s)] ==
          IF i = 0 THEN <<>>
          ELSE IF s[i].kind = "bind" THEN Append(binds[i - 1], s[i])
          ELSE binds[i - 1]
    IN binds[Len(s)]

\* The Bind events of the connection, recorded or about to be.
BindEvents == BindsIn(recorded["front"] \o outbox["front"])

\* A description is given to another statement than the one it describes only
\* after one was reported unattributable, or a Describe went unanswered: the
\* code's only signs that the order it relies on is lost.
MisattributionIsPreceded ==
    misattributed => unattributed \/ unanswered

\* Every parameter the trace shows as decoded from bytes was decoded with the
\* type it has in the SQL shown beside it.
OwnTypes(e) ==
    \A i \in DOMAIN e.params :
        (e.params[i].known /\ e.params[i].oid # NoOID)
        => /\ i <= Len(ParamTypes[e.sql])
           /\ e.params[i].oid = ParamTypes[e.sql][i]

\* session.go, resolveParams: a parameter whose OID is missing is left
\* unknown, never guessed.
NeverGuessed ==
    (event.kind = "bind" /\ event.resolved) => OwnTypes(event)

OneSQLPerName == \A n \in Names : Cardinality(parsedAs[n]) <= 1

\* The same while no name was parsed with a second SQL text and every
\* Describe was answered: what is left is the order of the two goroutines.
NeverGuessedIfAnswered == OneSQLPerName /\ ~unanswered => NeverGuessed

\* With none of the three, a decoded parameter has its own type.
NeverGuessedInOrder ==
    OneSQLPerName /\ ~unanswered /\ ~unattributed => NeverGuessed

\* What the server ran for a Bind is what the trace says was run, and nothing
\* it ran is shown as unresolvable (session.go, handle, TGD-BL-12).
RecordedIsWhatRan ==
    \A i \in DOMAIN executed \cap DOMAIN BindEvents :
        executed[i] # NoSQL => BindEvents[i].resolved /\ BindEvents[i].sql = executed[i]

\* It holds while the server has rejected and skipped nothing.
RecordedIsWhatRanUnlessRefused == ~refused => RecordedIsWhatRan

\* A trace has no holes: when writing it fails, which nothing reports, or the
\* capture is stopped, it ends there, and its Binds are still the first ones
\* the server processed, in order (recorder.go, Emit).
TraceHasNoHoles ==
    LET binds == BindsIn(trace["front"])
    IN ~refused =>
         \A i \in DOMAIN executed \cap DOMAIN binds : binds[i].sql = executed[i]

\* However the capture ends, all it has lost is the chunk its client-to-server
\* goroutine held: a Bind the server processed is in the trace, or there, unless
\* writing the trace failed (proxy.go, handle: a chunk is emitted before the next
\* is read).
OneChunkIsLost ==
    LET Binds(s) == Len(BindsIn(s))
        held == {i \in DOMAIN chunk["front"] : chunk["front"][i].type = "Bind"}
    IN encoder = "ok" =>
         Len(executed) <= Binds(trace["front"]) +
             IF pc["front"] = "done" THEN MaxChunk
             ELSE Binds(outbox["front"]) + Cardinality(held)

\* The trace can be read as what the server ran: server, session and file tell of
\* the same Binds in order, the file is written one after another, is at most a
\* chunk behind, and is not touched after a failed write (module TraceContract).
Texts(s) == [i \in DOMAIN s |-> s[i].sql]
Contract == INSTANCE TraceContract WITH
    MaxBehind <- MaxChunk,
    ran <- executed,
    seen <- Texts(BindEvents),
    file <- Texts(BindsIn(trace["front"])),
    capture <- IF phase = "killed" THEN "stopped"
               ELSE IF encoder = "ok" THEN "on" ELSE "full"
KeepsItsContract == Contract!Spec

\* What the server processed is observed: every Bind it has seen is in the trace
\* in the end, unless the connection was torn down, the capture was stopped or
\* the trace could not be written.
BindsAreRecorded ==
    \A k \in 1..Max({Len(s) : s \in Scripts}) :
        Len(executed) >= k ~>
            \/ Len(BindsIn(trace["front"])) >= k
            \/ phase \in {"returned", "killed"}
            \/ encoder = "failed"

\* A peer that leaves ends both goroutines: neither is left behind holding
\* the other connection open (proxy.go, handle).
GoroutinesEnd ==
    (phase = "running" /\ gone # {}) ~>
        phase = "killed" \/ \A d \in Dirs : pc[d] = "done"
=============================================================================
