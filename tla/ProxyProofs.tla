----------------------------- MODULE ProxyProofs -----------------------------
(***************************************************************************)
(* Theorems about one connection through the proxy.                        *)
(***************************************************************************)
EXTENDS CaptureProxy, CaptureLemmas

Reply == [type : {"ParameterDescription", "RowDescription"},
          oids : Seq(OIDs), for : Names \cup {NoName}]

Msgs == [front |-> FrontMsg, back |-> Reply]

\* What is on its way is of its direction.
InTransitOK ==
    /\ chunk \in [Dirs -> Seq(FrontMsg) \cup Seq(Reply)]
    /\ wire \in [Dirs -> Seq(FrontMsg) \cup Seq(Reply)]
    /\ \A d \in Dirs : chunk[d] \in Seq(Msgs[d]) /\ wire[d] \in Seq(Msgs[d])

\* A goroutine holds messages from its Read until it has fed them, and events
\* from then until it has emitted them.
HoldsAChunk ==
    \A d \in Dirs :
        /\ pc[d] \in {"write", "feed"} <=> chunk[d] # <<>>
        /\ pc[d] \notin {"feed", "emit"} => outbox[d] = <<>>

NotesOK ==
    /\ refused \in BOOLEAN /\ unanswered \in BOOLEAN
    /\ unattributed \in BOOLEAN /\ misattributed \in BOOLEAN

ProxyInv == ProxyTypeOK /\ InTransitOK /\ HoldsAChunk /\ NotesOK

-----------------------------------------------------------------------------
\* A new connection is well typed and empty.
LEMMA InitInv == Init => ProxyInv
<1> SUFFICES ASSUME Init PROVE ProxyInv
  OBVIOUS
<1>1. NoEvent \in Event
  <2>1. <<>> \in Seq(Param)
    OBVIOUS
  <2> QED
    BY <2>1, EvType, SessionAssumption DEF NoEvent, EventKinds
<1>2. TypeOK
  BY <1>1, SessionAssumption DEF Init, NewSession, TypeOK
<1>3. ProxyTypeOK
  <2>1. script \in Scripts /\ sent \in 0..Len(script)
    BY ProxyAssumption DEF Init
  <2>2. /\ outbox \in [Dirs -> Seq(Emitted)]
        /\ recorded \in [Dirs -> Seq(Emitted)]
        /\ trace \in [Dirs -> Seq(Emitted)]
    BY DEF Init
  <2>3. /\ pc \in [Dirs -> {"read", "write", "feed", "emit", "done"}]
        /\ prepared \in [Names -> SQLs \cup {NoSQL}]
        /\ parsedAs \in [Names -> SUBSET SQLs]
    BY DEF Init
  <2>4. inbox \in Seq(FrontMsg) /\ executed \in Seq(SQLs \cup {NoSQL})
    BY DEF Init
  <2>5. /\ phase = "dial" /\ mu = "free" /\ encoder = "ok"
        /\ skipping = FALSE /\ gone = {} /\ declines \in 0..MaxDeclines
    BY ProxyAssumption DEF Init
  <2> QED
    BY <1>2, <2>1, <2>2, <2>3, <2>4, <2>5 DEF ProxyTypeOK
<1>4. InTransitOK
  BY DEF Init, InTransitOK, Dirs, Msgs
<1>5. HoldsAChunk
  BY DEF Init, HoldsAChunk
<1>6. NotesOK
  BY DEF Init, NotesOK
<1> QED
  BY <1>3, <1>4, <1>5, <1>6 DEF ProxyInv

\* Setting the connection up, and ending it, move nothing.
LEMMA PhaseInv ==
    ASSUME ProxyInv,
           Dial \/ DeclineEncryption \/ Startup \/ Return \/ Killed
    PROVE  ProxyInv'
<1> USE DEF ProxyInv
<1>1. /\ UNCHANGED <<sessionVars, netVars, serverVars, noteVars>>
      /\ UNCHANGED <<pc, chunk, outbox, mu, recorded, trace>>
      /\ phase' \in {"dial", "startup", "running", "returned", "killed"}
      /\ declines' \in 0..MaxDeclines
      /\ encoder' \in {"ok", "failed"}
  <2>1. CASE Dial
    BY <2>1 DEF Dial, traceVars, ProxyTypeOK
  <2>2. CASE DeclineEncryption
    BY <2>2, ProxyAssumption DEF DeclineEncryption, traceVars, ProxyTypeOK
  <2>3. CASE Startup
    BY <2>3 DEF Startup, ProxyTypeOK
  <2>4. CASE Return
    BY <2>4 DEF Return, traceVars, ProxyTypeOK
  <2>5. CASE Killed
    BY <2>5 DEF Killed, traceVars, ProxyTypeOK
  <2> QED
    BY <2>1, <2>2, <2>3, <2>4, <2>5
<1>2. TypeOK'
  BY <1>1 DEF sessionVars, ProxyTypeOK, TypeOK
<1>3. ProxyTypeOK'
  BY <1>1, <1>2 DEF netVars, serverVars, noteVars, ProxyTypeOK
<1>4. InTransitOK' /\ HoldsAChunk' /\ NotesOK'
  BY <1>1 DEF netVars, serverVars, noteVars, InTransitOK, HoldsAChunk, NotesOK
<1> QED
  BY <1>3, <1>4

\* A Read takes a prefix of what is on the wire.
LEMMA CutType ==
    ASSUME NEW T, NEW s \in Seq(T), NEW k \in 0..Len(s)
    PROVE  /\ SubSeq(s, 1, k) \in Seq(T)
           /\ SubSeq(s, k + 1, Len(s)) \in Seq(T)
           /\ Len(SubSeq(s, 1, k)) = k
OBVIOUS

\* The first message of a chunk, and the rest.
LEMMA HeadTailType ==
    ASSUME NEW T, NEW s \in Seq(T), s # <<>>
    PROVE  Head(s) \in T /\ Tail(s) \in Seq(T)
OBVIOUS

\* A goroutine reads, writes, feeds and emits values of its types.
LEMMA ReadInv ==
    ASSUME ProxyInv, NEW d \in Dirs, Read(d)
    PROVE  ProxyInv'
<1> USE DEF ProxyInv
<1>1. PICK k \in 1..MaxChunk :
        /\ k <= Len(wire[d])
        /\ chunk' = [chunk EXCEPT ![d] = SubSeq(wire[d], 1, k)]
        /\ wire' = [wire EXCEPT ![d] = SubSeq(wire[d], k + 1, Len(wire[d]))]
  BY DEF Read, InTransitOK
<1>2. k \in Nat /\ k # 0
  BY <1>1, ProxyAssumption
<1>3. wire[d] \in Seq(Msgs[d])
  BY DEF InTransitOK
<1>4. k \in 0..Len(wire[d])
  BY <1>1, <1>2, <1>3
<1>5. /\ SubSeq(wire[d], 1, k) \in Seq(Msgs[d])
      /\ SubSeq(wire[d], k + 1, Len(wire[d])) \in Seq(Msgs[d])
      /\ SubSeq(wire[d], 1, k) # <<>>
  <2>1. /\ SubSeq(wire[d], 1, k) \in Seq(Msgs[d])
        /\ SubSeq(wire[d], k + 1, Len(wire[d])) \in Seq(Msgs[d])
        /\ Len(SubSeq(wire[d], 1, k)) = k
    BY <1>3, <1>4, CutType
  <2>2. Len(<<>>) = 0
    OBVIOUS
  <2> QED
    BY <1>2, <2>1, <2>2
<1>6. InTransitOK'
  <2>1. Seq(Msgs[d]) \subseteq Seq(FrontMsg) \cup Seq(Reply)
    BY DEF Dirs, Msgs
  <2> QED
    BY <1>1, <1>5, <2>1 DEF InTransitOK
<1>7. HoldsAChunk'
  BY <1>1, <1>5 DEF Read, HoldsAChunk, InTransitOK, ProxyTypeOK
<1>8. ProxyTypeOK'
  BY DEF Read, ProxyTypeOK, TypeOK, sessionVars, serverVars, noteVars, traceVars
<1>9. NotesOK'
  BY DEF Read, NotesOK, serverVars, noteVars
<1> QED
  BY <1>6, <1>7, <1>8, <1>9

\* A goroutine that cannot read holds nothing.
LEMMA ReadErrorInv ==
    ASSUME ProxyInv, NEW d \in Dirs, ReadError(d)
    PROVE  ProxyInv'
<1> USE DEF ProxyInv
<1>1. ProxyTypeOK'
  BY DEF ReadError, ProxyTypeOK, TypeOK, sessionVars, netVars, serverVars,
         noteVars, traceVars
<1>2. InTransitOK' /\ NotesOK'
  BY DEF ReadError, InTransitOK, NotesOK, netVars, serverVars, noteVars
<1>3. HoldsAChunk'
  BY DEF ReadError, HoldsAChunk, ProxyTypeOK
<1> QED
  BY <1>1, <1>2, <1>3

\* What is forwarded to the server is what was read, and is still to be fed.
LEMMA WriteInv ==
    ASSUME ProxyInv, NEW d \in Dirs, Write(d)
    PROVE  ProxyInv'
<1> USE DEF ProxyInv
<1>1. d = "front" => chunk[d] \in Seq(FrontMsg)
  BY DEF InTransitOK, Msgs
<1>2. inbox' \in Seq(FrontMsg)
  BY <1>1 DEF Write, ProxyTypeOK
<1>3. ProxyTypeOK'
  BY <1>2 DEF Write, ProxyTypeOK, TypeOK, sessionVars, serverVars, noteVars,
              traceVars
<1>4. InTransitOK' /\ NotesOK'
  BY DEF Write, InTransitOK, NotesOK, serverVars, noteVars
<1>5. HoldsAChunk'
  BY DEF Write, HoldsAChunk, ProxyTypeOK
<1> QED
  BY <1>3, <1>4, <1>5

\* What could not be forwarded is not fed.
LEMMA WriteErrorInv ==
    ASSUME ProxyInv, NEW d \in Dirs, WriteError(d)
    PROVE  ProxyInv'
<1> USE DEF ProxyInv
<1>1. chunk[d] \in Seq(Msgs[d])
  BY DEF InTransitOK
<1>2. inbox' \in Seq(FrontMsg)
  <2>1. CASE d = "front"
    <3>1. PICK k \in 0..Len(chunk[d]) :
            inbox' = inbox \o SubSeq(chunk[d], 1, k)
      BY <2>1 DEF WriteError
    <3>2. SubSeq(chunk[d], 1, k) \in Seq(FrontMsg)
      BY <1>1, <2>1, CutType DEF Msgs
    <3> QED
      BY <3>1, <3>2 DEF ProxyTypeOK
  <2>2. CASE d # "front"
    BY <2>2 DEF WriteError, ProxyTypeOK
  <2> QED
    BY <2>1, <2>2
<1>3. ProxyTypeOK'
  BY <1>2 DEF WriteError, ProxyTypeOK, TypeOK, sessionVars, serverVars,
              noteVars, traceVars
<1>4. InTransitOK'
  <2>1. <<>> \in Seq(FrontMsg) /\ <<>> \in Seq(Msgs[d])
    OBVIOUS
  <2> QED
    BY <2>1 DEF WriteError, InTransitOK
<1>5. NotesOK'
  BY DEF WriteError, NotesOK, serverVars, noteVars
<1>6. HoldsAChunk'
  BY DEF WriteError, HoldsAChunk, ProxyTypeOK, InTransitOK
<1> QED
  BY <1>3, <1>4, <1>5, <1>6

\* A goroutine emits only after it has fed its chunk.
LEMMA EmitInv ==
    ASSUME ProxyInv, NEW d \in Dirs, Emit(d)
    PROVE  ProxyInv'
<1> USE DEF ProxyInv
<1>1. outbox[d] \in Seq(Emitted)
  BY DEF ProxyTypeOK
<1>2. /\ pc' \in [Dirs -> {"read", "write", "feed", "emit", "done"}]
      /\ outbox' \in [Dirs -> Seq(Emitted)]
      /\ recorded' \in [Dirs -> Seq(Emitted)]
      /\ trace' \in [Dirs -> Seq(Emitted)]
      /\ encoder' \in {"ok", "failed"}
  <2>1. CASE outbox[d] = <<>>
    BY <2>1 DEF Emit, ProxyTypeOK, traceVars
  <2>2. CASE outbox[d] # <<>>
    <3>1. Head(outbox[d]) \in Emitted /\ Tail(outbox[d]) \in Seq(Emitted)
      BY <1>1, <2>2
    <3>2. /\ Append(recorded[d], Head(outbox[d])) \in Seq(Emitted)
          /\ Append(trace[d], Head(outbox[d])) \in Seq(Emitted)
      BY <3>1 DEF ProxyTypeOK
    <3> QED
      BY <2>2, <3>1, <3>2 DEF Emit, Record, ProxyTypeOK
  <2> QED
    BY <2>1, <2>2
<1>3. ProxyTypeOK'
  BY <1>2 DEF Emit, ProxyTypeOK, TypeOK, sessionVars, netVars, serverVars, noteVars
<1>4. InTransitOK' /\ NotesOK'
  BY DEF Emit, InTransitOK, NotesOK, netVars, serverVars, noteVars
<1>5. HoldsAChunk'
  BY DEF Emit, HoldsAChunk, ProxyTypeOK
<1> QED
  BY <1>3, <1>4, <1>5

\* Only a Parse makes a parse event.
LEMMA ParseEvents ==
    ASSUME NEW m, Handle(m), event'.kind = "parse"
    PROVE  m.type = "Parse"
BY DEF Handle, HandleParse, HandleBind, HandleDescribe, HandleClose,
       HandleQuery, HandleIgnored, Ev, NoEvent

\* A reply makes no parse event.
LEMMA BackendEvents ==
    ASSUME NEW m, HandleBackend(m)
    PROVE  event'.kind # "parse"
BY DEF HandleBackend, HandleParamDesc, HandleRowDesc, HandleIgnored, Ev, NoEvent

\* Feeding a message: the types are those of the session (CaptureLemmas).
LEMMA FeedInv ==
    ASSUME ProxyInv, NEW d \in Dirs, Feed(d)
    PROVE  ProxyInv'
<1> DEFINE m == Head(chunk[d])
           rest == Tail(chunk[d])
<1>1. chunk[d] \in Seq(Msgs[d]) /\ chunk[d] # <<>>
  BY DEF ProxyInv, InTransitOK, HoldsAChunk, Feed
<1>2. m \in Msgs[d] /\ rest \in Seq(Msgs[d])
  BY <1>1, HeadTailType
<1>3. TypeOK' /\ parsedAs' \in [Names -> SUBSET SQLs]
  <2>1. TypeOK /\ parsedAs \in [Names -> SUBSET SQLs]
    BY DEF ProxyInv, ProxyTypeOK
  <2>2. CASE d = "front"
    <3>1. m \in FrontMsg /\ Handle(m)
      BY <1>2, <2>2 DEF Msgs, Feed
    <3>2. event'.kind = "parse" => m.name \in Names /\ m.sql \in SQLs
      BY <3>1, ParseEvents DEF FrontMsg
    <3>3. TypeOK'
      BY <2>1, <3>1, HandleType
    <3> QED
      BY <2>1, <3>2, <3>3 DEF Feed
  <2>3. CASE d = "back"
    <3>1. m \in Reply /\ HandleBackend(m)
      BY <1>2, <2>3 DEF Msgs, Feed
    <3>2. m.oids \in Seq(OIDs)
      BY <3>1 DEF Reply
    <3>3. TypeOK'
      BY <2>1, <3>1, <3>2, HandleBackendType
    <3>4. event'.kind # "parse"
      BY <3>1, BackendEvents
    <3> QED
      BY <2>1, <3>3, <3>4 DEF Feed
  <2> QED
    BY <2>2, <2>3 DEF Dirs
<1>4. event' \in Event
  BY <1>3 DEF TypeOK
<1> HIDE DEF m, rest
<1>5. /\ pc[d] = "feed"
      /\ chunk' = [chunk EXCEPT ![d] = rest]
      /\ outbox' = [outbox EXCEPT ![d] = WithEvent(outbox[d])]
      /\ mu' = IF rest = <<>> THEN "free" ELSE d
      /\ pc' = IF rest = <<>> THEN [pc EXCEPT ![d] = "emit"] ELSE pc
      /\ UNCHANGED <<phase, declines, traceVars, netVars, serverVars>>
  BY DEF Feed, m, rest, ProxyInv, ProxyTypeOK
<1>6. outbox' \in [Dirs -> Seq(Emitted)]
  <2>0. event'.kind # "none" => event' \in Emitted
    BY <1>4 DEF Event, Emitted
  <2>1. WithEvent(outbox[d]) \in Seq(Emitted)
    BY <2>0 DEF ProxyInv, ProxyTypeOK, WithEvent
  <2> QED
    BY <1>5, <2>1 DEF ProxyInv, ProxyTypeOK
<1>7. ProxyTypeOK'
  BY <1>3, <1>5, <1>6
     DEF ProxyInv, ProxyTypeOK, traceVars, netVars, serverVars
<1>8. InTransitOK'
  <2>1. rest \in Seq(FrontMsg) \cup Seq(Reply)
    BY <1>2 DEF Dirs, Msgs
  <2> QED
    BY <1>2, <1>5, <2>1 DEF ProxyInv, InTransitOK, netVars
<1>9. HoldsAChunk'
  BY <1>1, <1>5 DEF ProxyInv, InTransitOK, ProxyTypeOK, HoldsAChunk
<1>10. NotesOK'
  <2>1. event'.resolved \in BOOLEAN
    BY <1>4 DEF Event
  <2>2. unattributed' \in BOOLEAN /\ misattributed' \in BOOLEAN
    BY <2>1 DEF Feed, ProxyInv, NotesOK
  <2> QED
    BY <1>5, <2>2 DEF ProxyInv, NotesOK, serverVars
<1> QED
  BY <1>7, <1>8, <1>9, <1>10 DEF ProxyInv

\* The client sends a message of its script; a peer leaves.
LEMMA ClientInv ==
    ASSUME ProxyInv, ClientSend \/ \E p \in Leavers : PeerCloses(p)
    PROVE  ProxyInv'
<1> USE DEF ProxyInv
<1>1. CASE ClientSend
  <2>1. script \in Seq(SUBSET FrontMsg) /\ sent \in Nat
    BY ProxyAssumption DEF ProxyTypeOK
  <2>2. script[sent + 1] \subseteq FrontMsg
    BY <1>1, <2>1 DEF ClientSend
  <2>3. PICK m \in FrontMsg :
          wire' = [wire EXCEPT !["front"] = Append(wire["front"], m)]
    BY <1>1, <2>2 DEF ClientSend, InTransitOK, Dirs
  <2>4. Append(wire["front"], m) \in Seq(FrontMsg)
    BY <2>3 DEF InTransitOK, Dirs, Msgs
  <2>5. sent' \in 0..Len(script')
    BY <1>1, <2>1 DEF ClientSend
  <2>6. InTransitOK'
    BY <1>1, <2>3, <2>4 DEF ClientSend, InTransitOK, Dirs, Msgs, proxyVars
  <2>7. ProxyTypeOK'
    BY <1>1, <2>5 DEF ClientSend, ProxyTypeOK, TypeOK, sessionVars, serverVars,
       proxyVars, traceVars, noteVars
  <2>8. HoldsAChunk' /\ NotesOK'
    BY <1>1 DEF ClientSend, HoldsAChunk, NotesOK, proxyVars, serverVars, noteVars
  <2> QED
    BY <2>6, <2>7, <2>8
<1>2. CASE \E p \in Leavers : PeerCloses(p)
  <2>1. gone' \subseteq Peers
    BY <1>2, ProxyAssumption DEF PeerCloses, ProxyTypeOK, Peers
  <2>2. UNCHANGED <<wire, inbox, script, sent>>
        /\ UNCHANGED <<sessionVars, proxyVars, serverVars, noteVars>>
    BY <1>2 DEF PeerCloses
  <2>3. ProxyTypeOK'
    BY <2>1, <2>2 DEF ProxyTypeOK, TypeOK, sessionVars, serverVars, proxyVars,
       traceVars, noteVars
  <2> QED
    BY <2>2, <2>3 DEF InTransitOK, HoldsAChunk, NotesOK, proxyVars, serverVars,
       noteVars
<1> QED
  BY <1>1, <1>2

\* What the server answers is a sequence of replies.
LEMMA RepliesType ==
    ASSUME ProxyInv, NEW m \in FrontMsg, m.type = "Sync" \/ Accepts(m)
    PROVE  Replies(m) \in Seq(Reply)
<1> USE DEF ProxyInv
<1>1. ASSUME NEW q \in SQLs, NEW n \in Names \cup {NoName}
      PROVE  Rows(q, n) \in Seq(Reply)
  <2>1. ColumnTypes[q] \in Seq(OIDs)
    BY ProxyAssumption
  <2>2. [type |-> "RowDescription", oids |-> ColumnTypes[q], for |-> n] \in Reply
    BY <2>1 DEF Reply
  <2> QED
    BY <2>2 DEF Rows
<1>2. CASE m.type = "Describe" /\ m.kind = "S"
  <2>1. m.name \in Names /\ prepared[m.name] \in SQLs
    BY <1>2 DEF FrontMsg, Accepts, ProxyTypeOK
  <2>2. ParamTypes[prepared[m.name]] \in Seq(OIDs)
    BY <2>1, ProxyAssumption
  <2> DEFINE r == [type |-> "ParameterDescription", for |-> m.name,
                   oids |-> ParamTypes[prepared[m.name]]]
  <2>3. r \in Reply
    BY <2>1, <2>2 DEF Reply
  <2>4. Replies(m) = <<r>> \o Rows(prepared[m.name], m.name)
    BY <1>2 DEF Replies
  <2> HIDE DEF r
  <2>5. Rows(prepared[m.name], m.name) \in Seq(Reply)
    BY <1>1, <2>1
  <2> QED
    BY <2>3, <2>4, <2>5
<1>3. CASE m.type = "Describe" /\ m.kind # "S"
  <2>1. LastRun \in SQLs
    <3>1. executed \in Seq(SQLs \cup {NoSQL})
      BY DEF ProxyTypeOK
    <3> QED
      BY <1>3, <3>1 DEF Accepts, LastRun
  <2>2. m.kind = "P"
    BY <1>3 DEF FrontMsg
  <2> QED
    BY <1>1, <1>3, <2>1, <2>2 DEF Replies
<1>4. CASE m.type = "Query"
  BY <1>1, <1>4 DEF Replies, FrontMsg
<1>5. CASE m.type \notin {"Describe", "Query"}
  <2>1. Replies(m) = <<>>
    BY <1>5 DEF Replies
  <2> QED
    BY <2>1
<1> QED
  BY <1>2, <1>3, <1>4, <1>5

\* The server takes a message and may answer it.
LEMMA ServerInv ==
    ASSUME ProxyInv, Server
    PROVE  ProxyInv'
<1> DEFINE m == Head(inbox)
<1>1. m \in FrontMsg /\ inbox' \in Seq(FrontMsg)
  BY HeadTailType DEF ProxyInv, ProxyTypeOK, Server
<1>2. /\ ServerServes(m) \/ ServerRefuses(m)
      /\ UNCHANGED <<gone, script, sent, sessionVars, proxyVars, noteVars>>
  BY DEF Server
<1> HIDE DEF m
<1> USE DEF ProxyInv
<1>3. CASE ServerServes(m)
  <2>1. m.type = "Sync" \/ Accepts(m)
    BY <1>3 DEF ServerServes
  <2>2. Replies(m) \in Seq(Reply)
    BY <1>1, <2>1, RepliesType
  <2>3. wire["back"] \o Replies(m) \in Seq(Reply)
    BY <2>2 DEF InTransitOK, Dirs, Msgs
  <2>4. InTransitOK'
    BY <1>2, <1>3, <2>3 DEF ServerServes, InTransitOK, Dirs, Msgs, proxyVars
  <2>5. prepared' \in [Names -> SQLs \cup {NoSQL}]
    BY <1>1, <1>3 DEF ServerServes, ProxyTypeOK, FrontMsg
  <2>6. executed' \in Seq(SQLs \cup {NoSQL})
    <3>1. m.type = "Bind" => prepared[m.stmt] \in SQLs \cup {NoSQL}
      BY <1>1 DEF FrontMsg, ProxyTypeOK
    <3> QED
      BY <1>3, <3>1 DEF ServerServes, ProxyTypeOK
  <2>7. ProxyTypeOK'
    BY <1>1, <1>2, <1>3, <2>5, <2>6 DEF ServerServes, ProxyTypeOK, TypeOK,
       sessionVars, proxyVars, traceVars, noteVars
  <2> QED
    BY <1>2, <1>3, <2>4, <2>7 DEF ServerServes, HoldsAChunk, NotesOK, proxyVars,
       noteVars
<1>4. CASE ServerRefuses(m)
  <2>1. /\ prepared' \in [Names -> SQLs \cup {NoSQL}]
        /\ executed' \in Seq(SQLs \cup {NoSQL})
        /\ skipping' \in BOOLEAN
    <3>1. prepared' \in [Names -> SQLs \cup {NoSQL}]
      BY <1>4 DEF ServerRefuses, ProxyTypeOK
    <3>2. executed' \in Seq(SQLs \cup {NoSQL})
      BY <1>4 DEF ServerRefuses, ProxyTypeOK
    <3>3. skipping' \in BOOLEAN
      BY <1>4 DEF ServerRefuses
    <3> QED
      BY <3>1, <3>2, <3>3
  <2>2. ProxyTypeOK'
    BY <1>1, <1>2, <2>1 DEF ProxyTypeOK, TypeOK, sessionVars, proxyVars,
       traceVars, noteVars
  <2>3. InTransitOK' /\ HoldsAChunk' /\ NotesOK'
    BY <1>2, <1>4 DEF ServerRefuses, InTransitOK, HoldsAChunk, NotesOK,
       proxyVars, noteVars
  <2> QED
    BY <2>2, <2>3
<1> QED
  BY <1>2, <1>3, <1>4

\* Every step keeps the types.
LEMMA StepInv == ProxyInv /\ [Next]_vars => ProxyInv'
<1> SUFFICES ASSUME ProxyInv, [Next]_vars
             PROVE  ProxyInv'
  OBVIOUS
<1>1. CASE Dial \/ DeclineEncryption \/ Startup \/ Return \/ Killed
  BY <1>1, PhaseInv
<1>2. ASSUME NEW d \in Dirs, Goroutine(d)
      PROVE  ProxyInv'
  BY <1>2, ReadInv, ReadErrorInv, WriteInv, WriteErrorInv, FeedInv, EmitInv
     DEF Goroutine
<1>3. CASE ClientSend \/ \E p \in Leavers : PeerCloses(p)
  BY <1>3, ClientInv
<1>4. CASE Server
  BY <1>4, ServerInv
<1>5. CASE UNCHANGED vars
  BY <1>5 DEF vars, sessionVars, proxyVars, traceVars, netVars, serverVars,
     noteVars, ProxyInv, ProxyTypeOK, TypeOK, InTransitOK, HoldsAChunk, NotesOK
<1> QED
  BY <1>1, <1>2, <1>3, <1>4, <1>5 DEF Next

\* Session, goroutines, connections and server keep their types, and what is on
\* its way is of its direction, whatever the clients, however long (proxy.go).
THEOREM ProxyTypeCorrect == Spec => []ProxyTypeOK
<1>1. Spec => []ProxyInv
  BY InitInv, StepInv, PTL DEF Spec
<1>2. ProxyInv => ProxyTypeOK
  BY DEF ProxyInv
<1> QED
  BY <1>1, <1>2, PTL

=============================================================================
