---------------------------- MODULE TraceContract ----------------------------
(***************************************************************************)
(* What a capture promises of the Binds of one connection                  *)
(* (internal/capture/proxy.go, handle; recorder.go, Emit): that its trace  *)
(* can be read as what the server ran.  Server and trace tell of the same  *)
(* Binds in the same order, whichever is ahead, as long as the server      *)
(* refused nothing.  The file is written one event after another, is at    *)
(* most a chunk behind, and is never touched again after a failed write or *)
(* the end of the process.                                                 *)
(***************************************************************************)
EXTENDS Naturals, Sequences

CONSTANTS
    SQLs,
    NoSQL,      \* a Bind of no statement known
    MaxBehind   \* how many Binds may be seen and not yet written

VARIABLES
    ran,        \* the SQL text of each Bind the server processed
    seen,       \* that of each Bind the session was fed
    file,       \* that of each Bind in the trace file
    capture,    \* "on", "full" after a failed write, "stopped"
    refused     \* the server refused something

vars == <<ran, seen, file, capture, refused>>

Text == SQLs \cup {NoSQL}
Agree(s, t) == \A i \in DOMAIN s \cap DOMAIN t : s[i] = t[i]

Init ==
    /\ ran = <<>> /\ seen = <<>> /\ file = <<>>
    /\ capture = "on"
    /\ refused = FALSE

\* The server runs a Bind: the one seen in its place, if it was seen.
Run(q) ==
    /\ ~refused
    /\ q # NoSQL
    /\ ran' = Append(ran, q)
    /\ Agree(ran', seen)
    /\ UNCHANGED <<seen, file, capture, refused>>

\* It refuses a message, which may be a Bind.  From then on it may run others.
Refuse ==
    /\ refused' = TRUE
    /\ ran' \in {ran} \cup {Append(ran, q) : q \in Text}
    /\ UNCHANGED <<seen, file, capture>>

\* The session is fed a Bind: the one that was run in its place, if it was run.
See(q) ==
    /\ capture # "stopped"
    /\ capture = "on" => Len(seen) < Len(file) + MaxBehind
    /\ seen' = Append(seen, q)
    /\ ~refused => Agree(ran, seen')
    /\ UNCHANGED <<ran, file, capture, refused>>

Write ==
    /\ capture = "on"
    /\ Len(file) < Len(seen)
    /\ file' = Append(file, seen[Len(file) + 1])
    /\ UNCHANGED <<ran, seen, capture, refused>>

\* Writing fails, or the process is stopped.
End ==
    /\ capture # "stopped"
    /\ capture' \in {"full", "stopped"}
    /\ UNCHANGED <<ran, seen, file, refused>>

Next ==
    \/ \E q \in Text : Run(q) \/ See(q)
    \/ Refuse \/ Write \/ End

Spec == Init /\ [][Next]_vars
=============================================================================
