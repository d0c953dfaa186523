------------------------------- MODULE LspServer -------------------------------
(***************************************************************************)
(* A language server as code-intelligence drives it: lsp/server/actor.rs   *)
(* (the actor: start, restart with replay, liveness, shutdown, document    *)
(* commands), lsp/state.rs (its states), lsp/documents.rs (the open           *)
(* documents), lsp/diagnostics.rs (the store of what the server publishes) *)
(* and lsp/transport.rs (session, process, read loop).                     *)
(*                                                                         *)
(* The commands of the actor are steps; what it does across an await is    *)
(* more than one.  A text is a number, the version is the client's name    *)
(* for it.  Connections are numbered; 0 is none.                           *)
(***************************************************************************)
EXTENDS Naturals, Sequences, SequencesExt

CONSTANTS
  Doc,           \* uris of the workspace
  FirstVersion,  \* the version clients open their first text with
  Reused,        \* whether clients may give two texts of a uri one version
  MaxAttempts,   \* max_restart_attempts
  MaxTexts,      \* bound: texts that clients open or change documents to
  MaxInbox       \* bound: notifications that wait for the actor

LspConfig ==
  /\ FirstVersion \in Nat /\ Reused \in BOOLEAN
  /\ MaxAttempts \in Nat \ {0} /\ MaxTexts \in Nat /\ MaxInbox \in Nat

ASSUME LspAssumption == LspConfig

VARIABLES
  actor_at,     \* where run_actor is
  server_state, \* LspLifecycleState
  starts,       \* LspActor.attempt
  documents,    \* DocumentStore
  diagnostics,  \* DiagnosticStore
  connection,   \* LspActor.session
  spawned,      \* connections opened so far
  running,      \* connections whose process runs
  hears,        \* whether the read loop of the connection runs
  pipe,         \* notifications written and not yet read by the server
  view,         \* what the server takes for the open documents
  inbox,        \* notifications_rx
  stop_asked,   \* shutdown_rx
  texts         \* texts made so far

actorVars == <<actor_at, server_state, starts>>
storeVars == <<documents, diagnostics, texts>>
connectionVars == <<connection, spawned, running, hears, pipe, view, inbox>>
lspVars == <<actorVars, storeVars, connectionVars, stop_asked>>

Absent == [version |-> 0, text |-> 0]
Confused == [version |-> 0, text |-> MaxTexts + 1]
NoDocuments == [d \in Doc |-> Absent]
IsOpen(d) == documents[d] # Absent

Versions == FirstVersion .. (FirstVersion + MaxTexts)
NoVersion == FirstVersion + MaxTexts + 1
NoEntry == [state |-> "none", version |-> 0, text |-> 0]

LspInit ==
  /\ actor_at = "spawn" /\ server_state = "Starting" /\ starts = 1
  /\ documents = NoDocuments /\ diagnostics = [d \in Doc |-> NoEntry] /\ texts = 0
  /\ connection = 0 /\ spawned = 0 /\ running = {} /\ hears = FALSE
  /\ pipe = <<>> /\ view = NoDocuments /\ inbox = <<>> /\ stop_asked = FALSE

(***************************************************************************)
(* diagnostics.rs: staleness_of and staleness_after_doc_change.            *)
(***************************************************************************)
StalenessOf(published, version) ==
  IF published = NoVersion THEN "unknown" ELSE IF published = version THEN "fresh" ELSE "stale"

AfterChange(entry, version) ==
  IF entry.state = "none" \/ (entry.state = "fresh" /\ entry.version = version) THEN entry
  ELSE [entry EXCEPT !.state = "stale"]

(***************************************************************************)
(* The connection.                                                         *)
(***************************************************************************)
\* LspSession::close; what the receivers of the session held goes with them.
Disconnects ==
  /\ running' = running \ {connection} /\ connection' = 0 /\ hears' = FALSE
  /\ pipe' = <<>> /\ view' = NoDocuments /\ inbox' = <<>>
  /\ UNCHANGED spawned

\* enter_reconnecting: attempts are counted over the whole life of the actor.
EnterReconnecting ==
  /\ starts' = starts + 1
  /\ server_state' = IF starts' > MaxAttempts THEN "Failed" ELSE "Reconnecting"

(***************************************************************************)
(* do_start.                                                               *)
(***************************************************************************)
Spawn ==
  /\ actor_at = "spawn" /\ actor_at' = "shake" /\ server_state' = "Initializing"
  /\ spawned' = spawned + 1 /\ connection' = spawned' /\ running' = running \cup {spawned'}
  /\ hears' = TRUE
  /\ UNCHANGED <<starts, storeVars, pipe, view, inbox, stop_asked>>

SpawnFails ==
  /\ actor_at = "spawn" /\ actor_at' = "idle" /\ server_state' = "Failed"
  /\ UNCHANGED <<starts, storeVars, connectionVars, stop_asked>>

DidOpen(d) == [kind |-> "open", doc |-> d, as |-> documents[d]]

\* Mutant: a restarted server is not told of the documents.
Handshake_Forgetful ==
  /\ actor_at = "shake" /\ hears /\ actor_at' = "idle" /\ server_state' = "Ready"
  /\ diagnostics' = [d \in Doc |->
       IF IsOpen(d) THEN AfterChange(diagnostics[d], documents[d].version) ELSE diagnostics[d]]
  /\ UNCHANGED <<starts, documents, texts, connectionVars, stop_asked>>

\* The handshake is answered: the documents are replayed, refresh_all.
Handshake ==
  /\ actor_at = "shake" /\ hears /\ actor_at' = "idle" /\ server_state' = "Ready"
  /\ pipe' = IF connection \in running
               THEN SetToSeq({DidOpen(d) : d \in {e \in Doc : IsOpen(e)}}) ELSE pipe
  /\ diagnostics' = [d \in Doc |->
       IF IsOpen(d) THEN AfterChange(diagnostics[d], documents[d].version) ELSE diagnostics[d]]
  /\ UNCHANGED <<starts, documents, texts, connection, spawned, running, hears, view, inbox,
                 stop_asked>>

HandshakeFails ==
  /\ actor_at = "shake" /\ actor_at' = "idle" /\ EnterReconnecting /\ Disconnects
  /\ UNCHANGED <<storeVars, stop_asked>>

(***************************************************************************)
(* The select loop; its first branch is shutdown.                          *)
(***************************************************************************)
Selecting == actor_at = "idle" /\ ~stop_asked

\* handle_command: open, change and close are local; a server that is ready
\* is told.
Tells(kind, d, as) ==
  pipe' = IF server_state = "Ready" /\ connection \in running
            THEN Append(pipe, [kind |-> kind, doc |-> d, as |-> as]) ELSE pipe

Keeps == UNCHANGED <<actorVars, connection, spawned, running, hears, view, inbox, stop_asked>>

\* The names a client may give to its next text, after the version given.
NewVersions(after) ==
  {v \in Versions : after <= v /\ (Reused \/ v = FirstVersion + texts)}

Open(d) ==
  /\ Selecting /\ ~IsOpen(d) /\ texts < MaxTexts /\ texts' = texts + 1
  /\ \E v \in NewVersions(FirstVersion) :
       /\ documents' = [documents EXCEPT ![d] = [version |-> v, text |-> texts']]
       /\ Tells("open", d, documents'[d])
  /\ UNCHANGED diagnostics /\ Keeps

\* Mutant: a change leaves the diagnostics as they are.
Change_Quiet(d) ==
  /\ Selecting /\ IsOpen(d) /\ texts < MaxTexts /\ texts' = texts + 1
  /\ \E v \in NewVersions(documents[d].version) :
       documents' = [documents EXCEPT ![d] = [version |-> v, text |-> texts']]
  /\ Tells("change", d, documents'[d])
  /\ UNCHANGED diagnostics /\ Keeps

Change(d) ==
  /\ Selecting /\ IsOpen(d) /\ texts < MaxTexts /\ texts' = texts + 1
  /\ \E v \in NewVersions(documents[d].version) :
       /\ documents' = [documents EXCEPT ![d] = [version |-> v, text |-> texts']]
       /\ diagnostics' = [diagnostics EXCEPT ![d] = AfterChange(@, v)]
  /\ Tells("change", d, documents'[d])
  /\ Keeps

CloseDocument(d) ==
  /\ Selecting /\ IsOpen(d)
  /\ documents' = [documents EXCEPT ![d] = Absent]
  /\ diagnostics' = [diagnostics EXCEPT ![d] = NoEntry]
  /\ Tells("close", d, Absent)
  /\ UNCHANGED texts /\ Keeps

\* handle_notification: a document that is not open has version 0.
TakePublication ==
  /\ Selecting /\ inbox # <<>> /\ inbox' = Tail(inbox)
  /\ LET p == Head(inbox) IN
       diagnostics' = [diagnostics EXCEPT ![p.doc] =
         [state |-> StalenessOf(p.version, documents[p.doc].version),
          version |-> p.version, text |-> p.text]]
  /\ UNCHANGED <<actorVars, documents, texts, connection, spawned, running, hears, pipe, view,
                 stop_asked>>

\* on_transport_died.
SeesDeath ==
  /\ Selecting /\ server_state = "Ready" /\ connection # 0 /\ ~hears
  /\ EnterReconnecting /\ Disconnects
  /\ UNCHANGED <<actor_at, storeVars, stop_asked>>

\* check_liveness.
Ping ==
  /\ Selecting /\ server_state = "Ready" /\ actor_at' = "ping"
  /\ UNCHANGED <<server_state, starts, storeVars, connectionVars, stop_asked>>

PingAnswered ==
  /\ actor_at = "ping" /\ hears /\ actor_at' = "idle"
  /\ UNCHANGED <<server_state, starts, storeVars, connectionVars, stop_asked>>

\* No answer in time, a transport that closed, or an error as the answer.
PingFails ==
  /\ actor_at = "ping" /\ actor_at' = "idle" /\ EnterReconnecting /\ Disconnects
  /\ UNCHANGED <<storeVars, stop_asked>>

Restart ==
  /\ Selecting /\ server_state = "Reconnecting" /\ server_state' = "Starting" /\ actor_at' = "spawn"
  /\ UNCHANGED <<starts, storeVars, connectionVars, stop_asked>>

Stop ==
  /\ actor_at = "idle" /\ stop_asked /\ actor_at' = "stopping" /\ server_state' = "ShuttingDown"
  /\ UNCHANGED <<starts, storeVars, connectionVars, stop_asked>>

\* All handles are dropped.
SendersDropped ==
  /\ Selecting /\ actor_at' = "stopping"
  /\ UNCHANGED <<server_state, starts, storeVars, connectionVars, stop_asked>>

\* shutdown_sequence.
Stopped ==
  /\ actor_at = "stopping" /\ actor_at' = "over" /\ server_state' = "Stopped" /\ Disconnects
  /\ UNCHANGED <<starts, storeVars, stop_asked>>

AskStop ==
  /\ ~stop_asked /\ actor_at # "over" /\ stop_asked' = TRUE
  /\ UNCHANGED <<actorVars, storeVars, connectionVars>>

(***************************************************************************)
(* The server and the read loop.                                           *)
(***************************************************************************)
\* What a server that follows the protocol makes of a notification.
Understood(known, n) ==
  [known EXCEPT ![n.doc] =
     IF (n.kind = "open") = (@ = Absent) /\ @ # Confused
       THEN n.as ELSE Confused]

\* What it makes of several, one after the other.
AfterReading(known, notes) ==
  LET after[i \in 0 .. Len(notes)] ==
        IF i = 0 THEN known ELSE Understood(after[i - 1], notes[i])
  IN  after[Len(notes)]

ServerReads ==
  /\ connection \in running /\ pipe # <<>>
  /\ view' = Understood(view, Head(pipe)) /\ pipe' = Tail(pipe)
  /\ UNCHANGED <<actorVars, storeVars, connection, spawned, running, hears, inbox, stop_asked>>

\* Diagnostics of what the server has, with its version or without.
ServerPublishes(d) ==
  /\ connection \in running /\ hears /\ Len(inbox) < MaxInbox
  /\ \E v \in {NoVersion} \cup (IF view[d] = Absent THEN {} ELSE {view[d].version}) :
       inbox' = Append(inbox, [doc |-> d, version |-> v, text |-> view[d].text])
  /\ UNCHANGED <<actorVars, storeVars, connection, spawned, running, hears, pipe, view,
                 stop_asked>>

ServerExits ==
  /\ connection \in running /\ running' = running \ {connection}
  /\ UNCHANGED <<actorVars, storeVars, connection, spawned, hears, pipe, view, inbox, stop_asked>>

\* read_loop returns: the stream ended, or a frame was bad.
ReadLoopEnds ==
  /\ hears /\ hears' = FALSE
  /\ UNCHANGED <<actorVars, storeVars, connection, spawned, running, pipe, view, inbox,
                 stop_asked>>

(***************************************************************************)
(* The next-state relation.                                                *)
(***************************************************************************)
ActorStep ==
  \/ Spawn \/ SpawnFails \/ Handshake \/ HandshakeFails
  \/ TakePublication \/ SeesDeath \/ Ping \/ PingAnswered \/ PingFails \/ Restart
  \/ Stop \/ Stopped
  \/ \E d \in Doc : Open(d) \/ Change(d) \/ CloseDocument(d)

LspNext ==
  \/ ActorStep \/ SendersDropped \/ AskStop
  \/ ServerReads \/ ServerExits \/ ReadLoopEnds \/ \E d \in Doc : ServerPublishes(d)

LspSpec == LspInit /\ [][LspNext]_lspVars

(***************************************************************************)
(* Properties.                                                             *)
(***************************************************************************)
\* Every variable has its type (LspLifecycleState, DiagnosticStaleness).
LspTypeOK ==
  /\ actor_at \in {"spawn", "shake", "idle", "ping", "stopping", "over"}
  /\ server_state \in {"Starting", "Initializing", "Ready", "Reconnecting", "Failed",
                       "ShuttingDown", "Stopped"}
  /\ starts \in 1 .. (MaxAttempts + 1) /\ connection \in 0 .. spawned
  /\ running \subseteq 1 .. spawned /\ {hears, stop_asked} \subseteq BOOLEAN
  /\ \A d \in Doc :
       /\ documents[d] \in {Absent} \cup [version : Versions, text : 1 .. texts]
       /\ diagnostics[d].state \in {"none", "fresh", "stale", "unknown"}

\* Once a server that is ready has read all it was sent it has the documents
\* that are open, in their current text, restarts or not (actor.rs:567).
ServerSeesDocuments ==
  (server_state = "Ready" /\ connection \in running) => AfterReading(view, pipe) = documents

\* Diagnostics called fresh describe the text the document has
\* (diagnostics.rs:15).
FreshDescribesText ==
  \A d \in Doc :
    (IsOpen(d) /\ diagnostics[d].state = "fresh") => diagnostics[d].text = documents[d].text

\* The server and the client agree on the documents, in both directions.
DocumentsAgree == ServerSeesDocuments /\ FreshDescribesText

=============================================================================
