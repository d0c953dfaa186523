------------------------------- MODULE McpServer -------------------------------
(***************************************************************************)
(* An MCP server as extension-host drives it: mcp/lifecycle.rs (the task   *)
(* of a server: connect, handshake, discovery, liveness, reconnect; start  *)
(* and shutdown of the host), mcp/state.rs (its lifecycle states),         *)
(* mcp/server_handle.rs (tool calls through the session in the slot) and   *)
(* mcp/transport.rs (sessions, their process and read loop).               *)
(*                                                                         *)
(* Sessions of a server are numbered; 0 is none.  A step is what happens   *)
(* between two awaits.  Stdio sessions have a process and a read loop,     *)
(* HTTP sessions neither: their senders of death and of notifications are  *)
(* dropped when the session opens.                                         *)
(***************************************************************************)
EXTENDS Naturals, FiniteSets

CONSTANTS
  Server,       \* enabled servers
  ToolCall,     \* calls of call_tool
  ServerOf,     \* the server of each
  MaxSessions,  \* bound: sessions opened per server
  MaxNotices,   \* bound: tools/list_changed notifications per server
  MaxDeaths     \* bound: processes that exit, streams that become unreadable

McpConfig ==
  /\ ServerOf \in [ToolCall -> Server]
  /\ {MaxSessions, MaxNotices, MaxDeaths} \subseteq Nat

ASSUME McpAssumption == McpConfig

VARIABLES
  http,           \* servers whose configuration has an HTTP transport
  host,           \* HostMcpState
  shut,           \* servers whose slot shutdown has emptied
  life,           \* ServerLifecycleState
  place,          \* where the task of each server is
  session,        \* the session of its connect_and_serve
  slot,           \* the session in the handle
  opened,         \* sessions opened so far
  alive,          \* sessions whose process runs
  hearing,        \* sessions whose read loop runs
  silent,         \* servers that no longer answer
  notice,         \* servers with a list_changed in the channel
  notices,        \* notifications sent so far
  deaths,         \* faults so far
  tools,          \* the session each cached tool list came from
  tools_version,  \* version of the tool set
  version_read,   \* what the task has read of it and not yet sent
  calls           \* tool calls: at, and the session each holds

taskVarsOf == <<life, place, session>>
sessionVars == <<slot, opened, alive, hearing>>
peerVars == <<silent, notice, notices, deaths>>
toolVars == <<tools, tools_version, version_read>>
hostVars == <<http, host, shut>>
mcpVars == <<hostVars, taskVarsOf, sessionVars, peerVars, toolVars, calls>>

Resting == [at |-> "idle", on |-> 0]
Over == [at |-> "done", on |-> 0]
Cancelled == host \in {"stopping", "stopped"}

McpInit ==
  /\ http \in SUBSET Server /\ host = "idle" /\ shut = {}
  /\ life = [s \in Server |-> "Disconnected"] /\ place = [s \in Server |-> "down"]
  /\ session = [s \in Server |-> 0] /\ slot = [s \in Server |-> 0]
  /\ opened = [s \in Server |-> 0]
  /\ alive = [s \in Server |-> {}] /\ hearing = [s \in Server |-> {}]
  /\ silent = {} /\ notice = {} /\ notices = [s \in Server |-> 0] /\ deaths = 0
  /\ tools = [s \in Server |-> 0] /\ tools_version = 0
  /\ version_read = [s \in Server |-> 0]
  /\ calls = [c \in ToolCall |-> Resting]

(***************************************************************************)
(* state.rs: apply_event; an event without a row is refused.               *)
(***************************************************************************)
Transitions ==
  { <<"Disconnected", "Connect", "Connecting">>, <<"Reconnecting", "Connect", "Connecting">>,
    <<"Failed", "Reconnect", "Reconnecting">>,
    <<"Reconnecting", "ConnectFailed", "Reconnecting">>,
    <<"Connecting", "HandshakeStarted", "Initializing">>,
    <<"Connecting", "ConnectFailed", "Failed">>, <<"Initializing", "ConnectFailed", "Failed">>,
    <<"Initializing", "Ready", "Ready">>, <<"Ready", "ConnectFailed", "Reconnecting">>,
    <<"Connecting", "Connect", "Connecting">>,
    <<"Initializing", "HandshakeStarted", "Initializing">>, <<"Ready", "Ready", "Ready">> }

ApplyEvent(state, event) ==
  CASE event = "Shutdown" -> "Terminated"
    [] \E t \in Transitions : t[1] = state /\ t[2] = event ->
         (CHOOSE t \in Transitions : t[1] = state /\ t[2] = event)[3]
    [] OTHER -> state

Transition(s, event) == life' = [life EXCEPT ![s] = ApplyEvent(@, event)]
Goes(s, to) == place' = [place EXCEPT ![s] = to]

\* ServeOutcome::Failed in McpServerTask::run: whoever was Ready is retried.
Fails(s) ==
  /\ Transition(s, "ConnectFailed")
  /\ Goes(s, IF life[s] = "Ready" THEN "backoff" ELSE "teardown")

\* A request on session n is answered, and not cancelled first.
Answers(s, n) == ~Cancelled /\ s \notin silent /\ (s \in http \/ n \in hearing[s] \cap alive[s])

\* RpcSession::close.
Close(s, n) ==
  /\ alive' = [alive EXCEPT ![s] = @ \ {n}]
  /\ hearing' = [hearing EXCEPT ![s] = @ \ {n}]

\* A session that nothing refers to is dropped, and its process with it.
Dropping(s, kept, now) ==
  LET held == {kept} \cup {now[c].on : c \in {d \in ToolCall : ServerOf[d] = s}} IN
  /\ alive' = [alive EXCEPT ![s] = @ \cap (held \cup {session[s]})]
  /\ UNCHANGED hearing

(***************************************************************************)
(* McpServerTask::connect_and_serve up to Ready.                           *)
(***************************************************************************)
Attempt(s) ==
  /\ place[s] = "head" /\ Goes(s, IF Cancelled THEN "teardown" ELSE "open")
  /\ UNCHANGED <<hostVars, life, session, sessionVars, peerVars, toolVars, calls>>

Open(s) ==
  /\ place[s] = "open" /\ opened[s] < MaxSessions
  /\ LET n == opened[s] + 1 IN
       /\ opened' = [opened EXCEPT ![s] = n] /\ session' = [session EXCEPT ![s] = n]
       /\ IF s \in http THEN UNCHANGED <<alive, hearing>>
            ELSE /\ alive' = [alive EXCEPT ![s] = @ \cup {n}]
                 /\ hearing' = [hearing EXCEPT ![s] = @ \cup {n}]
  /\ Transition(s, "HandshakeStarted") /\ Goes(s, "shake")
  /\ UNCHANGED <<hostVars, slot, peerVars, toolVars, calls>>

OpenFails(s) ==
  /\ place[s] = "open" /\ Fails(s)
  /\ UNCHANGED <<hostVars, session, sessionVars, peerVars, toolVars, calls>>

Shake(s) ==
  /\ place[s] = "shake" /\ Answers(s, session[s]) /\ Goes(s, "discover")
  /\ UNCHANGED <<hostVars, life, session, sessionVars, peerVars, toolVars, calls>>

\* Timeout, error, death or cancellation during handshake or discovery.
ShakeFails(s) ==
  /\ place[s] \in {"shake", "discover"} /\ Fails(s) /\ Close(s, session[s])
  /\ UNCHANGED <<hostVars, session, slot, opened, peerVars, toolVars, calls>>

\* Mutant: a cached tool list is good enough for a new session.
Discover_Cached(s) ==
  /\ place[s] \in {"discover", "refresh"} /\ Answers(s, session[s]) /\ Goes(s, "publish")
  /\ tools' = [tools EXCEPT ![s] = IF @ = 0 THEN session[s] ELSE @]
  /\ version_read' = [version_read EXCEPT ![s] = tools_version]
  /\ UNCHANGED <<hostVars, life, session, sessionVars, peerVars, tools_version, calls>>

\* discover_tools: the cache is written, and the version is read and sent.
Discover(s) ==
  /\ place[s] \in {"discover", "refresh"} /\ Answers(s, session[s]) /\ Goes(s, "publish")
  /\ tools' = [tools EXCEPT ![s] = session[s]]
  /\ version_read' = [version_read EXCEPT ![s] = tools_version]
  /\ UNCHANGED <<hostVars, life, session, sessionVars, peerVars, tools_version, calls>>

PublishTools(s) ==
  /\ place[s] = "publish" /\ tools_version' = version_read[s] + 1
  /\ Goes(s, IF life[s] = "Ready" THEN "serve" ELSE "store")
  /\ UNCHANGED <<hostVars, life, session, sessionVars, peerVars, tools, version_read, calls>>

Store(s) ==
  /\ place[s] = "store" /\ slot' = [slot EXCEPT ![s] = session[s]]
  /\ Dropping(s, session[s], calls)
  /\ Transition(s, "Ready") /\ Goes(s, "serve")
  /\ UNCHANGED <<hostVars, session, opened, peerVars, toolVars, calls>>

(***************************************************************************)
(* The Ready loop: a biased select! over cancellation, death, the          *)
(* notifications and the ping.                                             *)
(***************************************************************************)
Serving(s) == place[s] = "serve" /\ slot[s] # 0 /\ ~Cancelled

\* died_rx.changed() is ready: the read loop reported, or there is no sender.
DiedReady(s) == s \in http \/ session[s] \notin hearing[s]

ServeEnds(s) ==
  /\ place[s] = "serve" /\ (Cancelled \/ slot[s] = 0) /\ Goes(s, "teardown")
  /\ UNCHANGED <<hostVars, life, session, sessionVars, peerVars, toolVars, calls>>

SeesDeath(s) ==
  /\ Serving(s) /\ DiedReady(s) /\ s \notin http /\ Fails(s)
  /\ UNCHANGED <<hostVars, session, sessionVars, peerVars, toolVars, calls>>

TakeNotice(s) ==
  /\ Serving(s) /\ ~DiedReady(s) /\ s \in notice
  /\ notice' = notice \ {s} /\ Goes(s, "refresh")
  /\ UNCHANGED <<hostVars, life, session, sessionVars, silent, notices, deaths, toolVars, calls>>

RefreshFails(s) ==
  /\ place[s] = "refresh" /\ Goes(s, "serve")
  /\ UNCHANGED <<hostVars, life, session, sessionVars, peerVars, toolVars, calls>>

Ping(s) ==
  /\ Serving(s) /\ ~DiedReady(s) /\ s \notin notice /\ Goes(s, "ping")
  /\ UNCHANGED <<hostVars, life, session, sessionVars, peerVars, toolVars, calls>>

PingAnswered(s) ==
  /\ place[s] = "ping" /\ Answers(s, session[s]) /\ Goes(s, "serve")
  /\ UNCHANGED <<hostVars, life, session, sessionVars, peerVars, toolVars, calls>>

\* Mutant: a ping without an answer is only logged.
PingFails_Logged(s) ==
  /\ place[s] = "ping" /\ Goes(s, "serve")
  /\ UNCHANGED <<hostVars, life, session, sessionVars, peerVars, toolVars, calls>>

PingFails(s) ==
  /\ place[s] = "ping" /\ Fails(s)
  /\ UNCHANGED <<hostVars, session, sessionVars, peerVars, toolVars, calls>>

Backoff(s) ==
  /\ place[s] = "backoff"
  /\ IF Cancelled THEN Goes(s, "teardown") /\ UNCHANGED life
                  ELSE Goes(s, "head") /\ Transition(s, "Connect")
  /\ UNCHANGED <<hostVars, session, sessionVars, peerVars, toolVars, calls>>

\* Mutant: the task ends without a look at its slot.
Teardown_Keeps(s) ==
  /\ place[s] = "teardown" /\ Transition(s, "Shutdown") /\ Goes(s, "ended")
  /\ UNCHANGED <<hostVars, session, sessionVars, peerVars, toolVars, calls>>

Teardown(s) ==
  /\ place[s] = "teardown" /\ Close(s, slot[s]) /\ slot' = [slot EXCEPT ![s] = 0]
  /\ Transition(s, "Shutdown") /\ Goes(s, "ended")
  /\ UNCHANGED <<hostVars, session, opened, peerVars, toolVars, calls>>

(***************************************************************************)
(* The host.                                                               *)
(***************************************************************************)
Start ==
  /\ host = "idle" /\ host' = "running"
  /\ place' = [s \in Server |-> "head"]
  /\ life' = [s \in Server |-> ApplyEvent(life[s], "Connect")]
  /\ UNCHANGED <<http, shut, session, sessionVars, peerVars, toolVars, calls>>

Shutdown ==
  /\ host \in {"idle", "running"} /\ host' = IF host = "idle" THEN "stopped" ELSE "stopping"
  /\ UNCHANGED <<http, shut, taskVarsOf, sessionVars, peerVars, toolVars, calls>>

EmptySlot(s) ==
  /\ host = "stopping" /\ s \notin shut /\ shut' = shut \cup {s}
  /\ Close(s, slot[s]) /\ slot' = [slot EXCEPT ![s] = 0]
  /\ UNCHANGED <<http, host, taskVarsOf, opened, peerVars, toolVars, calls>>

Halt ==
  /\ host = "stopping" /\ shut = Server /\ host' = "stopped"
  /\ UNCHANGED <<http, shut, taskVarsOf, sessionVars, peerVars, toolVars, calls>>

(***************************************************************************)
(* McpServerHandle::call_tool.                                             *)
(***************************************************************************)
\* A request takes the session out of the slot, whatever state the server is in.
TakeSession(c, at) ==
  LET n == slot[ServerOf[c]] IN
  calls' = [calls EXCEPT ![c] = IF n = 0 THEN Over ELSE [at |-> at, on |-> n]]

CallTool(c) ==
  /\ calls[c] = Resting /\ TakeSession(c, "first")
  /\ UNCHANGED <<hostVars, taskVarsOf, sessionVars, peerVars, toolVars>>

Release(c, next) ==
  LET s == ServerOf[c] IN
  /\ calls' = [calls EXCEPT ![c] = next]
  /\ IF s \in http THEN UNCHANGED <<alive, hearing>> ELSE Dropping(s, slot[s], calls')
  /\ UNCHANGED <<hostVars, taskVarsOf, slot, opened, peerVars, toolVars>>

\* Answered, refused, timed out, cancelled, or failed by a dead transport.
CallEnds(c) == calls[c].at \in {"first", "second"} /\ Release(c, Over)

\* A 401 is followed by one attempt to renew the credentials.
Unauthorized(c) ==
  /\ calls[c].at = "first" /\ Answers(ServerOf[c], calls[c].on)
  /\ Release(c, [at |-> "renew", on |-> 0])

Renewed(c) ==
  /\ calls[c].at = "renew" /\ (TakeSession(c, "second") \/ calls' = [calls EXCEPT ![c] = Over])
  /\ UNCHANGED <<hostVars, taskVarsOf, sessionVars, peerVars, toolVars>>

(***************************************************************************)
(* The other side.                                                         *)
(***************************************************************************)
ProcessExits(s, n) ==
  /\ n \in alive[s] /\ deaths < MaxDeaths /\ deaths' = deaths + 1
  /\ alive' = [alive EXCEPT ![s] = @ \ {n}]
  /\ UNCHANGED <<hostVars, taskVarsOf, slot, opened, hearing, silent, notice, notices, toolVars,
                 calls>>

\* read_loop returns at the end of the stream, or at a line it cannot trust;
\* the requests in flight fail (CallEnds).
ReaderEnds(s, n) ==
  /\ n \in hearing[s]
  /\ IF n \notin alive[s] THEN UNCHANGED deaths ELSE deaths < MaxDeaths /\ deaths' = deaths + 1
  /\ hearing' = [hearing EXCEPT ![s] = @ \ {n}]
  /\ UNCHANGED <<hostVars, taskVarsOf, slot, opened, alive, silent, notice, notices, toolVars,
                 calls>>

FallsSilent(s) ==
  /\ s \notin silent /\ silent' = silent \cup {s}
  /\ UNCHANGED <<hostVars, taskVarsOf, sessionVars, notice, notices, deaths, toolVars, calls>>

Notify(s) ==
  /\ session[s] \in hearing[s] \cap alive[s] /\ s \notin silent /\ s \notin notice
  /\ place[s] \in {"serve", "ping"} /\ notices[s] < MaxNotices
  /\ notice' = notice \cup {s} /\ notices' = [notices EXCEPT ![s] = @ + 1]
  /\ UNCHANGED <<hostVars, taskVarsOf, sessionVars, silent, deaths, toolVars, calls>>

(***************************************************************************)
(* The next-state relation.                                                *)
(***************************************************************************)
TaskStep(s) ==
  \/ Attempt(s) \/ Open(s) \/ OpenFails(s) \/ Shake(s) \/ ShakeFails(s) \/ Discover(s)
  \/ PublishTools(s) \/ Store(s) \/ ServeEnds(s) \/ SeesDeath(s) \/ TakeNotice(s) \/ RefreshFails(s)
  \/ Ping(s) \/ PingAnswered(s) \/ PingFails(s) \/ Backoff(s) \/ Teardown(s)
HostStep == (\E s \in Server : EmptySlot(s)) \/ Halt
UnheardReaderEnds(s) == \E n \in 1 .. opened[s] : n \notin alive[s] /\ ReaderEnds(s, n)
ToolStep(c) == CallEnds(c) \/ Unauthorized(c) \/ Renewed(c)

McpNext ==
  \/ Start \/ Shutdown \/ HostStep
  \/ \E s \in Server :
       \/ TaskStep(s) \/ FallsSilent(s) \/ Notify(s)
       \/ \E n \in 1 .. opened[s] : ProcessExits(s, n) \/ ReaderEnds(s, n)
  \/ \E c \in ToolCall : CallTool(c) \/ ToolStep(c)

\* Tasks are scheduled, waits are bounded by timeouts, and what does not
\* answer is found out.
McpFairness ==
  /\ \A s \in Server :
       /\ WF_mcpVars(TaskStep(s))
       /\ WF_mcpVars(UnheardReaderEnds(s))
  /\ \A c \in ToolCall : WF_mcpVars(ToolStep(c))
  /\ WF_mcpVars(HostStep)

McpSpec == McpInit /\ [][McpNext]_mcpVars /\ McpFairness

(***************************************************************************)
(* Properties.                                                             *)
(***************************************************************************)
\* Every variable has its type.
McpTypeOK ==
  /\ http \subseteq Server /\ host \in {"idle", "running", "stopping", "stopped"} /\ shut \subseteq Server
  /\ life \in [Server -> {"Disconnected", "Connecting", "Initializing", "Ready", "Reconnecting",
                          "Failed", "Terminated"}]
  /\ place \in [Server -> {"down", "head", "open", "shake", "discover", "publish", "store",
                           "serve", "refresh", "ping", "backoff", "teardown", "ended"}]
  /\ \A s \in Server :
       /\ {session[s], slot[s], tools[s]} \subseteq 0 .. opened[s]
       /\ alive[s] \cup hearing[s] \subseteq 1 .. opened[s] /\ opened[s] \leq MaxSessions
  /\ silent \subseteq Server /\ notice \subseteq Server /\ tools_version \in Nat
  /\ calls \in [ToolCall -> [at : {"idle", "first", "renew", "second", "done"},
                             on : 0 .. MaxSessions]]

\* When the task of a server has ended and no call holds a session, none of
\* the processes it started runs (mcp/lifecycle.rs:29).
NothingLeftRunning ==
  \A s \in Server :
    (place[s] = "ended" /\ \A c \in ToolCall : ServerOf[c] # s \/ calls[c].on = 0)
      => alive[s] = {}

\* A server that is Ready serves the session of its latest handshake, with
\* the tools that session has listed (mcp/lifecycle.rs:22).
ReadyServesLatest ==
  \A s \in Server :
    (life[s] = "Ready" /\ host = "running")
      => slot[s] = opened[s] /\ tools[s] = opened[s] /\ session[s] = opened[s]

\* A server that is Ready, and no longer answers or is shut down, does not
\* stay Ready (mcp/lifecycle.rs:20).  Silence goes unnoticed over HTTP, where
\* the death branch of the select! is always ready and no ping is sent.
SilentServerNoticed ==
  \A s \in Server :
    (life[s] = "Ready" /\ ((s \in silent /\ s \notin http) \/ Cancelled)) ~> (life[s] # "Ready")
=============================================================================
