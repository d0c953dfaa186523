---------------------------- MODULE ProviderSend ----------------------------
(***************************************************************************)
(* Concurrent provider invocations sharing one circuit breaker:            *)
(* send_json_stream_with_resilience in crates/ai/src/transport/http.rs.    *)
(*                                                                         *)
(* Each caller runs one invocation at a time; AiClient::stream_model gives *)
(* every invocation of the same (provider, api) the same breaker.  A step  *)
(* is what the send loop does between two awaits.  The server, the network *)
(* and the credential source are the environment: the constant Replies is  *)
(* the set of statuses it may answer and Features the failures it may show.*)
(***************************************************************************)
EXTENDS CircuitBreaker

CONSTANTS
    Callers,        \* concurrent callers of AiClient::stream_model
    MaxRetries,     \* RetryConfig.max_retries
    Replies,        \* statuses the server answers, see Status
    Features        \* optional behaviours, see Feature

\* HTTP statuses up to what the send loop tells apart.
Status == {"success", "unauthorized", "config", "retryable"}

\* network, timeout, cancel: how a wait may end; hook, build: callbacks that may
\* fail; refresh: a 401 refresh callback is installed.
Feature == {"network", "timeout", "cancel", "hook", "build", "refresh"}

ASSUME SendAssumption ==
    /\ MaxRetries \in Nat
    /\ Replies \subseteq Status
    /\ Features \subseteq Feature

VARIABLES
    pc,         \* where each caller's invocation awaits
    attempt,    \* loop counter of the invocation
    refreshed,  \* auth_refreshed
    reply,      \* status of the response in hand
    sends,      \* history: requests sent by the invocation
    slots       \* history: callers with an unresolved attempt of this half-open spell

\* Bound on the history counter sends, above anything the code can reach.
SendCap == MaxRetries + 3

callVars == <<pc, attempt, refreshed, reply, sends>>
vars == <<breakerVars, callVars, slots>>

SendTypeOK ==
    /\ TypeOK
    /\ pc \in [Callers -> {"idle", "payload_hook", "gate", "sending",
                           "response", "backoff", "streaming", "done"}]
    /\ attempt \in [Callers -> 0..MaxRetries]
    /\ refreshed \in [Callers -> BOOLEAN]
    /\ reply \in [Callers -> Status \cup {"none"}]
    /\ sends \in [Callers -> Nat]
    /\ slots \subseteq Callers
-----------------------------------------------------------------------------
SendInit ==
    /\ Init
    /\ pc = [c \in Callers |-> "idle"]
    /\ attempt = [c \in Callers |-> 0]
    /\ refreshed = [c \in Callers |-> FALSE]
    /\ reply = [c \in Callers |-> "none"]
    /\ sends = [c \in Callers |-> 0]
    /\ slots = {}

Goto(c, l) == pc' = [pc EXCEPT ![c] = l]

\* The stream yields its last event (which ProviderError it carries is left
\* out) and ends.
End(c) == Goto(c, "done")

\* The response head has been dealt with.
Drop(c) == reply' = [reply EXCEPT ![c] = "none"]

\* History bookkeeping of an attempt that was admitted, or whose outcome was
\* recorded, or that was given up (its slot then stays taken).
Admitted(c) ==
    slots' = IF state' = "HalfOpen" THEN slots \cup {c} ELSE slots

Recorded(c) ==
    slots' = IF state' = "HalfOpen" THEN slots \ {c} ELSE {}

Forgotten(c) ==
    /\ slots' = slots \ {c}
    /\ UNCHANGED breakerVars

\* A new invocation: option validation and timeout_ms = 0 end it at once.
Begin(c) ==
    /\ pc[c] = "idle"
    /\ \/ End(c)
       \/ Goto(c, "payload_hook")
    /\ UNCHANGED <<breakerVars, attempt, refreshed, reply, sends, slots>>

\* hooks.apply_payload
PayloadHook(c) ==
    /\ pc[c] = "payload_hook"
    /\ \/ Goto(c, "gate")
       \/ "hook" \in Features /\ End(c)
    /\ UNCHANGED <<breakerVars, attempt, refreshed, reply, sends, slots>>

\* before_request, build_request and the first poll of send, without an await.
Gate(c) ==
    /\ pc[c] = "gate"
    /\ \/ /\ BeforeRequestReject
          /\ End(c)
          /\ UNCHANGED <<sends, slots>>
       \/ /\ BeforeRequestAllow
          /\ Admitted(c)
          /\ Goto(c, "sending")
          /\ sends' = [sends EXCEPT ![c] = IF @ < SendCap THEN @ + 1 ELSE @]
         
       \/ /\ "build" \in Features
          /\ BeforeRequestAllow
          /\ End(c)
          /\ UNCHANGED <<sends, slots>>
    /\ UNCHANGED <<attempt, refreshed, reply>>

\* request.send() fails: record it, then back off while retries remain.
SendFails(c) ==
    /\ pc[c] = "sending"
    /\ "network" \in Features
    /\ RecordFailure
    /\ Recorded(c)
    /\ IF attempt[c] < MaxRetries
       THEN Goto(c, "backoff")
       ELSE End(c)
    /\ UNCHANGED <<attempt, refreshed, reply, sends>>

\* The invocation deadline passes while the request is in flight.
SendTimesOut(c) ==
    /\ pc[c] = "sending"
    /\ "timeout" \in Features
    /\ RecordFailure
    /\ Recorded(c)
    /\ End(c)
    /\ UNCHANGED <<attempt, refreshed, reply, sends>>

\* The response head arrives; the response hook, if any, runs next.
SendResponds(c) ==
    /\ pc[c] = "sending"
    /\ Goto(c, "response")
    /\ \E s \in Replies : reply' = [reply EXCEPT ![c] = s]
    /\ UNCHANGED <<breakerVars, attempt, refreshed, sends, slots>>

\* hooks.emit_response fails: the invocation ends before the status is looked at.
ResponseHookFails(c) ==
    /\ pc[c] = "response"
    /\ "hook" \in Features
    /\ End(c)
    /\ Forgotten(c)
    /\ UNCHANGED <<attempt, refreshed, reply, sends>>

\* A success status is recorded before the body is streamed.
RespondSuccess(c) ==
    /\ pc[c] = "response"
    /\ reply[c] = "success"
    /\ RecordSuccess
    /\ Recorded(c)
    /\ Goto(c, "streaming")
    /\ Drop(c)
    /\ UNCHANGED <<attempt, refreshed, sends>>

\* Mutant: auth_refreshed is not set, so every 401 is refreshed.
RefreshAuth_Forgets(c) ==
    /\ pc[c] = "response"
    /\ reply[c] = "unauthorized"
    /\ "refresh" \in Features
    /\ Goto(c, "gate")
    /\ Forgotten(c)
    /\ Drop(c)
    /\ UNCHANGED <<attempt, refreshed, sends>>

\* First 401 with a refresh callback that finds a fresher credential: back to
\* the top of the loop, same attempt, nothing recorded.
RefreshAuth(c) ==
    /\ pc[c] = "response"
    /\ reply[c] = "unauthorized"
    /\ ~refreshed[c]
    /\ "refresh" \in Features
    /\ refreshed' = [refreshed EXCEPT ![c] = TRUE]
    /\ Goto(c, "gate")
    /\ Forgotten(c)
    /\ Drop(c)
    /\ UNCHANGED <<attempt, sends>>

\* Any other failure status: recorded as a failure whatever it is; only a
\* retryable one is tried again, unless Retry-After exceeds the limit.
RespondFailure(c) ==
    /\ pc[c] = "response"
    /\ reply[c] # "success"
    /\ RecordFailure
    /\ Recorded(c)
    /\ IF reply[c] = "retryable" /\ attempt[c] < MaxRetries
       THEN \/ Goto(c, "backoff")
            \/ End(c)
       ELSE End(c)
    /\ Drop(c)
    /\ UNCHANGED <<attempt, refreshed, sends>>

\* The backoff sleep ends.
Retry(c) ==
    /\ pc[c] = "backoff"
    /\ attempt' = [attempt EXCEPT ![c] = @ + 1]
    /\ Goto(c, "gate")
    /\ UNCHANGED <<breakerVars, refreshed, reply, sends, slots>>

\* The body is streamed to its end.
StreamEnds(c) ==
    /\ pc[c] = "streaming"
    /\ End(c)
    /\ UNCHANGED <<breakerVars, attempt, refreshed, reply, sends, slots>>

\* Cancellation ends any wait (the response wait is only the hook's), and so
\* does the deadline in every wait but the request itself.
WaitInterrupted(c) ==
    /\ \/ /\ "cancel" \in Features
          /\ \/ pc[c] \in {"payload_hook", "sending", "backoff", "streaming"}
             \/ pc[c] = "response" /\ "hook" \in Features
          /\ End(c)
       \/ /\ "timeout" \in Features
          /\ \/ pc[c] \in {"payload_hook", "backoff", "streaming"}
             \/ pc[c] = "response" /\ "hook" \in Features
          /\ End(c)
    /\ Forgotten(c)
    /\ UNCHANGED <<attempt, refreshed, reply, sends>>

\* The stream is dropped with its locals; the caller may invoke again.
Again(c) ==
    /\ pc[c] = "done"
    /\ Goto(c, "idle")
    /\ attempt' = [attempt EXCEPT ![c] = 0]
    /\ refreshed' = [refreshed EXCEPT ![c] = FALSE]
    /\ reply' = [reply EXCEPT ![c] = "none"]
    /\ sends' = [sends EXCEPT ![c] = 0]
    /\ UNCHANGED <<breakerVars, slots>>

Complete(c) == SendFails(c) \/ SendTimesOut(c) \/ SendResponds(c)

HandleResponse(c) ==
    ResponseHookFails(c) \/ RespondSuccess(c) \/ RefreshAuth(c) \/ RespondFailure(c)

Progress(c) ==
    \/ PayloadHook(c)
    \/ Gate(c)
    \/ Complete(c)
    \/ HandleResponse(c)
    \/ Retry(c)
    \/ StreamEnds(c)

ClockTick == Tick /\ UNCHANGED <<callVars, slots>>

SendNext ==
    \/ \E c \in Callers : Begin(c) \/ Progress(c) \/ WaitInterrupted(c) \/ Again(c)
    \/ ClockTick

SendSpec == SendInit /\ [][SendNext]_vars

\* The executor keeps polling a started stream, requests and sleeps complete
\* and time passes; nothing obliges anyone to cancel.
Fairness ==
    /\ \A c \in Callers : WF_vars(Progress(c))
    /\ WF_vars(ClockTick)

\* ... and callers keep coming back.
Traffic == \A c \in Callers : WF_vars(Begin(c) /\ pc'[c] # "done") /\ WF_vars(Again(c))

FairSendSpec == SendSpec /\ Fairness
BusySendSpec == SendSpec /\ Fairness /\ Traffic
-----------------------------------------------------------------------------
\* However callers, refreshes and retries interleave, one invocation sends at
\* most max_retries + 1 requests, plus one after a 401 credential refresh.
SendBudget ==
    \A c \in Callers :
        sends[c] <= MaxRetries + 1 + (IF refreshed[c] THEN 1 ELSE 0)

\* Every attempt admitted in the current half-open spell and still unresolved
\* holds one of the breaker's probe slots, so no more than half_open_max_probes
\* of them are in flight.
SlotsCoverProbes ==
    state = "HalfOpen" => Cardinality(slots) <= probes_in_flight

\* Every started invocation ends: retries are bounded, the refresh is tried
\* once and a rejected attempt is not retried.
EveryCallEnds == \A c \in Callers : pc[c] = "gate" ~> pc[c] = "done"

\* A half-open breaker is resolved by its probes: it closes or reopens.
HalfOpenResolves == state = "HalfOpen" ~> state # "HalfOpen"
=============================================================================
