---------------------------- MODULE ExchangeProofs ----------------------------
(***************************************************************************)
(* What passes between the agent and those it talks to, for any number of  *)
(* them and any bounds.  A conversation, however it grows and however      *)
(* often it is cut, keeps every tool call together with its results.  The  *)
(* send loops drive the circuit breaker they share only through its own    *)
(* operations, so that what holds of one breaker under an arbitrary client *)
(* carries over to any number of callers.  A front end that follows the    *)
(* product events skips none of them.                                      *)
(***************************************************************************)
EXTENDS CompactionHistory, CompactionProofs, ProviderSend, EventStream, FiniteSetTheorems

(***************************************************************************)
(* Conversations.                                                          *)
(***************************************************************************)
\* The conversation between two steps.
HistoryInv ==
  /\ messages \in Seq(Messages) /\ usage \in 0..Len(messages)
  /\ Len(messages) <= MaxMessages /\ CallsAnswered(messages)

\* One message or one tool turn more, or a cut.
LEMMA HistoryStep == HistoryInv /\ [HistoryNext]_historyVars => HistoryInv'
<1> SUFFICES ASSUME HistoryInv, [HistoryNext]_historyVars PROVE HistoryInv'
  OBVIOUS
<1>0. /\ messages \in Seq(Messages) /\ usage \in 0..Len(messages) /\ CallsAnswered(messages)
      /\ Len(messages) \in Nat /\ MaxMessages \in Nat
  BY HistoryAssumption DEF HistoryInv
<1>1. CASE AppendUser
  <2>1. PICK t \in Nat : /\ messages' = Append(messages, Message("user", 0, t))
                          /\ usage' = usage /\ Len(messages) < MaxMessages
    BY <1>1, HistoryAssumption DEF AppendUser
  <2>2. Message("user", 0, t) \in Messages /\ ~MakesCalls(Message("user", 0, t))
    BY MessageIs DEF Roles, MakesCalls
  <2>3. messages' \in Seq(Messages) /\ CallsAnswered(messages')
    BY <1>0, <2>1, <2>2, AppendQuiet
  <2>4. Len(messages') = Len(messages) + 1
    BY <1>0, <2>1, <2>2
  <2> QED BY <1>0, <2>1, <2>3, <2>4 DEF HistoryInv
<1>2. CASE AppendToolTurn
  <2>1. PICK calls \in Nat, t \in Nat, r \in Nat :
          /\ messages' = Append(messages, Message("assistant", calls, t)) \o Results(calls, r)
          /\ usage' \in {Len(messages) + 1, usage} /\ Len(messages) + calls < MaxMessages
    BY <1>2, HistoryAssumption DEF AppendToolTurn, Results
  <2>2. CallsAnswered(messages')
    BY <1>0, <2>1, ResultsAnswer
  <2>3. Message("assistant", calls, t) \in Messages
    BY MessageIs DEF Roles
  <2> DEFINE called == Append(messages, Message("assistant", calls, t))
             results == Results(calls, r)
  <2>4. called \in Seq(Messages) /\ Len(called) = Len(messages) + 1
    BY <1>0, <2>3
  <2>5. results \in Seq(Messages) /\ Len(results) = calls
    BY ResultsAre
  <2>8. messages' = called \o results
    BY <2>1
  <2> HIDE DEF called, results
  <2>6. messages' \in Seq(Messages) /\ Len(messages') = Len(messages) + 1 + calls
    <3>1. called \o results \in Seq(Messages) /\ Len(called \o results) = Len(called) + Len(results)
      BY <2>4, <2>5, ConcatProperties
    <3> QED BY <2>4, <2>5, <2>8, <3>1
  <2>7. usage' \in 0..Len(messages') /\ Len(messages') <= MaxMessages
    BY <1>0, <2>1, <2>6
  <2> QED BY <2>2, <2>6, <2>7 DEF HistoryInv
<1>3. CASE Compact
  <2>1. PICK keep \in KeepTokens : /\ messages' = Compacted(Cut(messages, keep, usage))
                                   /\ Cut(messages, keep, usage).to_summarize # << >>
                                   /\ usage' = 0
    BY <1>3 DEF Compact
  <2> DEFINE cut == Cut(messages, keep, usage)
             s == Message("summary", 0, 1)
  <2>2. messages' \in Seq(Messages) /\ CallsAnswered(messages')
    BY <1>0, <2>1, CompactedIs
  <2>3. /\ cut.to_summarize \in Seq(Messages) /\ cut.keep \in Seq(Messages)
        /\ cut.to_summarize \o cut.keep = messages
    BY <1>0, CutLosesNothing
  <2>4. messages' = <<s>> \o cut.keep /\ cut.to_summarize # << >>
    BY <2>1 DEF Compacted
  <2> HIDE DEF cut
  <2>5. Len(messages) = Len(cut.to_summarize) + Len(cut.keep)
    BY <2>3, ConcatProperties
  <2>6. <<s>> \in Seq(Messages) /\ Len(<<s>>) = 1
    <3>1. s \in Messages
      BY MessageIs DEF Roles
    <3> HIDE DEF s
    <3> QED BY <3>1
  <2>7. Len(messages') = 1 + Len(cut.keep)
    BY <2>3, <2>4, <2>6, ConcatProperties
  <2>8. Len(messages') <= Len(messages)
    <3>1. Len(cut.to_summarize) \in Nat /\ Len(cut.keep) \in Nat
      BY <2>3, LenProperties
    <3>2. Len(cut.to_summarize) # 0
      BY <2>3, <2>4, EmptySeq
    <3> QED BY <2>5, <2>7, <3>1, <3>2
  <2>9. Len(messages') \in Nat
    BY <2>2
  <2> QED BY <1>0, <2>1, <2>2, <2>8, <2>9 DEF HistoryInv
<1>4. CASE UNCHANGED historyVars
  BY <1>4 DEF HistoryInv, historyVars
<1> QED BY <1>1, <1>2, <1>3, <1>4 DEF HistoryNext

LEMMA HistoryAlways == HistorySpec => []HistoryInv
<1>1. HistoryInit => HistoryInv
  <2> SUFFICES ASSUME HistoryInit PROVE HistoryInv
    OBVIOUS
  <2>1. messages = << >> /\ usage = 0 /\ << >> \in Seq(Messages) /\ Len(<< >>) = 0
    BY DEF HistoryInit
  <2> QED BY <2>1, HistoryAssumption DEF HistoryInv, CallsAnswered
<1> QED BY <1>1, HistoryStep, PTL DEF HistorySpec

\* A conversation is cut before it outgrows its bound, and what is counted of
\* its usage is a message of it.
THEOREM HistoryTypes == HistorySpec => []HistoryTypeOK
<1>1. HistoryInv => HistoryTypeOK
  BY DEF HistoryInv, HistoryTypeOK
<1> QED BY <1>1, HistoryAlways, PTL

(***************************************************************************)
(* No compaction, and no sequence of them, keeps a tool call and drops one *)
(* of its results: what is kept is the end of the conversation, and the    *)
(* results stand behind their call.                                        *)
(***************************************************************************)
THEOREM CutsKeepAnswers == HistorySpec => []CompactionKeepsAnswers
<1>1. HistoryInv => CompactionKeepsAnswers
  BY DEF HistoryInv, CompactionKeepsAnswers
<1> QED BY <1>1, HistoryAlways, PTL

(***************************************************************************)
(* One breaker, CircuitBreaker!Spec.                                       *)
(***************************************************************************)

\* The configuration's ranges, as the solvers use them.
LEMMA BreakerConfig ==
    /\ WindowSize \in Nat \ {0}
    /\ FailureThresholdPct \in 0..100
    /\ OpenDuration \in Nat \ {0}
    /\ HalfOpenMaxProbes \in Nat \ {0}
BY ConfigValid DEF Validate

\* Window::push keeps the samples Boolean and the length within window_size.
LEMMA PushType ==
    ASSUME NEW w \in Seq(BOOLEAN), NEW b \in BOOLEAN, Len(w) <= WindowSize
    PROVE  Push(w, b) \in Seq(BOOLEAN) /\ Len(Push(w, b)) <= WindowSize
<1>1. CASE Len(w) = WindowSize
  <2>1. w # << >>
    BY <1>1, BreakerConfig
  <2>2. Tail(w) \in Seq(BOOLEAN) /\ Len(Tail(w)) = Len(w) - 1
    BY <2>1
  <2> QED BY <1>1, <2>2, BreakerConfig DEF Push
<1>2. CASE Len(w) # WindowSize
  BY <1>2, BreakerConfig DEF Push
<1> QED BY <1>1, <1>2

\* An empty window gives no verdict.
LEMMA EmptyNotBreached == ~WindowBreached(<< >>)
BY BreakerConfig DEF WindowBreached

\* One breaker step preserves the type and the breaker invariant.
LEMMA BreakerStep ==
    ASSUME TypeOK, BreakerInv, [Next]_breakerVars
    PROVE  TypeOK' /\ BreakerInv'
<1> USE BreakerConfig DEF TypeOK, BreakerInv
<1>w. ASSUME NEW w, window' = w PROVE WindowBreached(window)' <=> WindowBreached(w)
  BY <1>w DEF WindowBreached, Failures
<1>e. window' = << >> => ~WindowBreached(window)'
  BY <1>w, EmptyNotBreached
<1>k. window' = window => (WindowBreached(window)' <=> WindowBreached(window))
  BY <1>w
<1>1. ASSUME Trip PROVE TypeOK' /\ BreakerInv'
  BY <1>1, <1>e DEF Trip
<1>2. ASSUME NEW b \in BOOLEAN, RecordInWindow(b) PROVE TypeOK' /\ BreakerInv'
  <2>1. Push(window, b) \in Seq(BOOLEAN) /\ Len(Push(window, b)) <= WindowSize
    BY PushType
  <2>2. CASE WindowBreached(Push(window, b))
    BY <1>1, <1>2, <2>2 DEF RecordInWindow
  <2>3. CASE ~WindowBreached(Push(window, b))
    <3>1. window' = Push(window, b) /\ UNCHANGED <<state, open_age, probes_in_flight>>
      BY <1>2, <2>3 DEF RecordInWindow
    <3>2. ~WindowBreached(window)'
      BY <3>1, <2>3, <1>w
    <3> QED BY <1>2, <3>1, <3>2, <2>1 DEF RecordInWindow
  <2> QED BY <2>2, <2>3
<1>3. CASE BeforeRequestAllow
  BY <1>e, <1>k, <1>3 DEF BeforeRequestAllow, breakerVars
<1>4. CASE BeforeRequestReject
  BY <1>e, <1>k, <1>4 DEF BeforeRequestReject, breakerVars
<1>5. CASE RecordSuccess
  <2>1. CASE RecordInWindow(TRUE)
    BY <1>2, <2>1
  <2>2. CASE state = "HalfOpen" /\ state' = "Closed" /\ window' = << >>
             /\ probes_in_flight' = 0 /\ UNCHANGED open_age
    BY <1>e, <2>2
  <2>3. CASE UNCHANGED breakerVars
    BY <1>k, <2>3 DEF breakerVars
  <2> QED BY <1>5, <2>1, <2>2, <2>3 DEF RecordSuccess
<1>6. CASE RecordFailure
  BY <1>e, <1>k, <1>1, <1>2, <1>6 DEF RecordFailure, breakerVars
<1>7. CASE Tick
  BY <1>k, <1>7 DEF Tick
<1>8. CASE UNCHANGED breakerVars
  BY <1>e, <1>k, <1>8 DEF breakerVars
<1> QED BY <1>3, <1>4, <1>5, <1>6, <1>7, <1>8 DEF Next

\* A Closed breaker is never over its threshold and a half-open one never has
\* more than half_open_max_probes slots taken, for every configuration.
THEOREM BreakerSafety == Spec => [](TypeOK /\ BreakerInv)
<1>1. Init => TypeOK /\ BreakerInv
  BY BreakerConfig, EmptyNotBreached DEF Init, TypeOK, BreakerInv
<1>2. TypeOK /\ BreakerInv /\ [Next]_breakerVars => (TypeOK /\ BreakerInv)'
  BY BreakerStep
<1> QED BY <1>1, <1>2, PTL DEF Spec

\* An Open breaker is left only towards HalfOpen and only after the whole
\* open_duration_ms.
THEOREM OpenHolds == Spec => OpenHoldsFullDuration
<1>1. TypeOK /\ [Next]_breakerVars =>
        [state = "Open" /\ state' # "Open" =>
            state' = "HalfOpen" /\ open_age = OpenDuration]_breakerVars
  <2> SUFFICES ASSUME TypeOK, [Next]_breakerVars, state = "Open", state' # "Open"
               PROVE  state' = "HalfOpen" /\ open_age = OpenDuration
    OBVIOUS
  <2>1. ASSUME NEW b PROVE ~RecordInWindow(b)
    BY DEF RecordInWindow
  <2>2. ~RecordSuccess /\ ~RecordFailure /\ ~Tick /\ ~BeforeRequestReject
    BY <2>1 DEF RecordSuccess, RecordFailure, Tick, BeforeRequestReject, breakerVars
  <2>3. BeforeRequestAllow
    BY <2>2 DEF Next, breakerVars
  <2> QED BY <2>3, BreakerConfig DEF BeforeRequestAllow, TypeOK, breakerVars
<1> QED BY <1>1, BreakerSafety, PTL DEF Spec, OpenHoldsFullDuration

(***************************************************************************)
(* The send loops that share it.                                           *)
(***************************************************************************)

\* Unfolds every action of the composed system.
LEMMA SendStepIsBreakerStep == [SendNext]_vars => [Next]_breakerVars
<1> SUFFICES ASSUME [SendNext]_vars PROVE [Next]_breakerVars
  OBVIOUS
<1> USE DEF Next
<1>1. ASSUME NEW c \in Callers, Begin(c) \/ Progress(c) \/ WaitInterrupted(c) \/ Again(c)
      PROVE  [Next]_breakerVars
  <2>1. CASE Begin(c) \/ PayloadHook(c) \/ SendResponds(c) \/ Retry(c)
             \/ StreamEnds(c) \/ Again(c)
    BY <2>1 DEF Begin, PayloadHook, SendResponds, Retry, StreamEnds, Again
  <2>2. CASE ResponseHookFails(c) \/ RefreshAuth(c) \/ WaitInterrupted(c)
    BY <2>2 DEF ResponseHookFails, RefreshAuth, WaitInterrupted, Forgotten
  <2>3. CASE Gate(c)
    BY <2>3 DEF Gate
  <2>4. CASE SendFails(c) \/ SendTimesOut(c) \/ RespondSuccess(c) \/ RespondFailure(c)
    BY <2>4 DEF SendFails, SendTimesOut, RespondSuccess, RespondFailure
  <2> QED BY <1>1, <2>1, <2>2, <2>3, <2>4 DEF Progress, Complete, HandleResponse
<1>2. CASE ClockTick
  BY <1>2 DEF ClockTick
<1>3. CASE UNCHANGED vars
  BY <1>3 DEF vars
<1> QED BY <1>1, <1>2, <1>3 DEF SendNext

\* The composed system implements the breaker's own specification: every
\* client behaviour the send loop can produce is one the breaker allows for.
THEOREM SendImplementsBreaker == SendSpec => Spec
BY SendStepIsBreakerStep, PTL DEF SendSpec, SendInit, Spec

\* Hence the breaker's invariant and its Open period hold in the composition.
THEOREM SharedBreakerSafety == SendSpec => [](TypeOK /\ BreakerInv) /\ OpenHoldsFullDuration
BY SendImplementsBreaker, BreakerSafety, OpenHolds, PTL

\* How many requests an invocation may have sent at each point of the loop:
\* one per attempt begun, one more once the credential has been refreshed.
Sent(c) == attempt[c] + (IF refreshed[c] THEN 1 ELSE 0)

BudgetInv ==
    \A c \in Callers :
        /\ pc[c] \in {"idle", "payload_hook"} =>
              sends[c] = 0 /\ attempt[c] = 0 /\ ~refreshed[c]
        /\ pc[c] = "gate" => sends[c] <= Sent(c)
        /\ pc[c] # "gate" => sends[c] <= Sent(c) + 1
        /\ pc[c] = "backoff" => attempt[c] < MaxRetries

CallTypeOK ==
    /\ pc \in [Callers -> {"idle", "payload_hook", "gate", "sending",
                           "response", "backoff", "streaming", "done"}]
    /\ attempt \in [Callers -> 0..MaxRetries]
    /\ refreshed \in [Callers -> BOOLEAN]
    /\ reply \in [Callers -> Status \cup {"none"}]
    /\ sends \in [Callers -> Nat]

\* The position in the loop bounds the requests sent so far.
LEMMA CallInvariant == SendSpec => [](CallTypeOK /\ BudgetInv)
<1> USE SendAssumption DEF CallTypeOK, BudgetInv, Sent
<1>1. SendInit => CallTypeOK /\ BudgetInv
  BY DEF SendInit
<1>2. ASSUME CallTypeOK, BudgetInv, [SendNext]_vars PROVE CallTypeOK' /\ BudgetInv'
  <2>1. ASSUME NEW c \in Callers, Begin(c) PROVE CallTypeOK' /\ BudgetInv'
    BY <1>2, <2>1 DEF Begin, Goto, End
  <2>2. ASSUME NEW c \in Callers, PayloadHook(c) PROVE CallTypeOK' /\ BudgetInv'
    BY <1>2, <2>2 DEF PayloadHook, Goto, End
  <2>3. ASSUME NEW c \in Callers, Gate(c) PROVE CallTypeOK' /\ BudgetInv'
    BY <1>2, <2>3 DEF Gate, Goto, End, SendCap
  <2>4. ASSUME NEW c \in Callers, SendFails(c) \/ SendTimesOut(c)
        PROVE  CallTypeOK' /\ BudgetInv'
    BY <1>2, <2>4 DEF SendFails, SendTimesOut, Goto, End
  <2>5. ASSUME NEW c \in Callers, SendResponds(c) PROVE CallTypeOK' /\ BudgetInv'
    BY <1>2, <2>5 DEF SendResponds, Goto
  <2>6. ASSUME NEW c \in Callers, ResponseHookFails(c) \/ RespondSuccess(c)
        PROVE  CallTypeOK' /\ BudgetInv'
    BY <1>2, <2>6 DEF ResponseHookFails, RespondSuccess, Goto, End, Drop
  <2>7. ASSUME NEW c \in Callers, RefreshAuth(c) PROVE CallTypeOK' /\ BudgetInv'
    BY <1>2, <2>7 DEF RefreshAuth, Goto, Drop
  <2>8. ASSUME NEW c \in Callers, RespondFailure(c) PROVE CallTypeOK' /\ BudgetInv'
    BY <1>2, <2>8 DEF RespondFailure, Goto, End, Drop
  <2>9. ASSUME NEW c \in Callers, Retry(c) PROVE CallTypeOK' /\ BudgetInv'
    BY <1>2, <2>9 DEF Retry, Goto
  <2>10. ASSUME NEW c \in Callers, StreamEnds(c) \/ WaitInterrupted(c)
         PROVE  CallTypeOK' /\ BudgetInv'
    BY <1>2, <2>10 DEF StreamEnds, WaitInterrupted, Goto, End
  <2>11. ASSUME NEW c \in Callers, Again(c) PROVE CallTypeOK' /\ BudgetInv'
    BY <1>2, <2>11 DEF Again, Goto
  <2>12. CASE ClockTick \/ UNCHANGED vars
    BY <1>2, <2>12 DEF ClockTick, vars, callVars
  <2> QED
    BY <1>2, <2>1, <2>2, <2>3, <2>4, <2>5, <2>6, <2>7, <2>8, <2>9, <2>10, <2>11, <2>12
    DEF SendNext, Progress, Complete, HandleResponse
<1> QED BY <1>1, <1>2, PTL DEF SendSpec

\* One invocation sends at most max_retries + 1 requests, and one more after a
\* credential refresh, for any number of callers sharing the breaker.
THEOREM RequestBudget == SendSpec => []SendBudget
<1>1. CallTypeOK /\ BudgetInv => SendBudget
  BY SendAssumption DEF SendBudget, CallTypeOK, BudgetInv, Sent
<1> QED BY <1>1, CallInvariant, PTL

\* The probe accounting: only an attempt in flight holds a slot, slots exist
\* only while half-open, and the breaker counts each of them.
SlotsInv ==
    /\ IsFiniteSet(slots)
    /\ slots \subseteq {c \in Callers : pc[c] \in {"sending", "response"}}
    /\ state # "HalfOpen" => slots = {}
    /\ SlotsCoverProbes

\* Giving a slot up never increases the number of slots held.
LEMMA SlotReleased ==
    ASSUME IsFiniteSet(slots), NEW c, Cardinality(slots) <= probes_in_flight,
           probes_in_flight \in Nat
    PROVE  /\ IsFiniteSet(slots \ {c})
           /\ Cardinality(slots \ {c}) <= probes_in_flight
<1>1. Cardinality(slots) \in Nat
  BY FS_CardinalityType
<1>2. IsFiniteSet(slots \ {c}) /\ Cardinality(slots \ {c}) <= Cardinality(slots)
  <2>1. slots \ {c} \subseteq slots
    OBVIOUS
  <2> QED BY <2>1, FS_Subset
<1>3. Cardinality(slots \ {c}) \in Nat
  BY <1>2, FS_CardinalityType
<1> QED BY <1>1, <1>2, <1>3

LEMMA SlotsInvariant == SendSpec => []SlotsInv
<1> DEFINE Pre == CallTypeOK /\ TypeOK /\ BreakerInv
<1>1. SendInit => SlotsInv
  BY FS_EmptySet DEF SendInit, Init, SlotsInv, SlotsCoverProbes
<1>2. ASSUME Pre, SlotsInv, [SendNext]_vars PROVE SlotsInv'
  <2> USE <1>2 DEF SlotsInv, SlotsCoverProbes
  <2>1. ASSUME NEW c \in Callers,
               Begin(c) \/ PayloadHook(c) \/ SendResponds(c) \/ Retry(c)
                  \/ StreamEnds(c) \/ Again(c)
        PROVE  SlotsInv'
    BY <2>1 DEF Begin, PayloadHook, SendResponds, Retry, StreamEnds, Again,
       Goto, End, breakerVars, CallTypeOK
  <2>2. ASSUME NEW c \in Callers,
               ResponseHookFails(c) \/ RefreshAuth(c) \/ WaitInterrupted(c)
        PROVE  SlotsInv'
    <3>1. slots' = slots \ {c} /\ UNCHANGED <<state, probes_in_flight>>
      BY <2>2 DEF ResponseHookFails, RefreshAuth, WaitInterrupted, Forgotten, breakerVars
    <3>2. \A d \in Callers \ {c} : pc'[d] = pc[d]
      BY <2>2 DEF ResponseHookFails, RefreshAuth, WaitInterrupted, Goto, End, CallTypeOK
    <3>3. slots' \subseteq {d \in Callers : pc'[d] \in {"sending", "response"}}
      BY <3>1, <3>2
    <3>4. CASE state = "HalfOpen"
      BY <3>1, <3>3, <3>4, SlotReleased DEF TypeOK
    <3>5. CASE state # "HalfOpen"
      BY <3>1, <3>3, <3>5
    <3> QED BY <3>4, <3>5
  <2>3. ASSUME NEW c \in Callers,
               SendFails(c) \/ SendTimesOut(c) \/ RespondSuccess(c) \/ RespondFailure(c)
        PROVE  SlotsInv'
    <3>1. RecordSuccess \/ RecordFailure
      BY <2>3 DEF SendFails, SendTimesOut, RespondSuccess, RespondFailure
    <3>2. state' # "HalfOpen"
      BY <3>1 DEF RecordSuccess, RecordFailure, RecordInWindow, Trip, breakerVars
    <3>3. slots' = {}
      BY <2>3, <3>2 DEF SendFails, SendTimesOut, RespondSuccess, RespondFailure, Recorded
    <3> QED BY <3>2, <3>3, FS_EmptySet
  <2>4. ASSUME NEW c \in Callers, Gate(c) PROVE SlotsInv'
    <3>1. c \notin slots
      BY <2>4 DEF Gate
    <3>2. CASE BeforeRequestReject /\ End(c) /\ UNCHANGED slots
      BY <3>1, <3>2, <2>4 DEF Gate, Goto, End, BeforeRequestReject, breakerVars, CallTypeOK
    <3>3. CASE BeforeRequestAllow /\ Admitted(c) /\ Goto(c, "sending")
      <4>1. slots' \subseteq {d \in Callers : pc'[d] \in {"sending", "response"}}
        BY <3>3 DEF Admitted, Goto, CallTypeOK
      <4>2. CASE state' # "HalfOpen"
        <5>1. state # "HalfOpen"
          BY <3>3, <4>2 DEF BeforeRequestAllow, breakerVars
        <5> QED BY <3>3, <4>1, <4>2, <5>1 DEF Admitted
      <4>3. CASE state' = "HalfOpen"
        <5>1. slots' = slots \cup {c}
          BY <3>3, <4>3 DEF Admitted
        <5>2. IsFiniteSet(slots') /\ Cardinality(slots') = Cardinality(slots) + 1
          BY <5>1, <3>1, FS_AddElement
        <5>3. Cardinality(slots) \in Nat /\ (slots = {} => Cardinality(slots) = 0)
          BY FS_CardinalityType, FS_EmptySet
        <5>4. CASE state = "Open"
          <6>1. probes_in_flight' = 1 /\ slots = {}
            BY <3>3, <5>4 DEF BeforeRequestAllow
          <6> QED BY <4>1, <4>3, <5>2, <5>3, <6>1
        <5>5. CASE state = "HalfOpen"
          <6>1. probes_in_flight' = probes_in_flight + 1
            BY <3>3, <5>5 DEF BeforeRequestAllow
          <6> QED BY <4>1, <4>3, <5>2, <5>3, <5>5, <6>1 DEF TypeOK
        <5> QED BY <3>3, <4>3, <5>4, <5>5 DEF BeforeRequestAllow, breakerVars
      <4> QED BY <4>2, <4>3
    <3>4. CASE BeforeRequestAllow /\ End(c) /\ UNCHANGED slots
      <4>1. slots' \subseteq {d \in Callers : pc'[d] \in {"sending", "response"}}
        BY <3>1, <3>4 DEF End, Goto, CallTypeOK
      <4>2. CASE state = "HalfOpen"
        <5>1. state' = "HalfOpen" /\ probes_in_flight' = probes_in_flight + 1
          BY <3>4, <4>2 DEF BeforeRequestAllow
        <5>2. Cardinality(slots) \in Nat
          BY FS_CardinalityType
        <5> QED BY <3>4, <4>1, <4>2, <5>1, <5>2 DEF TypeOK
      <4>3. CASE state # "HalfOpen"
        <5>1. slots = {} /\ Cardinality(slots) = 0
          BY <4>3, FS_EmptySet
        <5>2. probes_in_flight' \in Nat
          BY <3>4 DEF BeforeRequestAllow, TypeOK, breakerVars
        <5> QED BY <3>4, <4>1, <5>1, <5>2
      <4> QED BY <4>2, <4>3
    <3> QED BY <2>4, <3>2, <3>3, <3>4 DEF Gate
  <2>5. CASE ClockTick \/ UNCHANGED vars
    BY <2>5 DEF ClockTick, Tick, vars, callVars, breakerVars
  <2> QED
    BY <2>1, <2>2, <2>3, <2>4, <2>5 DEF SendNext, Progress, Complete, HandleResponse
<1>3. SendSpec => []CallTypeOK
  BY CallInvariant, PTL
<1> QED BY <1>1, <1>2, <1>3, SharedBreakerSafety, PTL DEF SendSpec

\* Every unresolved attempt admitted in the current half-open spell holds one
\* of at most half_open_max_probes slots, for any number of callers.
THEOREM ProbesAccounted == SendSpec => []SlotsCoverProbes
<1>1. SlotsInv => SlotsCoverProbes
  BY DEF SlotsInv
<1> QED BY <1>1, SlotsInvariant, PTL

\* The variables of the breaker and of the send loops have their types.
THEOREM SendTypes == SendSpec => []SendTypeOK
<1>1. TypeOK /\ CallTypeOK /\ SlotsInv => SendTypeOK
  BY DEF CallTypeOK, SlotsInv, SendTypeOK
<1> QED BY <1>1, SharedBreakerSafety, CallInvariant, SlotsInvariant, PTL

(***************************************************************************)
(* The event stream.                                                       *)
(***************************************************************************)
FrontState ==
  [status : {"away", "connected", "resuming", "live", "resync", "ended"},
   generation : Nat, cursor : Nat, at : Nat, unseen : BOOLEAN]

\* A front end has folded and received no more than there is.
Fits(r) == r \in FrontState /\ r.cursor <= Newest /\ r.at <= Len(channel)

\* What it has not folded is ahead of its receiver or about to be sent.
Ahead(r) ==
  \A s \in (r.cursor + 1) .. Newest :
    \/ \E i \in (r.at + 1) .. Len(channel) : channel[i] = s
    \/ \E p \in Publisher : publishing[p] = s

Numbered ==
  /\ next_event_sequence \in Nat \ {0} /\ boundary \in 0 .. Newest
  /\ Newest <= MaxEvents + (IF boundary = 0 THEN 0 ELSE 1)
  /\ publishing \in [Publisher -> 0 .. Newest]
  /\ channel \in Seq(Nat) /\ \A i \in 1 .. Len(channel) : channel[i] \in 1 .. Newest

\* The ring holds the last numbers, all of them.
Contiguous ==
  LET ring == retained_product_events
  IN  /\ ring \in Seq(Nat) /\ Len(ring) <= RetainedCapacity
      /\ \A i \in 1 .. Len(ring) : ring[i] = Newest - Len(ring) + i
      /\ Len(ring) <= Newest /\ (Newest > 0 => Len(ring) > 0)

ClientKnown ==
  /\ runtime_lifecycle \in {"Running", "ShuttingDown", "ShutDown"}
  /\ client \in [generation : Nat, connection : {"Attached", "ShuttingDown", "Detached"},
                 eligible : Nat]

Followed ==
  /\ front \in [FrontEnd -> FrontState]
  /\ \A f \in FrontEnd : Fits(front[f]) /\ (front[f].status = "live" => Ahead(front[f]))

StreamInv == Numbered /\ Contiguous /\ ClientKnown /\ Followed

LEMMA StreamConstants ==
  /\ Closer \in Publisher /\ RetainedCapacity \in Nat \ {0} /\ ChannelCapacity \in Nat \ {0}
  /\ MaxEvents \in Nat /\ MaxConnects \in Nat
BY StreamAssumption DEF StreamConfig

\* Folding the ring has one outcome.
LEMMA FoldIs ==
  ASSUME NEW view, Len(retained_product_events) \in Nat,
         NEW k, DOMAIN k = 0 .. Len(retained_product_events), k = [i \in DOMAIN k |-> k[i]],
         k[0] = view,
         \A i \in 1 .. Len(retained_product_events) :
           k[i] = IF retained_product_events[i] > view.cursor
                    THEN Applied(k[i - 1], retained_product_events[i]) ELSE k[i - 1]
  PROVE  Replayed(view) = k[Len(retained_product_events)]
<1> DEFINE ring == retained_product_events
           N == 0 .. Len(ring)
           Solves(f) == f = [i \in N |->
             IF i = 0 THEN view
             ELSE IF ring[i] > view.cursor THEN Applied(f[i - 1], ring[i]) ELSE f[i - 1]]
<1>1. Solves(k)
  <2>1. \A i \in N : i # 0 => i \in 1 .. Len(ring)
    OBVIOUS
  <2>2. \A i \in N : k[i] =
          IF i = 0 THEN view
          ELSE IF ring[i] > view.cursor THEN Applied(k[i - 1], ring[i]) ELSE k[i - 1]
    BY <2>1
  <2> QED BY <2>2, Zenon
<1>2. Solves(CHOOSE g : Solves(g))
  BY <1>1, Zenon
<1> DEFINE h == CHOOSE g : Solves(g)
<1>3. Replayed(view) = h[Len(ring)]
  BY DEF Replayed
<1> HIDE DEF h
<1>4. \A i \in N : h[i] =
        IF i = 0 THEN view
        ELSE IF ring[i] > view.cursor THEN Applied(h[i - 1], ring[i]) ELSE h[i - 1]
  BY <1>2 DEF h
<1> DEFINE T == {i \in N : h[i] # k[i]}
<1>5. T = {}
  <2> SUFFICES ASSUME T # {} PROVE FALSE
    OBVIOUS
  <2>1. T \subseteq Nat
    OBVIOUS
  <2>2. PICK i \in T : \A j \in T : i <= j
    BY <2>1, LeastElement
  <2>3. i # 0
    BY <1>4
  <2>4. i - 1 \in N /\ i - 1 \notin T /\ i \in 1 .. Len(ring)
    BY <2>2, <2>3
  <2>5. h[i - 1] = k[i - 1]
    BY <2>4
  <2>6. h[i] = IF ring[i] > view.cursor THEN Applied(h[i - 1], ring[i]) ELSE h[i - 1]
    BY <1>4, <2>3
  <2>7. k[i] = IF ring[i] > view.cursor THEN Applied(k[i - 1], ring[i]) ELSE k[i - 1]
    BY <2>4
  <2> QED BY <2>2, <2>5, <2>6, <2>7
<1> QED BY <1>3, <1>5

\* A replay across no gap ends at the newest event, or tells that it cannot.
LEMMA ReplayIsWhole ==
  ASSUME Numbered, Contiguous, NEW view \in FrontState, view.status = "live",
         view.cursor <= Newest, ~Gap(view.cursor)
  PROVE  Replayed(view) \in {[view EXCEPT !.status = "resync"], [view EXCEPT !.cursor = Newest]}
<1> DEFINE ring == retained_product_events
           n == Len(ring)
           at(i) == IF i = 0 \/ ring[i] <= view.cursor THEN view
                    ELSE IF ring[1] > view.cursor + 1 THEN [view EXCEPT !.status = "resync"]
                    ELSE [view EXCEPT !.cursor = ring[i]]
           k == [i \in 0 .. n |-> at(i)]
<1>1. /\ n \in Nat /\ Newest \in Nat /\ view.cursor \in Nat /\ n <= Newest
      /\ \A i \in 1 .. n : ring[i] \in Nat /\ ring[i] = Newest - n + i
      /\ Newest > 0 => n > 0
  BY DEF Numbered, Contiguous, Newest, FrontState
<1> DEFINE lost == [view EXCEPT !.status = "resync"]
           upTo(s) == [view EXCEPT !.cursor = s]
<1>2. at(0) = view
  OBVIOUS
<1>3. \A i \in 1 .. n :
        /\ ring[i] <= view.cursor => at(i) = view
        /\ ring[i] > view.cursor /\ ring[1] > view.cursor + 1 => at(i) = lost
        /\ ring[i] > view.cursor /\ ~(ring[1] > view.cursor + 1) => at(i) = upTo(ring[i])
  <2> SUFFICES ASSUME NEW i \in 1 .. n
               PROVE  /\ ring[i] <= view.cursor => at(i) = view
                      /\ ring[i] > view.cursor /\ ring[1] > view.cursor + 1 => at(i) = lost
                      /\ ring[i] > view.cursor /\ ~(ring[1] > view.cursor + 1)
                           => at(i) = upTo(ring[i])
    OBVIOUS
  <2>1. i # 0 /\ ring[i] \in Nat /\ (ring[i] > view.cursor <=> ~(ring[i] <= view.cursor))
    BY <1>1
  <2> HIDE DEF lost, upTo
  <2> QED BY <2>1 DEF lost, upTo
<1>4. \A s, t \in Nat :
        /\ Applied(lost, t) = lost
        /\ s = view.cursor + 1 => Applied(view, s) = upTo(s)
        /\ s > view.cursor + 1 => Applied(view, s) = lost
        /\ t = s + 1 => Applied(upTo(s), t) = upTo(t)
  <2> SUFFICES ASSUME NEW s \in Nat, NEW t \in Nat
               PROVE  /\ Applied(lost, t) = lost
                      /\ s = view.cursor + 1 => Applied(view, s) = upTo(s)
                      /\ s > view.cursor + 1 => Applied(view, s) = lost
                      /\ t = s + 1 => Applied(upTo(s), t) = upTo(t)
    OBVIOUS
  <2>1. lost.status = "resync"
    BY DEF FrontState
  <2>2. upTo(s).status = "live" /\ upTo(s).cursor = s
    BY DEF FrontState
  <2>3. [upTo(s) EXCEPT !.cursor = t] = upTo(t)
    BY DEF FrontState
  <2>4. Applied(lost, t) = lost
    BY <2>1 DEF Applied
  <2>5. s = view.cursor + 1 => Applied(view, s) = upTo(s)
    BY <1>1 DEF Applied
  <2>6. s > view.cursor + 1 => Applied(view, s) = lost
    BY <1>1 DEF Applied
  <2>7. t = s + 1 => Applied(upTo(s), t) = upTo(t)
    <3> HIDE DEF upTo
    <3> QED BY <2>2, <2>3 DEF Applied
  <2> QED BY <2>4, <2>5, <2>6, <2>7
<1>10. upTo(view.cursor) = view
  BY DEF FrontState
<1> HIDE DEF at, lost, upTo
<1>5. ASSUME NEW i \in 1 .. n
      PROVE  at(i) = IF ring[i] > view.cursor THEN Applied(at(i - 1), ring[i]) ELSE at(i - 1)
  <2>0. i \in Nat /\ i # 0 /\ 1 \in 1 .. n /\ ring[i] \in Nat /\ ring[1] \in Nat
    BY <1>1
  <2>1. CASE i = 1
    <3>1. at(i - 1) = view
      BY <1>2, <2>1
    <3> QED BY <1>1, <1>3, <1>4, <2>0, <2>1, <3>1
  <2>2. CASE i # 1
    <3>1. /\ i - 1 \in 1 .. n /\ ring[i] = ring[i - 1] + 1 /\ ring[i - 1] \in Nat
          /\ ring[1] <= ring[i - 1]
      BY <1>1, <2>0, <2>2
    <3>2. CASE ring[i] <= view.cursor
      BY <1>1, <1>3, <2>0, <3>1, <3>2
    <3>3. CASE ring[i] = view.cursor + 1
      <4>1. ring[1] <= view.cursor /\ ring[i - 1] <= view.cursor /\ ring[i] > view.cursor
        BY <1>1, <3>1, <3>3
      <4>2. at(i - 1) = view
        BY <1>3, <3>1, <4>1
      <4>3. at(i) = upTo(ring[i])
        BY <1>1, <1>3, <2>0, <4>1
      <4> QED BY <1>4, <2>0, <3>3, <4>1, <4>2, <4>3
    <3>4. CASE ring[i] > view.cursor + 1
      <4>1. ring[i - 1] > view.cursor /\ ring[i] > view.cursor
        <5>1. view.cursor \in Nat
          BY <1>1
        <5> QED BY <2>0, <3>1, <3>4, <5>1
      <4>2. CASE ring[1] > view.cursor + 1
        <5>1. at(i - 1) = lost /\ at(i) = lost
          BY <1>3, <3>1, <4>1, <4>2
        <5> QED BY <1>4, <2>0, <4>1, <5>1
      <4>3. CASE ~(ring[1] > view.cursor + 1)
        <5>1. at(i - 1) = upTo(ring[i - 1]) /\ at(i) = upTo(ring[i])
          BY <1>3, <3>1, <4>1, <4>3
        <5> QED BY <1>4, <2>0, <3>1, <4>1, <5>1
      <4> QED BY <4>2, <4>3
    <3> QED BY <1>1, <2>0, <3>2, <3>3, <3>4
  <2> QED BY <2>1, <2>2
<1>6. at(n) \in {lost, upTo(Newest)}
  <2>1. CASE n = 0
    <3>1. Newest = view.cursor
      BY <1>1, <2>1
    <3> QED BY <1>2, <1>10, <2>1, <3>1
  <2>2. CASE n > 0
    <3>1. ring[n] = Newest /\ n \in 1 .. n
      BY <1>1, <2>2
    <3>2. Newest <= view.cursor => Newest = view.cursor
      BY <1>1
    <3> QED BY <1>1, <1>3, <1>10, <3>1, <3>2
  <2> QED BY <1>1, <2>1, <2>2
<1>7. /\ DOMAIN k = 0 .. n /\ k = [i \in DOMAIN k |-> k[i]] /\ k[0] = view /\ k[n] = at(n)
  BY <1>1, <1>2
<1>8. \A i \in 1 .. n :
        k[i] = IF ring[i] > view.cursor THEN Applied(k[i - 1], ring[i]) ELSE k[i - 1]
  <2> SUFFICES ASSUME NEW i \in 1 .. n
               PROVE  k[i] = IF ring[i] > view.cursor THEN Applied(k[i - 1], ring[i]) ELSE k[i - 1]
    OBVIOUS
  <2>1. k[i] = at(i) /\ k[i - 1] = at(i - 1)
    BY <1>1
  <2> QED BY <1>5, <2>1
<1> HIDE DEF k
<1>9. Replayed(view) = k[n]
  BY <1>1, <1>7, <1>8, FoldIs
<1> QED BY <1>6, <1>7, <1>9 DEF lost, upTo

\* Steps that publish nothing and move at most one front end.
LEMMA FrontMoves ==
  ASSUME StreamInv, UNCHANGED <<server, boundary>>, ClientKnown', NEW f \in FrontEnd, NEW r,
         front' = [front EXCEPT ![f] = r], Fits(r), r.status = "live" => Ahead(r)
  PROVE  StreamInv'
<1>1. UNCHANGED <<next_event_sequence, retained_product_events, publishing, channel, Newest>>
  BY DEF server, Newest
<1>2. Numbered' /\ Contiguous'
  BY <1>1 DEF StreamInv, Numbered, Contiguous
<1>3. \A x : Fits(x) => (Fits(x))'
  BY <1>1 DEF Fits
<1>4. front' \in [FrontEnd -> FrontState]
  BY DEF StreamInv, Followed, Fits
<1>5. ASSUME NEW g \in FrontEnd
      PROVE  Fits(front[g])' /\ (front'[g].status = "live" => Ahead(front[g])')
  <2>1. CASE g = f
    <3>1. front'[g] = r
      BY <2>1 DEF StreamInv, Followed
    <3> QED BY <1>1, <3>1 DEF Fits, Ahead
  <2>2. CASE g # f
    <3>1. front'[g] = front[g]
      BY <2>2 DEF StreamInv, Followed
    <3>2. Fits(front[g]) /\ (front[g].status = "live" => Ahead(front[g]))
      BY DEF StreamInv, Followed
    <3> QED BY <1>1, <3>1, <3>2 DEF Fits, Ahead
  <2> QED BY <2>1, <2>2
<1> QED BY <1>2, <1>4, <1>5 DEF StreamInv, Followed

\* Leaving and taking a snapshot.
LEMMA Leavers ==
  ASSUME StreamInv, NEW f \in FrontEnd
  PROVE  /\ Fits(Hydrated(f)) /\ Hydrated(f).status = "resuming"
         /\ Fits([Away EXCEPT !.status = "ended"])
         /\ Fits([Away EXCEPT !.status = "connected", !.generation = client.generation + 1])
<1>1. front[f] \in FrontState /\ Newest \in Nat /\ front[f].at <= Len(channel) /\ Len(channel) \in Nat
  BY DEF StreamInv, Followed, Fits, Numbered, Newest
<1>2. /\ Hydrated(f) \in FrontState /\ Hydrated(f).status = "resuming"
      /\ Hydrated(f).cursor = Newest /\ Hydrated(f).at = front[f].at
  <2> DEFINE r == [front[f] EXCEPT !.status = "resuming"]
  <2>1. r \in FrontState /\ r.status = "resuming" /\ r.at = front[f].at
    BY <1>1 DEF FrontState
  <2>2. Hydrated(f) = [r EXCEPT !.cursor = Newest]
    BY DEF Hydrated
  <2> HIDE DEF r
  <2> QED BY <1>1, <2>1, <2>2 DEF FrontState
<1>3. Away \in FrontState /\ Away.cursor = 0 /\ Away.at = 0
  BY DEF Away, FrontState
<1>4. client.generation + 1 \in Nat
  BY DEF StreamInv, ClientKnown
<1> DEFINE gone == [Away EXCEPT !.status = "ended"]
           came == [Away EXCEPT !.status = "connected", !.generation = client.generation + 1]
<1>5. gone \in FrontState /\ gone.cursor = 0 /\ gone.at = 0
  BY <1>3 DEF FrontState
<1>6. came \in FrontState /\ came.cursor = 0 /\ came.at = 0
  <2> DEFINE r == [Away EXCEPT !.status = "connected"]
  <2>1. r \in FrontState /\ r.cursor = 0 /\ r.at = 0
    BY <1>3 DEF FrontState
  <2>2. came = [r EXCEPT !.generation = client.generation + 1]
    OBVIOUS
  <2> HIDE DEF r, came
  <2> QED BY <1>4, <2>1, <2>2 DEF FrontState
<1> HIDE DEF gone, came
<1>7. Fits(Hydrated(f)) /\ Fits(gone) /\ Fits(came)
  BY <1>1, <1>2, <1>5, <1>6 DEF Fits
<1> QED BY <1>2, <1>7 DEF gone, came

\* A front end that leaves or takes a snapshot is no live one.
LEMMA Departs ==
  ASSUME StreamInv, UNCHANGED <<server, boundary>>, ClientKnown', NEW f \in FrontEnd,
         Leave(f) \/ front' = [front EXCEPT ![f] = Hydrated(f)]
  PROVE  StreamInv'
<1>1. CASE Leave(f)
  <2>1. [Away EXCEPT !.status = "ended"].status = "ended"
    BY DEF Away
  <2> QED BY <1>1, <2>1, Leavers, FrontMoves DEF Leave
<1>2. CASE front' = [front EXCEPT ![f] = Hydrated(f)]
  <2>1. Hydrated(f).status # "live" /\ Fits(Hydrated(f))
    BY Leavers
  <2> QED BY <1>2, <2>1, FrontMoves
<1> QED BY <1>1, <1>2

\* A front end that stays where it is owes no more than before.
LEMMA StaysAhead ==
  ASSUME StreamInv, NEW f \in FrontEnd, NEW b \in BOOLEAN
  PROVE  LET r == [front[f] EXCEPT !.unseen = b]
         IN  Fits(r) /\ (r.status = "live" => Ahead(r))
<1> DEFINE r == [front[f] EXCEPT !.unseen = b]
<1>1. front[f] \in FrontState /\ Fits(front[f]) /\ (front[f].status = "live" => Ahead(front[f]))
  BY DEF StreamInv, Followed
<1>2. /\ r \in FrontState /\ r.status = front[f].status /\ r.cursor = front[f].cursor
      /\ r.at = front[f].at
  BY <1>1 DEF FrontState
<1> HIDE DEF r
<1>3. Fits(r) /\ (r.status = "live" => Ahead(r))
  BY <1>1, <1>2 DEF Fits, Ahead
<1> QED BY <1>3 DEF r

LEMMA ResumeKeeps ==
  ASSUME StreamInv, NEW f \in FrontEnd, Resume(f)
  PROVE  StreamInv'
<1>1. UNCHANGED <<server, boundary>> /\ ClientKnown'
  BY DEF Resume, StreamInv, ClientKnown
<1> DEFINE view == [front[f] EXCEPT !.status = "live", !.at = Len(channel), !.unseen = FALSE]
<1>2. CASE front' = [front EXCEPT ![f] = Replayed(view)] /\ ~Gap(front[f].cursor)
  <2>1. /\ front[f] \in FrontState /\ Newest \in Nat /\ front[f].cursor <= Newest
        /\ Len(channel) \in Nat
    BY DEF StreamInv, Followed, Fits, Numbered, Newest
  <2>2. /\ view \in FrontState /\ view.status = "live" /\ view.cursor = front[f].cursor
        /\ view.at = Len(channel)
    BY <2>1 DEF FrontState
  <2> HIDE DEF view
  <2> DEFINE r == Replayed(view)
  <2>3. r \in {[view EXCEPT !.status = "resync"], [view EXCEPT !.cursor = Newest]}
    BY <1>2, <2>1, <2>2, ReplayIsWhole DEF StreamInv
  <2>4. CASE r = [view EXCEPT !.status = "resync"]
    <3>1. Fits(r) /\ r.status = "resync"
      BY <2>1, <2>2, <2>4 DEF Fits, FrontState
    <3> HIDE DEF r
    <3> QED BY <1>1, <1>2, <3>1, FrontMoves DEF r
  <2>5. CASE r = [view EXCEPT !.cursor = Newest]
    <3>1. Fits(r) /\ r.cursor = Newest
      BY <2>1, <2>2, <2>5 DEF Fits, FrontState
    <3>2. Ahead(r)
      BY <2>1, <3>1 DEF Ahead
    <3> HIDE DEF r
    <3> QED BY <1>1, <1>2, <3>1, <3>2, FrontMoves DEF r
  <2> QED BY <2>3, <2>4, <2>5
<1>3. Leave(f) \/ front' = [front EXCEPT ![f] = Hydrated(f)]
      \/ (front' = [front EXCEPT ![f] = Replayed(view)] /\ ~Gap(front[f].cursor))
  BY DEF Resume, StreamInv, Followed
<1> QED BY <1>1, <1>2, <1>3, Departs

LEMMA DeliverKeeps ==
  ASSUME StreamInv, NEW f \in FrontEnd, Deliver(f)
  PROVE  StreamInv'
<1>1. UNCHANGED <<server, boundary>> /\ ClientKnown'
  BY DEF Deliver, StreamInv, ClientKnown
<1> DEFINE s == channel[front[f].at + 1]
           view == Applied(front[f], s)
           r == [view EXCEPT !.at = @ + 1]
<1>2. CASE front' = [front EXCEPT ![f] = r]
  <2>1. /\ front[f] \in FrontState /\ Newest \in Nat /\ front[f].cursor <= Newest
        /\ front[f].at <= Len(channel) /\ Len(channel) \in Nat /\ front[f].at \in Nat
        /\ front[f].cursor \in Nat
    BY DEF StreamInv, Followed, Fits, Numbered, Newest, FrontState
  <2>2. front[f].at + 1 \in 1 .. Len(channel)
    <3>1. Len(channel) - front[f].at \in 1 .. ChannelCapacity
      BY DEF Deliver, Behind
    <3>2. ChannelCapacity \in Nat
      BY StreamConstants
    <3> QED BY <2>1, <3>1, <3>2
  <2>3. s \in 1 .. Newest
    BY <2>2 DEF StreamInv, Numbered
  <2>4. front[f].status = "live" => Ahead(front[f])
    BY DEF StreamInv, Followed
  <2> HIDE DEF s
  <2>5. view \in {front[f], [front[f] EXCEPT !.cursor = s], [front[f] EXCEPT !.status = "resync"]}
    BY DEF Applied
  <2>6. view \in FrontState /\ view.at = front[f].at /\ view.cursor \in Nat /\ view.cursor <= Newest
    BY <2>1, <2>3, <2>5 DEF FrontState
  <2>7. view.status = "live" =>
          front[f].status = "live" /\ front[f].cursor <= view.cursor /\ s <= view.cursor
    BY <2>1, <2>3 DEF Applied, FrontState
  <2> HIDE DEF view
  <2>8. /\ r \in FrontState /\ r.at = front[f].at + 1 /\ r.cursor = view.cursor
        /\ r.status = view.status
    BY <2>1, <2>6 DEF FrontState
  <2> HIDE DEF r
  <2>9. Fits(r)
    BY <2>1, <2>2, <2>6, <2>8 DEF Fits
  <2>10. ASSUME r.status = "live" PROVE Ahead(r)
    <3> SUFFICES ASSUME NEW n \in (r.cursor + 1) .. Newest,
                        \A p \in Publisher : publishing[p] # n
                 PROVE  \E i \in (r.at + 1) .. Len(channel) : channel[i] = n
      BY DEF Ahead
    <3>1. n \in (front[f].cursor + 1) .. Newest /\ n # s
      BY <2>1, <2>3, <2>6, <2>7, <2>8, <2>10
    <3>2. PICK i \in (front[f].at + 1) .. Len(channel) : channel[i] = n
      BY <2>4, <2>7, <2>8, <2>10, <3>1 DEF Ahead
    <3>3. i # front[f].at + 1
      BY <3>1, <3>2 DEF s
    <3> QED BY <2>1, <2>8, <3>2, <3>3
  <2> QED BY <1>1, <1>2, <2>9, <2>10, FrontMoves DEF r, view, s
<1>3. Leave(f) \/ front' = [front EXCEPT ![f] = r]
  BY DEF Deliver
<1> QED BY <1>1, <1>2, <1>3, Departs

\* The other steps of a front end.
LEMMA FrontEndKeeps ==
  ASSUME StreamInv, NEW f \in FrontEnd, FrontEndStep(f)
  PROVE  StreamInv'
<1>1. CASE TakeSnapshot(f)
  BY <1>1, Departs DEF TakeSnapshot, StreamInv, ClientKnown
<1>2. CASE Lag(f)
  BY <1>2, Departs DEF Lag, StreamInv, ClientKnown
<1>3. CASE Refused(f)
  BY <1>3, Departs DEF Refused, StreamInv, ClientKnown
<1>4. CASE Wakes(f)
  <2>1. UNCHANGED <<server, boundary>> /\ ClientKnown'
    BY <1>4 DEF Wakes, StreamInv, ClientKnown
  <2>2. CASE Leave(f)
    BY <2>1, <2>2, Departs
  <2>3. CASE front' = [front EXCEPT ![f].unseen = FALSE]
    <3>1. front' = [front EXCEPT ![f] = [front[f] EXCEPT !.unseen = FALSE]]
      BY <2>3 DEF StreamInv, Followed
    <3> DEFINE r == [front[f] EXCEPT !.unseen = FALSE]
    <3>2. Fits(r) /\ (r.status = "live" => Ahead(r))
      BY StaysAhead
    <3> HIDE DEF r
    <3> QED BY <2>1, <3>1, <3>2, FrontMoves DEF r
  <2> QED BY <1>4, <2>2, <2>3 DEF Wakes
<1> QED BY <1>1, <1>2, <1>3, <1>4, ResumeKeeps, DeliverKeeps DEF FrontEndStep

LEMMA ConnectKeeps ==
  ASSUME StreamInv, NEW f \in FrontEnd, Connect(f) \/ Detach(f)
  PROVE  StreamInv'
<1>1. CASE Connect(f)
  <2>1. UNCHANGED <<server, boundary>> /\ ClientKnown'
    <3>1. /\ client' = [[client EXCEPT !.generation = @ + 1] EXCEPT !.connection = "Attached"]
          /\ UNCHANGED <<server, boundary, runtime_lifecycle>>
      BY <1>1 DEF Connect
    <3>2. client.generation + 1 \in Nat
      BY DEF StreamInv, ClientKnown
    <3>3. [client EXCEPT !.generation = @ + 1] \in [generation : Nat,
            connection : {"Attached", "ShuttingDown", "Detached"}, eligible : Nat]
      BY <3>2 DEF StreamInv, ClientKnown
    <3> QED BY <3>1, <3>3 DEF StreamInv, ClientKnown
  <2> DEFINE r == [Away EXCEPT !.status = "connected", !.generation = client.generation + 1]
  <2>2. front' = [front EXCEPT ![f] = r]
    BY <1>1 DEF Connect
  <2>3. Fits(r) /\ r.status = "connected"
    BY Leavers DEF Away
  <2> HIDE DEF r
  <2> QED BY <2>1, <2>2, <2>3, FrontMoves
<1>2. CASE Detach(f)
  <2>1. UNCHANGED <<server, boundary>> /\ ClientKnown' /\ Leave(f)
    BY <1>2 DEF Detach, StreamInv, ClientKnown
  <2> QED BY <2>1, Departs
<1> QED BY <1>1, <1>2

\* Steps that leave the streams alone but for the flags of the receivers.
LEMMA FlagsKeep ==
  ASSUME StreamInv, UNCHANGED <<server, boundary>>, ClientKnown',
         UNCHANGED front
           \/ front' = [f \in FrontEnd |-> [front[f] EXCEPT !.unseen = Receiving(f)]]
  PROVE  StreamInv'
<1>1. UNCHANGED <<next_event_sequence, retained_product_events, publishing, channel, Newest>>
  BY DEF server, Newest
<1>2. Numbered' /\ Contiguous'
  BY <1>1 DEF StreamInv, Numbered, Contiguous
<1>3. ASSUME NEW f \in FrontEnd
      PROVE  /\ Fits(front'[f]) /\ (front'[f].status = "live" => Ahead(front'[f]))
  <2>1. CASE UNCHANGED front
    BY <2>1 DEF StreamInv, Followed
  <2>2. CASE front' = [g \in FrontEnd |-> [front[g] EXCEPT !.unseen = Receiving(g)]]
    <3>1. front'[f] = [front[f] EXCEPT !.unseen = Receiving(f)] /\ Receiving(f) \in BOOLEAN
      BY <2>2 DEF Receiving
    <3> HIDE DEF Receiving
    <3> QED BY <3>1, StaysAhead
  <2> QED BY <2>1, <2>2
<1>4. front' \in [FrontEnd -> FrontState]
  <2>1. DOMAIN front' = FrontEnd /\ front' = [f \in FrontEnd |-> front'[f]]
    BY DEF StreamInv, Followed
  <2> QED BY <1>3, <2>1 DEF Fits
<1>5. \A f \in FrontEnd : Fits(front[f])' /\ (front'[f].status = "live" => Ahead(front[f])')
  BY <1>1, <1>3 DEF Fits, Ahead
<1> QED BY <1>2, <1>4, <1>5 DEF StreamInv, Followed

\* A number is given and retained, and it is about to be sent.
LEMMA NumberKeeps ==
  ASSUME StreamInv, NEW p \in Publisher, Number(p),
         (boundary' = boundary /\ Newest < MaxEvents)
           \/ (boundary = 0 /\ boundary' = next_event_sequence)
  PROVE  StreamInv'
<1>0. /\ MaxEvents \in Nat /\ RetainedCapacity \in Nat \ {0} /\ next_event_sequence \in Nat \ {0}
      /\ Newest = next_event_sequence - 1 /\ Newest \in Nat
  BY StreamConstants DEF StreamInv, Numbered, Newest
<1>1. /\ publishing[p] = 0 /\ publishing' = [publishing EXCEPT ![p] = next_event_sequence]
      /\ next_event_sequence' = next_event_sequence + 1 /\ Newest' = next_event_sequence
      /\ retained_product_events' = Retain(retained_product_events, next_event_sequence)
      /\ UNCHANGED <<channel, runtime_lifecycle, client, front>>
  BY <1>0 DEF Number, Newest
<1>2. Numbered'
  <2>1. boundary' \in 0 .. Newest' /\ Newest' <= MaxEvents + (IF boundary' = 0 THEN 0 ELSE 1)
    BY <1>0, <1>1 DEF StreamInv, Numbered
  <2>2. publishing' \in [Publisher -> 0 .. Newest']
    BY <1>0, <1>1 DEF StreamInv, Numbered
  <2>3. \A i \in 1 .. Len(channel') : channel'[i] \in 1 .. Newest'
    BY <1>0, <1>1 DEF StreamInv, Numbered
  <2> QED BY <1>0, <1>1, <2>1, <2>2, <2>3 DEF StreamInv, Numbered
<1>3. Contiguous'
  <2> DEFINE ring == retained_product_events
             kept == IF Len(ring) = RetainedCapacity THEN Tail(ring) ELSE ring
  <2>1. /\ ring \in Seq(Nat) /\ Len(ring) \in Nat /\ Len(ring) <= RetainedCapacity
        /\ \A i \in 1 .. Len(ring) : ring[i] = Newest - Len(ring) + i
        /\ Len(ring) <= Newest
    BY DEF StreamInv, Contiguous
  <2>2. /\ kept \in Seq(Nat) /\ Len(kept) \in Nat /\ Len(kept) < RetainedCapacity
        /\ Len(kept) <= Newest
        /\ \A i \in 1 .. Len(kept) : kept[i] = Newest - Len(kept) + i
    <3>1. CASE Len(ring) = RetainedCapacity
      <4>1. /\ kept = Tail(ring) /\ kept \in Seq(Nat) /\ Len(kept) = Len(ring) - 1
            /\ \A i \in 1 .. Len(kept) : kept[i] = ring[i + 1]
        BY <1>0, <2>1, <3>1
      <4> HIDE DEF kept
      <4>2. \A i \in 1 .. Len(kept) : kept[i] = Newest - Len(kept) + i
        <5> SUFFICES ASSUME NEW i \in 1 .. Len(kept) PROVE kept[i] = Newest - Len(kept) + i
          OBVIOUS
        <5>1. kept[i] = ring[i + 1] /\ Len(kept) = Len(ring) - 1
          BY <4>1
        <5>2. i + 1 \in 1 .. Len(ring)
          BY <2>1, <5>1
        <5>3. ring[i + 1] = Newest - Len(ring) + (i + 1)
          BY <2>1, <5>2
        <5> QED BY <1>0, <2>1, <5>1, <5>3
      <4>3. /\ Len(kept) = RetainedCapacity - 1 /\ Len(kept) \in Nat
            /\ Len(kept) < RetainedCapacity /\ Len(kept) <= Newest
        <5>1. Len(kept) = Len(ring) - 1 /\ Len(ring) <= Newest
          BY <2>1, <4>1
        <5> QED BY <1>0, <3>1, <5>1
      <4> QED BY <4>1, <4>2, <4>3
    <3>2. CASE Len(ring) # RetainedCapacity
      <4>1. kept = ring
        BY <3>2
      <4> HIDE DEF kept
      <4>2. Len(ring) < RetainedCapacity
        BY <1>0, <2>1, <3>2
      <4> QED BY <2>1, <4>1, <4>2
    <3> QED BY <3>1, <3>2
  <2> HIDE DEF kept
  <2>3. retained_product_events' = Append(kept, next_event_sequence)
    BY <1>1 DEF Retain, kept
  <2>4. /\ retained_product_events' \in Seq(Nat)
        /\ Len(retained_product_events') = Len(kept) + 1
        /\ retained_product_events'[Len(kept) + 1] = next_event_sequence
        /\ \A i \in 1 .. Len(kept) : retained_product_events'[i] = kept[i]
    BY <1>0, <2>2, <2>3
  <2>5. \A i \in 1 .. Len(retained_product_events') :
          retained_product_events'[i] = Newest' - Len(retained_product_events') + i
    <3> SUFFICES ASSUME NEW i \in 1 .. Len(retained_product_events')
                 PROVE  retained_product_events'[i] = Newest' - Len(retained_product_events') + i
      OBVIOUS
    <3>1. CASE i = Len(kept) + 1
      BY <1>0, <1>1, <2>2, <2>4, <3>1
    <3>2. CASE i # Len(kept) + 1
      <4>1. i \in 1 .. Len(kept)
        BY <2>2, <2>4, <3>2
      <4> QED BY <1>0, <1>1, <2>2, <2>4, <4>1
    <3> QED BY <3>1, <3>2
  <2>6. /\ Len(retained_product_events') <= RetainedCapacity
        /\ Len(retained_product_events') <= Newest' /\ Len(retained_product_events') > 0
    BY <1>0, <1>1, <2>2, <2>4
  <2> QED BY <2>4, <2>5, <2>6 DEF Contiguous
<1>4. ASSUME NEW f \in FrontEnd
      PROVE  Fits(front[f])' /\ (front'[f].status = "live" => Ahead(front[f])')
  <2>1. Fits(front[f]) /\ (front[f].status = "live" => Ahead(front[f])) /\ front[f] \in FrontState
    BY DEF StreamInv, Followed
  <2>2. Fits(front[f])'
    BY <1>0, <1>1, <2>1 DEF Fits, FrontState
  <2>3. ASSUME front[f].status = "live", NEW s \in (front[f].cursor + 1) .. Newest'
        PROVE  \/ \E i \in (front[f].at + 1) .. Len(channel) : channel[i] = s
               \/ \E q \in Publisher : publishing'[q] = s
    <3>1. CASE s = next_event_sequence
      BY <1>1, <3>1 DEF StreamInv, Numbered
    <3>2. CASE s # next_event_sequence
      <4>1. front[f].cursor \in Nat
        BY <2>1 DEF FrontState
      <4>2. s \in (front[f].cursor + 1) .. Newest /\ s # 0
        BY <1>0, <1>1, <3>2, <4>1
      <4>3. \A q \in Publisher : publishing[q] = s => publishing'[q] = s
        BY <1>1, <4>2 DEF StreamInv, Numbered
      <4> QED BY <2>1, <2>3, <4>2, <4>3 DEF Ahead
    <3> QED BY <3>1, <3>2
  <2> QED BY <1>1, <2>2, <2>3 DEF Ahead
<1>5. ClientKnown'
  BY <1>1 DEF StreamInv, ClientKnown
<1> QED BY <1>1, <1>2, <1>3, <1>4, <1>5 DEF StreamInv, Followed

LEMMA SendKeeps ==
  ASSUME StreamInv, NEW p \in Publisher, Send(p)
  PROVE  StreamInv'
<1>1. /\ publishing[p] # 0 /\ channel' = Append(channel, publishing[p])
      /\ publishing' = [publishing EXCEPT ![p] = 0]
      /\ UNCHANGED <<next_event_sequence, retained_product_events, boundary, runtime_lifecycle,
                     client, front, Newest>>
  BY DEF Send, Newest
<1>2. /\ channel \in Seq(Nat) /\ Len(channel) \in Nat /\ publishing[p] \in 1 .. Newest
      /\ publishing \in [Publisher -> 0 .. Newest] /\ Newest \in Nat
  BY <1>1 DEF StreamInv, Numbered, Newest
<1>3. /\ channel' \in Seq(Nat) /\ Len(channel') = Len(channel) + 1
      /\ channel'[Len(channel) + 1] = publishing[p]
      /\ \A i \in 1 .. Len(channel) : channel'[i] = channel[i]
  BY <1>1, <1>2
<1>4. Numbered'
  <2>1. publishing' \in [Publisher -> 0 .. Newest]
    BY <1>1, <1>2
  <2>2. \A i \in 1 .. Len(channel') : i \in 1 .. Len(channel) \/ i = Len(channel) + 1
    BY <1>2, <1>3
  <2>3. \A i \in 1 .. Len(channel') : channel'[i] \in 1 .. Newest
    BY <1>2, <1>3, <2>2 DEF StreamInv, Numbered
  <2> QED BY <1>1, <1>3, <2>1, <2>3 DEF StreamInv, Numbered
<1>5. Contiguous' /\ ClientKnown'
  BY <1>1 DEF StreamInv, Contiguous, ClientKnown
<1>6. ASSUME NEW f \in FrontEnd
      PROVE  Fits(front[f])' /\ (front'[f].status = "live" => Ahead(front[f])')
  <2>1. /\ Fits(front[f]) /\ (front[f].status = "live" => Ahead(front[f]))
        /\ front[f].at \in Nat /\ front[f].at <= Len(channel)
    BY DEF StreamInv, Followed, Fits, FrontState
  <2>2. Fits(front[f])'
    BY <1>1, <1>2, <1>3, <2>1 DEF Fits
  <2>3. ASSUME front[f].status = "live", NEW s \in (front[f].cursor + 1) .. Newest
        PROVE  \/ \E i \in (front[f].at + 1) .. Len(channel') : channel'[i] = s
               \/ \E q \in Publisher : publishing'[q] = s
    <3>1. CASE \E i \in (front[f].at + 1) .. Len(channel) : channel[i] = s
      <4>1. PICK i \in (front[f].at + 1) .. Len(channel) : channel[i] = s
        BY <3>1
      <4>2. i \in 1 .. Len(channel) /\ i \in (front[f].at + 1) .. Len(channel')
        BY <1>2, <1>3, <2>1
      <4> QED BY <1>3, <4>1, <4>2
    <3>2. CASE publishing[p] = s
      <4>1. Len(channel) + 1 \in (front[f].at + 1) .. Len(channel')
        BY <1>2, <1>3, <2>1
      <4> QED BY <1>3, <3>2, <4>1
    <3>3. CASE \E q \in Publisher \ {p} : publishing[q] = s
      BY <1>1, <1>2, <3>3
    <3> QED BY <2>1, <2>3, <3>1, <3>2, <3>3 DEF Ahead
  <2> QED BY <1>1, <2>2, <2>3 DEF Ahead
<1> QED BY <1>1, <1>4, <1>5, <1>6 DEF StreamInv, Followed

LEMMA StreamStarts == StreamInit => StreamInv
<1> SUFFICES ASSUME StreamInit PROVE StreamInv
  OBVIOUS
<1>0. MaxEvents \in Nat /\ RetainedCapacity \in Nat \ {0} /\ Newest = 0
  BY StreamConstants DEF StreamInit, Newest
<1>1. Numbered
  BY <1>0, EmptySeq DEF StreamInit, Numbered
<1>2. Contiguous
  BY <1>0, EmptySeq DEF StreamInit, Contiguous
<1>3. ClientKnown
  BY DEF StreamInit, ClientKnown
<1>4. Followed
  <2>1. Fits(Away) /\ Away.status = "away"
    BY <1>0 DEF StreamInit, Away, Fits, FrontState
  <2> QED BY <2>1 DEF StreamInit, Followed, Fits
<1> QED BY <1>1, <1>2, <1>3, <1>4 DEF StreamInv

LEMMA StreamKeeps ==
  ASSUME StreamInv, [StreamNext]_streamVars
  PROVE  StreamInv'
<1>1. ASSUME NEW p \in Publisher, Publish(p) \/ Send(p) PROVE StreamInv'
  BY <1>1, NumberKeeps, SendKeeps DEF Publish
<1>2. CASE ShutdownRequested
  BY <1>2, FlagsKeep DEF ShutdownRequested, StreamInv, ClientKnown
<1>3. CASE PublishShutdown
  BY <1>3, NumberKeeps, StreamConstants DEF PublishShutdown
<1>4. CASE ShutdownFinished
  BY <1>4, FlagsKeep DEF ShutdownFinished, StreamInv, ClientKnown
<1>5. CASE Signal
  BY <1>5, FlagsKeep DEF Signal, StreamInv, ClientKnown
<1>6. ASSUME NEW f \in FrontEnd, Connect(f) \/ Detach(f) \/ FrontEndStep(f) PROVE StreamInv'
  BY <1>6, ConnectKeeps, FrontEndKeeps
<1>7. CASE UNCHANGED streamVars
  BY <1>7, FlagsKeep DEF streamVars, StreamInv, ClientKnown
<1> QED BY <1>1, <1>2, <1>3, <1>4, <1>5, <1>6, <1>7 DEF StreamNext

LEMMA StreamAlways == StreamSpec => []StreamInv
BY StreamStarts, StreamKeeps, PTL DEF StreamSpec

LEMMA StreamTyped == StreamInv => StreamTypeOK
<1> SUFFICES ASSUME StreamInv PROVE StreamTypeOK
  OBVIOUS
<1>1. Newest \in 0 .. MaxEvents + 1
  BY StreamConstants DEF StreamInv, Numbered, Newest
<1>2. ToSet(channel) \subseteq 1 .. Newest
  BY DEF StreamInv, Numbered, ToSet
<1>3. \A f \in FrontEnd : front[f].status \in
        {"away", "connected", "resuming", "live", "resync", "ended"}
  BY DEF StreamInv, Followed, FrontState
<1> QED BY <1>1, <1>2, <1>3
    DEF StreamInv, Numbered, Contiguous, ClientKnown, StreamTypeOK

\* Every variable of the event stream has its type, for any capacities.
THEOREM StreamTypes == StreamSpec => []StreamTypeOK
BY StreamTyped, StreamAlways, PTL

LEMMA StreamSkipsNothing == StreamInv => NothingSkipped
<1> SUFFICES ASSUME StreamInv, NEW f \in FrontEnd, front[f].status = "live",
                    NEW s \in (front[f].cursor + 1) .. Newest
             PROVE  s \in ToSet(SubSeq(channel, front[f].at + 1, Len(channel)))
                            \cup {publishing[p] : p \in Publisher}
  BY DEF NothingSkipped
<1> DEFINE rest == SubSeq(channel, front[f].at + 1, Len(channel))
<1>1. /\ channel \in Seq(Nat) /\ front[f].at \in Nat /\ front[f].at <= Len(channel)
      /\ Ahead(front[f])
  BY DEF StreamInv, Numbered, Followed, Fits, FrontState
<1>2. ASSUME NEW i \in (front[f].at + 1) .. Len(channel), channel[i] = s PROVE s \in ToSet(rest)
  <2> DEFINE m == front[f].at + 1
             n == Len(channel)
  <2>1. Len(channel) \in Nat /\ m \in 1 .. n + 1 /\ i \in m .. n /\ m <= n
    BY <1>1
  <2>2. rest \in Seq(Nat) /\ Len(rest) = n - m + 1
    BY <1>1, <2>1
  <2>3. \A j \in 1 .. n - m + 1 : rest[j] = channel[m + j - 1]
    <3>1. m \in Int /\ n \in Int /\ \A j \in m .. n : channel[j] \in Nat
      BY <1>1, <2>1
    <3>2. rest = SubSeq(channel, m, n)
      OBVIOUS
    <3> HIDE DEF rest, m, n
    <3>3. \A j \in 1 .. n - m + 1 : SubSeq(channel, m, n)[j] = channel[m + j - 1]
      BY <3>1, SubSeqProperties
    <3> QED BY <3>2, <3>3
  <2>4. i - m + 1 \in 1 .. n - m + 1 /\ m + (i - m + 1) - 1 = i
    <3>1. i \in Nat /\ m \in Nat /\ n \in Nat
      BY <1>1, <2>1
    <3> HIDE DEF m, n
    <3> QED BY <2>1, <3>1
  <2> HIDE DEF rest, m, n
  <2>5. rest[i - m + 1] = channel[i]
    BY <2>3, <2>4
  <2>6. DOMAIN rest = 1 .. Len(rest)
    BY <2>2
  <2> QED BY <1>2, <2>2, <2>4, <2>5, <2>6 DEF ToSet
<1> QED BY <1>1, <1>2 DEF Ahead

\* What was published after a front end's cut reaches it: what a live one has
\* not folded is ahead of its receiver or about to be sent, whatever it, the
\* publishers and the shutdown did (ProductEventRecoveryBoundary).
THEOREM CutsSkipNothing == StreamSpec => []NothingSkipped
BY StreamSkipsNothing, StreamAlways, PTL
=============================================================================
