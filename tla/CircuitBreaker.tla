--------------------------- MODULE CircuitBreaker ---------------------------
(***************************************************************************)
(* One per-(provider, api) circuit breaker of the ai crate                 *)
(* (crates/ai/src/transport/circuit_breaker.rs).                           *)
(*                                                                         *)
(* The breaker is a mutex around a three-state machine; each public method *)
(* is one critical section, hence one action.  BreakerState's payloads are *)
(* separate variables: the window of Closed, the age of Open, the probe    *)
(* count of HalfOpen.  Time is kept as the age of the Open state (now_ms - *)
(* opened_at_ms), the only quantity the code compares, in units in which   *)
(* open_duration_ms is OpenDuration; it stops growing once it is reached.  *)
(***************************************************************************)
EXTENDS Integers, Sequences, FiniteSets

CONSTANTS
    WindowSize,             \* window_size: outcomes kept in the sliding window
    FailureThresholdPct,    \* failure_threshold_pct: 0..100
    OpenDuration,           \* open_duration_ms, in clock ticks
    HalfOpenMaxProbes       \* half_open_max_probes

\* CircuitBreakerConfig::validate
Validate ==
    /\ WindowSize \in Nat \ {0}
    /\ FailureThresholdPct \in 0..100
    /\ OpenDuration \in Nat \ {0}
    /\ HalfOpenMaxProbes \in Nat \ {0}

ASSUME ConfigValid == Validate

VARIABLES
    state,              \* BreakerStateName
    window,             \* Window.results of Closed: TRUE is a success
    open_age,           \* now_ms - opened_at_ms of Open
    probes_in_flight    \* of HalfOpen

breakerVars == <<state, window, open_age, probes_in_flight>>

\* Window.failures: recounted after every push.
Failures(w) == Cardinality({i \in DOMAIN w : ~w[i]})

TypeOK ==
    /\ state \in {"Closed", "Open", "HalfOpen"}
    /\ window \in Seq(BOOLEAN)
    /\ open_age \in 0..OpenDuration
    /\ probes_in_flight \in Nat
-----------------------------------------------------------------------------
Init ==
    /\ state = "Closed"
    /\ window = << >>
    /\ open_age = 0
    /\ probes_in_flight = 0

\* Window::push: the oldest sample leaves only when the window is full.
Push(w, success) ==
    Append(IF Len(w) = WindowSize THEN Tail(w) ELSE w, success)

\* window_breached: no verdict before the window fills; integer percentage.
WindowBreached(w) ==
    /\ Len(w) = WindowSize
    /\ (Failures(w) * 100) \div WindowSize >= FailureThresholdPct

\* *state = BreakerState::Open { opened_at_ms: now }
Trip ==
    /\ state' = "Open"
    /\ open_age' = 0
    /\ window' = << >>
    /\ probes_in_flight' = 0

\* Mutant: a half-open probe is admitted without being counted.
BeforeRequestAllow_Uncounted ==
    \/ state = "Closed" /\ UNCHANGED breakerVars
    \/ /\ state = "Open"
       /\ open_age >= OpenDuration
       /\ state' = "HalfOpen"
       /\ probes_in_flight' = 1
       /\ open_age' = 0
       /\ UNCHANGED window
    \/ /\ state = "HalfOpen"
       /\ probes_in_flight < HalfOpenMaxProbes
       /\ UNCHANGED breakerVars

\* before_request answers Allow
BeforeRequestAllow ==
    \/ /\ state = "Closed"
       /\ UNCHANGED breakerVars
    \/ /\ state = "Open"
       /\ open_age >= OpenDuration
       /\ state' = "HalfOpen"
       /\ probes_in_flight' = 1
       /\ open_age' = 0
       /\ UNCHANGED window
    \/ /\ state = "HalfOpen"
       /\ probes_in_flight < HalfOpenMaxProbes
       /\ probes_in_flight' = probes_in_flight + 1
       /\ UNCHANGED <<state, window, open_age>>

\* before_request answers Reject
BeforeRequestReject ==
    /\ \/ state = "Open" /\ open_age < OpenDuration
       \/ state = "HalfOpen" /\ probes_in_flight >= HalfOpenMaxProbes
    /\ UNCHANGED breakerVars

\* Closed: push the outcome, then open if the window is breached.
RecordInWindow(success) ==
    LET w == Push(window, success) IN
    /\ state = "Closed"
    /\ IF WindowBreached(w)
       THEN Trip
       ELSE /\ window' = w
            /\ UNCHANGED <<state, open_age, probes_in_flight>>

\* Mutant: any success closes the breaker, a late one of an Open breaker too.
RecordSuccess_ClosesOpen ==
    \/ RecordInWindow(TRUE)
    \/ /\ state # "Closed"
       /\ state' = "Closed"
       /\ window' = << >>
       /\ probes_in_flight' = 0
       /\ UNCHANGED open_age

RecordSuccess ==
    \/ RecordInWindow(TRUE)
    \/ /\ state = "HalfOpen"
       /\ state' = "Closed"
       /\ window' = << >>
       /\ probes_in_flight' = 0
       /\ UNCHANGED open_age
    \/ /\ state = "Open"
       /\ UNCHANGED breakerVars

RecordFailure ==
    \/ RecordInWindow(FALSE)
    \/ state = "HalfOpen" /\ Trip
    \/ /\ state = "Open"
       /\ UNCHANGED breakerVars

\* Clock::now_ms advances; only the age of an Open breaker matters.
Tick ==
    /\ state = "Open"
    /\ open_age < OpenDuration
    /\ open_age' = open_age + 1
    /\ UNCHANGED <<state, window, probes_in_flight>>

\* The breaker alone, under an arbitrary client.
Next ==
    \/ BeforeRequestAllow
    \/ BeforeRequestReject
    \/ RecordSuccess
    \/ RecordFailure
    \/ Tick

Spec == Init /\ [][Next]_breakerVars
-----------------------------------------------------------------------------
\* The sliding window never outgrows window_size, a Closed breaker never holds
\* a window at or over the threshold (record_success and record_failure open it
\* in the same critical section), and a half-open breaker has between one and
\* half_open_max_probes slots taken.
BreakerInv ==
    /\ Len(window) <= WindowSize
    /\ state = "Closed" => ~WindowBreached(window)
    /\ state = "HalfOpen" => probes_in_flight \in 1..HalfOpenMaxProbes
    /\ state # "HalfOpen" => probes_in_flight = 0
    /\ state # "Closed" => window = << >>

\* A tripped breaker stays Open for the whole open_duration_ms whatever late
\* outcomes arrive, and can only be left towards HalfOpen: it never closes on
\* the success of a request admitted before it tripped.
OpenHoldsFullDuration ==
    [][state = "Open" /\ state' # "Open" =>
          state' = "HalfOpen" /\ open_age = OpenDuration]_breakerVars
=============================================================================
